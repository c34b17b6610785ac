-------------------------- MODULE Acquisition_proofs --------------------------
(***************************************************************************)
(* Proofs about acquisition: types, the handle store under its mutex, what *)
(* backends took from a submission, and what one activation at a time does *)
(* to the records of a content; that the clients of the backends           *)
(* answer truly (TorrentClients); that a file it downloads itself is whole  *)
(* (ReleaseFetch); and that torrents and links are read as they were made   *)
(* (TorrentFile).                                                          *)
(***************************************************************************)
EXTENDS Acquisition, TorrentClients, ReleaseFetch, TorrentFile, FiniteSetTheorems, TLAPS

-----------------------------------------------------------------------------
(* Types.                                                                   *)

States == {"live", "completed", "failed", "missing"}
Afters == {"status", "first", "poll", "uncertain"}

(* A record with another state is a record.                                 *)
LEMMA RestatedType ==
  ASSUME NEW r \in Record, NEW s \in States
  PROVE  [r EXCEPT !.state = s] \in Record
BY DEF Record, States

(* The locals of an activation that stands nowhere.                         *)
LEMMA BlankType == Blank \in Locals
<1>1. 1 \in 1..Len(Order) /\ 0 \in 0..MaxPolls
  BY OrderAssumption, BoundAssumption
<1> QED
  BY <1>1 DEF Blank, Locals

CallType ==
  /\ pc' \in [Callers -> PcValues]
  /\ my' \in [Callers -> Locals]

(* Ending an activation keeps the types.                                    *)
LEMMA EndsType ==
  ASSUME TypeOK, NEW c \in Callers, NEW how \in PcValues, Ends(c, how)
  PROVE  CallType
BY BlankType DEF TypeOK, Ends, To, CallType

(* So does failing.                                                         *)
LEMMA FailsType ==
  ASSUME TypeOK, NEW c \in Callers, Fails(c)
  PROVE  CallType
BY EndsType DEF Fails, PcValues

(* A put of a record keeps the types.                                       *)
LEMMA PutType ==
  ASSUME TypeOK, NEW c \in Callers, NEW i \in Callers, NEW r \in Record, NEW why \in Afters,
         Put(c, i, r, why)
  PROVE  CallType /\ lock' \in Seq(Callers)
<1>1. my' \in [Callers -> Locals]
  <2> DEFINE m == [my[c] EXCEPT !.id = i, !.rec = r, !.after = why]
  <2>1. my \in [Callers -> Locals]
    BY DEF TypeOK
  <2>2. m \in Locals
    BY <2>1, ZenonT(60) DEF Locals, Afters
  <2>3. my' = [my EXCEPT ![c] = m]
    BY DEF Put
  <2> QED
    BY <2>1, <2>2, <2>3
<1>2. pc' \in [Callers -> PcValues] /\ lock' \in Seq(Callers)
  BY DEF TypeOK, Put, To, PcValues
<1> QED
  BY <1>1, <1>2 DEF CallType

(* Starting fresh keeps the types.                                          *)
LEMMA FreshType ==
  ASSUME TypeOK, NEW c \in Callers, Fresh(c)
  PROVE  CallType
<1>1. CASE Ends(c, "returned")
  BY <1>1, EndsType DEF PcValues
<1>2. CASE /\ To(c, IF my[c].stage = "link" THEN "fetching" ELSE "trying")
           /\ my' = [my EXCEPT ![c].id = None, ![c].rec = None]
  <2>1. my \in [Callers -> Locals]
    BY DEF TypeOK
  <2>2. [my[c] EXCEPT !.id = None, !.rec = None] \in Locals
    BY <2>1, ZenonT(60) DEF Locals
  <2>3. my' = [my EXCEPT ![c] = [my[c] EXCEPT !.id = None, !.rec = None]]
    BY <1>2
  <2> QED
    BY <1>2, <2>1, <2>2, <2>3 DEF TypeOK, To, PcValues, CallType
<1> QED
  BY <1>1, <1>2 DEF Fresh

(* So does handing out what status says.                                    *)
LEMMA ResolvedType ==
  ASSUME TypeOK, NEW c \in Callers, NEW r, Resolved(c, r)
  PROVE  CallType
BY EndsType, FreshType DEF Resolved, PcValues

(* Locals with another purpose, source or stage, other polls or another     *)
(* backend to try are locals.                                               *)
LEMMA LocalsType ==
  ASSUME NEW m \in Locals
  PROVE  /\ \A o \in {"submit", "check", "status"}, s \in Sources, g \in {"link", "torrent"} :
              [m EXCEPT !.op = o, !.src = s, !.stage = g] \in Locals
         /\ \A i \in Callers : [m EXCEPT !.op = "status", !.id = i] \in Locals
         /\ \A i \in Callers : [m EXCEPT !.id = i] \in Locals
         /\ \A r \in Record : [m EXCEPT !.rec = r, !.after = "status"] \in Locals
         /\ [m EXCEPT !.stage = "torrent"] \in Locals
         /\ m.at < Len(Order) => [m EXCEPT !.at = @ + 1] \in Locals
         /\ m.polls < MaxPolls => [m EXCEPT !.after = "poll", !.polls = @ + 1] \in Locals
<1>1. /\ \A o \in {"submit", "check", "status"}, s \in Sources, g \in {"link", "torrent"} :
            [m EXCEPT !.op = o, !.src = s, !.stage = g] \in Locals
      /\ [m EXCEPT !.stage = "torrent"] \in Locals
  BY DEF Locals
<1>2. \A i \in Callers : [m EXCEPT !.op = "status", !.id = i] \in Locals
  BY DEF Locals
<1>3. \A i \in Callers : [m EXCEPT !.id = i] \in Locals
  BY DEF Locals
<1>4. \A r \in Record : [m EXCEPT !.rec = r, !.after = "status"] \in Locals
  BY DEF Locals
<1>5. ASSUME m.at < Len(Order) PROVE [m EXCEPT !.at = @ + 1] \in Locals
  <2>1. m.at + 1 \in 1..Len(Order)
    BY <1>5, OrderAssumption DEF Locals
  <2> QED
    BY <2>1 DEF Locals
<1>6. ASSUME m.polls < MaxPolls
      PROVE  [m EXCEPT !.after = "poll", !.polls = @ + 1] \in Locals
  <2>1. m.polls + 1 \in 0..MaxPolls
    BY <1>6, BoundAssumption DEF Locals
  <2> QED
    BY <2>1 DEF Locals
<1> QED
  BY <1>1, <1>2, <1>3, <1>4, <1>5, <1>6

(* Trying the next backend keeps the types.                                 *)
LEMMA NextBackendType ==
  ASSUME TypeOK, NEW c \in Callers, NextBackend(c)
  PROVE  CallType
<1>1. CASE my[c].at < Len(Order) /\ To(c, "trying") /\ my' = [my EXCEPT ![c].at = @ + 1]
  <2>1. my \in [Callers -> Locals] /\ my[c] \in Locals
    BY DEF TypeOK
  <2>2. my' = [my EXCEPT ![c] = [my[c] EXCEPT !.at = @ + 1]]
    BY <1>1
  <2>3. my' \in [Callers -> Locals]
    BY <1>1, <2>1, <2>2, LocalsType
  <2> QED
    BY <1>1, <2>3 DEF TypeOK, To, PcValues, CallType
<1>2. CASE Fails(c)
  BY <1>2, FailsType
<1> QED
  BY <1>1, <1>2 DEF NextBackend

(* What follows a put keeps the types.                                      *)
LEMMA AfterPutType ==
  ASSUME TypeOK, NEW c \in Callers, AfterPut(c)
  PROVE  CallType
<1>1. CASE Resolved(c, my[c].rec) \/ Ends(c, "returned") \/ Fails(c)
  BY <1>1, ResolvedType, EndsType, FailsType DEF PcValues
<1>2. CASE /\ my[c].polls < MaxPolls /\ To(c, "asking")
           /\ my' = [my EXCEPT ![c].after = "poll", ![c].polls = @ + 1]
  <2>1. my \in [Callers -> Locals] /\ my[c] \in Locals
    BY DEF TypeOK
  <2>2. my' = [my EXCEPT ![c] = [my[c] EXCEPT !.after = "poll", !.polls = @ + 1]]
    BY <1>2
  <2>3. my' \in [Callers -> Locals]
    BY <1>2, <2>1, <2>2, LocalsType
  <2> QED
    BY <1>2, <2>3 DEF TypeOK, To, PcValues, CallType
<1> QED
  BY <1>1, <1>2 DEF AfterPut

-----------------------------------------------------------------------------
(* Where an activation stands, and what its locals then are.                *)

Working == {"asking", "importing", "putting"}
Submitting == {"fetching", "trying", "probing"}
Lost(c) == pc[c] = "lost"
(* A working activation that follows up its own submit.                     *)
Owning(c) == pc[c] \in Working /\ my[c].after # "status"

ShapeOf(c) ==
  /\ Active(c) /\ my[c].op # "status" => my[c].src # None
  /\ pc[c] = "find" => my[c].op # "status"
  /\ pc[c] \in Submitting => my[c].op = "submit"
  /\ pc[c] \in Working \cup {"get"} => my[c].id # None
  /\ pc[c] \in Working => my[c].rec # None
  /\ pc[c] \in {"asking", "importing"} => my[c].rec.backend # "direct"
  /\ pc[c] = "putting" /\ my[c].rec.backend = "direct" =>
       my[c].after = "poll" /\ my[c].rec.state # "live"
  /\ pc[c] \notin {"asking", "probing"} => seen[c] = "nothing"

SameTorrent(r, s) == r.backend = s.backend /\ r.content = s.content /\ r.link = s.link

(* Which records are in the store, and whose they are.                      *)
KnownOf(c) ==
  /\ pc[c] \in {"get", "asking", "importing"} => store[my[c].id] # None
  /\ pc[c] = "putting" /\ my[c].after = "status" => store[my[c].id] # None
  /\ Owning(c) => my[c].id = c
  /\ pc[c] \in Working /\ store[my[c].id] # None => SameTorrent(store[my[c].id], my[c].rec)
  /\ store[c] # None => Ended(c) \/ Lost(c) \/ Owning(c)

(* A record of a plain file is complete.                                    *)
DirectIsDone ==
  \A i \in Callers : store[i] # None /\ store[i].backend = "direct" => store[i].state # "live"

Sound ==
  /\ \A c \in Callers : ShapeOf(c) /\ KnownOf(c)
  /\ DirectIsDone

(* The record of a submission that tries or probes a backend.               *)
LEMMA NewRecordType ==
  ASSUME TypeOK, Sound, NEW c \in Callers, pc[c] \in Submitting
  PROVE  /\ Content(c) \in Contents /\ Trying(c) \in Backends
         /\ my[c].src \in Sources /\ NewRecord(c) \in Record
<1>1. my[c] \in Locals /\ my[c].op = "submit" /\ my[c].src \in Sources
  BY DEF TypeOK, Sound, ShapeOf, Locals, Active, Ended, Submitting
<1>2. Content(c) \in Contents
  BY <1>1, LeadsAssumption DEF Content, Lead
<1>3. Trying(c) \in Backends
  BY <1>1, OrderAssumption DEF Trying, Locals
<1> QED
  BY <1>1, <1>2, <1>3 DEF NewRecord, Record

(* The locals of a working activation.                                      *)
LEMMA WorkingType ==
  ASSUME TypeOK, Sound, NEW c \in Callers, pc[c] \in Working
  PROVE  /\ my[c].id \in Callers /\ my[c].rec \in Record /\ my[c].after \in Afters
         /\ pc[c] # "putting" => my[c].rec.backend \in Backends
BY DEF TypeOK, Sound, ShapeOf, Locals, Working, Afters, Record

(* Keeping a state of the record in hand keeps the types.                   *)
LEMMA KeepsType ==
  ASSUME TypeOK, Sound, NEW c \in Callers, pc[c] \in Working, NEW s \in States, Keeps(c, s)
  PROVE  CallType /\ lock' \in Seq(Callers)
<1>1. /\ my[c].id \in Callers /\ my[c].after \in Afters
      /\ [my[c].rec EXCEPT !.state = s] \in Record
  BY WorkingType, RestatedType
<1> QED
  BY <1>1, PutType DEF Keeps

(* Every step keeps the types.                                              *)
LEMMA TypeStep ==
  ASSUME TypeOK, Sound, [Next]_vars
  PROVE  TypeOK'
<1> USE DEF storeVars, callVars, worldVars, historyVars
<1>0. ASSUME CallType, lock' \in Seq(Callers), UNCHANGED <<store, base, seen, worldVars, historyVars>>
      PROVE  TypeOK'
  BY <1>0 DEF TypeOK, CallType
<1>1. ASSUME NEW c \in Callers, NEW o \in {"submit", "check"}, NEW s \in Sources, Calls(c, o, s)
      PROVE  TypeOK'
  <2> DEFINE g == IF LeadsTo[s].via = "magnet" THEN "torrent" ELSE "link"
  <2>1. my \in [Callers -> Locals] /\ my[c] \in Locals
    BY DEF TypeOK
  <2>2. my' = [my EXCEPT ![c] = [my[c] EXCEPT !.op = o, !.src = s, !.stage = g]]
    BY <1>1 DEF Calls
  <2>3. my' \in [Callers -> Locals]
    BY <2>1, <2>2, LocalsType
  <2>4. contested' \in SUBSET Contents
    BY <1>1, LeadsAssumption DEF Calls, Enters, TypeOK
  <2> QED
    BY <1>1, <2>3, <2>4 DEF Calls, Enters, To, TypeOK, PcValues
<1>2. ASSUME NEW c \in Callers, NEW i \in Callers, Status(c, i) PROVE TypeOK'
  <2>1. my \in [Callers -> Locals] /\ my[c] \in Locals /\ store[i].content \in Contents
    BY <1>2 DEF TypeOK, Status, Record
  <2>2. my' = [my EXCEPT ![c] = [my[c] EXCEPT !.op = "status", !.id = i]]
    BY <1>2 DEF Status
  <2>3. my' \in [Callers -> Locals]
    BY <2>1, <2>2, LocalsType
  <2>4. contested' \in SUBSET Contents
    BY <1>2, <2>1 DEF Status, Enters, TypeOK
  <2> QED
    BY <1>2, <2>3, <2>4 DEF Status, Enters, To, TypeOK, PcValues
<1>3. ASSUME NEW c \in Callers, Find(c) PROVE TypeOK'
  <2>1. ASSUME NEW i \in Found(c, "live"), To(c, "get"), my' = [my EXCEPT ![c].id = i]
        PROVE  CallType
    <3>1. my \in [Callers -> Locals] /\ my[c] \in Locals /\ i \in Callers
      BY DEF TypeOK, Found
    <3>2. my' = [my EXCEPT ![c] = [my[c] EXCEPT !.id = i]]
      BY <2>1
    <3>3. my' \in [Callers -> Locals]
      BY <3>1, <3>2, LocalsType
    <3> QED
      BY <2>1, <3>3 DEF TypeOK, To, PcValues, CallType
  <2>2. CallType
    BY <1>3, <2>1, EndsType, FreshType DEF Find, PcValues
  <2> QED
    BY <1>0, <1>3, <2>2 DEF Find, TypeOK
<1>4. ASSUME NEW c \in Callers, Get(c) PROVE TypeOK'
  <2>1. ASSUME To(c, "asking"), store[my[c].id] \in Record,
               my' = [my EXCEPT ![c].rec = store[my[c].id], ![c].after = "status"]
        PROVE  CallType
    <3>1. my \in [Callers -> Locals] /\ my[c] \in Locals
      BY DEF TypeOK
    <3>2. my' = [my EXCEPT ![c] = [my[c] EXCEPT !.rec = store[my[c].id], !.after = "status"]]
      BY <2>1
    <3>3. [my[c] EXCEPT !.rec = store[my[c].id], !.after = "status"] \in Locals
      BY <2>1, <3>1, LocalsType
    <3>4. my' \in [Callers -> Locals]
      BY <3>1, <3>2, <3>3
    <3> QED
      BY <2>1, <3>4 DEF TypeOK, To, PcValues, CallType
  <2>2. store[my[c].id] \in Record
    BY <1>4 DEF Get, TypeOK, Sound, ShapeOf, KnownOf, Locals
  <2>3. CallType
    BY <1>4, <2>1, <2>2, ResolvedType DEF Get
  <2> QED
    BY <1>0, <1>4, <2>3 DEF Get, TypeOK
<1>5. ASSUME NEW c \in Callers, FetchFile(c) PROVE TypeOK'
  <2>1. my[c].src \in Sources /\ Content(c) \in Contents
    BY <1>5, NewRecordType DEF FetchFile, Submitting
  <2>2. [backend |-> "direct", content |-> Content(c), link |-> my[c].src,
         state |-> "completed"] \in Record
    BY <2>1 DEF Record
  <2>3. CallType /\ lock' \in Seq(Callers)
    BY <1>5, <2>2, PutType DEF FetchFile, Afters
  <2> QED
    BY <1>0, <1>5, <2>3 DEF FetchFile
<1>6. ASSUME NEW c \in Callers, FetchTorrent(c) PROVE TypeOK'
  <2>1. my \in [Callers -> Locals] /\ my[c] \in Locals
    BY DEF TypeOK
  <2>2. my' = [my EXCEPT ![c] = [my[c] EXCEPT !.stage = "torrent"]]
    BY <1>6 DEF FetchTorrent
  <2>3. my' \in [Callers -> Locals]
    BY <2>1, <2>2, LocalsType
  <2>4. CallType
    BY <1>6, <2>3 DEF FetchTorrent, To, TypeOK, PcValues, CallType
  <2> QED
    BY <1>0, <1>6, <2>4 DEF FetchTorrent, TypeOK
<1>7. ASSUME NEW c \in Callers, FetchFails(c) \/ Refused(c) \/ ImportFails(c) PROVE TypeOK'
  <2>1. CallType
    BY <1>7, FailsType DEF FetchFails, Refused, ImportFails
  <2> QED
    BY <1>0, <1>7, <2>1 DEF FetchFails, Refused, ImportFails, TypeOK
<1>8. ASSUME NEW c \in Callers, Accepted(c) PROVE TypeOK'
  <2>1. Content(c) \in Contents /\ Trying(c) \in Backends /\ NewRecord(c) \in Record
    BY <1>8, NewRecordType DEF Accepted, Submitting
  <2>2. CallType /\ lock' \in Seq(Callers)
    BY <1>8, <2>1, PutType DEF Accepted, Afters
  <2>3. remote' \in [Backends -> [Contents -> {"absent", "live", "completed", "moved", "failed"}]]
    BY <1>8, <2>1 DEF Accepted, Arrives, Added, TypeOK
  <2>4. queuedBy' \in [Callers -> SUBSET (Backends \X Contents)]
    BY <1>8, <2>1 DEF Accepted, Arrives, TypeOK
  <2> QED
    BY <1>8, <2>2, <2>3, <2>4 DEF Accepted, TypeOK, CallType
<1>9. ASSUME NEW c \in Callers, NotReached(c) PROVE TypeOK'
  BY <1>0, <1>9, NextBackendType DEF NotReached, TypeOK
<1>10. ASSUME NEW c \in Callers, Interrupted(c) PROVE TypeOK'
  <2>1. Content(c) \in Contents /\ Trying(c) \in Backends
    BY <1>10, NewRecordType DEF Interrupted, Submitting
  <2>2. remote' \in [Backends -> [Contents -> {"absent", "live", "completed", "moved", "failed"}]]
    <3>1. Added(Trying(c), Content(c))
            \in [Backends -> [Contents -> {"absent", "live", "completed", "moved", "failed"}]]
      BY <2>1 DEF Added, TypeOK
    <3> QED
      BY <1>10, <3>1 DEF Interrupted, Arrives, TypeOK
  <2>3. /\ queuedBy' \in [Callers -> SUBSET (Backends \X Contents)]
        /\ late' \in SUBSET (Backends \X Contents)
    BY <1>10, <2>1 DEF Interrupted, Arrives, TypeOK
  <2>4. pc' \in [Callers -> PcValues]
    BY <1>10 DEF Interrupted, To, TypeOK, PcValues
  <2> QED
    BY <1>10, <2>2, <2>3, <2>4 DEF Interrupted, TypeOK
<1>11. ASSUME NEW c \in Callers, Answers(c) PROVE TypeOK'
  <2>1. CASE pc[c] = "probing"
    <3>1. remote[Trying(c)][Content(c)] \in {"absent", "live", "completed", "moved", "failed"}
      BY <2>1, NewRecordType DEF TypeOK, Submitting
    <3> QED
      BY <1>11, <2>1, <3>1 DEF Answers, Says, TypeOK
  <2>2. CASE pc[c] = "asking"
    <3>1. remote[my[c].rec.backend][my[c].rec.content]
            \in {"absent", "live", "completed", "moved", "failed"}
      BY <2>2, WorkingType DEF TypeOK, Working, Record
    <3> QED
      BY <1>11, <2>2, <3>1 DEF Answers, Says, TypeOK
  <2> QED
    BY <1>11, <2>1, <2>2 DEF Answers
<1>12. ASSUME NEW c \in Callers, Probed(c) PROVE TypeOK'
  <2>1. NewRecord(c) \in Record
    BY <1>12, NewRecordType DEF Probed, ProbeFound, ProbeAbsent, ProbeFails, Handles, NoAnswer, Submitting
  <2>2. CallType /\ lock' \in Seq(Callers)
    BY <1>12, <2>1, PutType, NextBackendType
       DEF Probed, ProbeFound, ProbeAbsent, ProbeFails, Afters, TypeOK
  <2> QED
    BY <1>12, <2>2 DEF Probed, ProbeFound, ProbeAbsent, ProbeFails, Handles, NoAnswer, TypeOK, CallType
<1>13. ASSUME NEW c \in Callers, Asked(c) PROVE TypeOK'
  <2>1. pc[c] = "asking" /\ seen' \in [Callers -> {"nothing", "live", "completed", "failed", "missing"}]
    BY <1>13 DEF Asked, AskFails, AskGone, AskLive, Selects, Handles, NoAnswer, TypeOK
  <2>2. CASE AskFails(c)
    BY <1>0, <2>2, FailsType DEF AskFails, NoAnswer, TypeOK
  <2>3. CASE AskGone(c) \/ AskLive(c)
    <3>1. CallType /\ lock' \in Seq(Callers)
      BY <2>1, <2>3, KeepsType DEF AskGone, AskLive, Working, States
    <3> QED
      BY <2>1, <2>3, <3>1 DEF AskGone, AskLive, Handles, TypeOK, CallType
  <2>4. CASE Selects(c)
    <3>1. CASE To(c, "importing") /\ UNCHANGED <<lock, my>>
      BY <2>1, <2>4, <3>1 DEF Selects, Handles, To, TypeOK, PcValues
    <3>2. CASE Keeps(c, "failed")
      <4>1. CallType /\ lock' \in Seq(Callers)
        BY <2>1, <3>2, KeepsType DEF Working, States
      <4> QED
        BY <2>1, <2>4, <4>1 DEF Selects, Handles, TypeOK, CallType
    <3> QED
      BY <2>4, <3>1, <3>2 DEF Selects
  <2> QED
    BY <1>13, <2>2, <2>3, <2>4 DEF Asked
<1>14. ASSUME NEW c \in Callers, Imports(c) PROVE TypeOK'
  <2>1. CallType /\ lock' \in Seq(Callers)
    BY <1>14, KeepsType DEF Imports, Working, States
  <2>2. my[c].rec.backend \in Backends /\ my[c].rec.content \in Contents
    BY <1>14, WorkingType DEF Imports, Working, Record
  <2>3. remote' \in [Backends -> [Contents -> {"absent", "live", "completed", "moved", "failed"}]]
    BY <1>14, <2>2 DEF Imports, TypeOK
  <2> QED
    BY <1>14, <2>1, <2>3 DEF Imports, TypeOK, CallType
<1>15. ASSUME NEW c \in Callers, Loads(c) PROVE TypeOK'
  BY <1>15 DEF Loads, TypeOK
<1>16. ASSUME NEW c \in Callers, Leaves(c), Inside(c)
       PROVE  /\ lock' \in Seq(Callers)
              /\ base' \in [Callers -> [Callers -> Record \cup {None}] \cup {None}]
  BY <1>16 DEF Leaves, Inside, TypeOK
<1>17. ASSUME NEW c \in Callers, Saves(c) PROVE TypeOK'
  <2>1. my[c].id \in Callers /\ my[c].rec \in Record
    BY <1>17, WorkingType DEF Saves, Inside, Working
  <2>2. store' \in [Callers -> Record \cup {None}]
    BY <1>17, <2>1 DEF Saves, TypeOK
  <2>3. CallType
    BY <1>17, AfterPutType DEF Saves
  <2> QED
    BY <1>16, <1>17, <2>2, <2>3 DEF Saves, TypeOK, CallType
<1>18. ASSUME NEW c \in Callers, PutFails(c) PROVE TypeOK'
  <2>1. CallType
    BY <1>18, FailsType DEF PutFails
  <2> QED
    BY <1>16, <1>18, <2>1 DEF PutFails, TypeOK, CallType
<1>19. CASE LateArrives
  <2>1. PICK x \in late : late' = late \ {x} /\ remote' = Added(x[1], x[2])
    BY <1>19 DEF LateArrives
  <2>2. x[1] \in Backends /\ x[2] \in Contents
    BY <2>1 DEF TypeOK
  <2>3. remote' \in [Backends -> [Contents -> {"absent", "live", "completed", "moved", "failed"}]]
    BY <2>1, <2>2 DEF Added, TypeOK
  <2> QED
    BY <1>19, <2>1, <2>3 DEF LateArrives, TypeOK
<1>20. ASSUME NEW b \in Backends, NEW m \in Contents, Progress(b, m) PROVE TypeOK'
  BY <1>20 DEF Progress, TypeOK
<1>21. ASSUME NEW b \in Backends, NEW m \in Contents, RemoveTorrent(b, m) PROVE TypeOK'
  BY <1>21 DEF RemoveTorrent, TypeOK
<1>22. CASE Restart
  BY <1>22, BlankType DEF Restart, TypeOK, PcValues
<1>23. CASE UNCHANGED vars
  BY <1>23 DEF vars, TypeOK
<1> QED
  BY <1>1, <1>2, <1>3, <1>4, <1>5, <1>6, <1>7, <1>8, <1>9, <1>10, <1>11, <1>12, <1>13, <1>14,
     <1>15, <1>17, <1>18, <1>19, <1>20, <1>21, <1>22, <1>23
     DEF Next, Step, Submit, CheckSubmit, Fetch, Try

-----------------------------------------------------------------------------
(* What a step does to its caller and to the others.                        *)

Elsewhere(c) == \A d \in Callers \ {c} : pc'[d] = pc[d] /\ my'[d] = my[d]
(* The answer is handled, or there was none.                                *)
Hears(c) ==
  /\ seen'[c] = "nothing"
  /\ \A d \in Callers \ {c} : seen'[d] = seen[d]
Stops(c) == pc'[c] \in {"returned", "threw"} /\ Elsewhere(c)
(* The caller tries for itself, at a link or at a backend.                  *)
Tries(c) ==
  /\ my[c].op = "submit"
  /\ pc'[c] \in {"fetching", "trying"}
  /\ my'[c].op = "submit" /\ my'[c].src = my[c].src
  /\ Elsewhere(c)

(* Ending stops the caller.                                                 *)
LEMMA EndsEffect ==
  ASSUME TypeOK, NEW c \in Callers, NEW how \in {"returned", "threw"}, Ends(c, how)
  PROVE  Stops(c)
BY DEF TypeOK, Ends, To, Stops, Elsewhere

(* So does failing.                                                         *)
LEMMA FailsEffect ==
  ASSUME TypeOK, NEW c \in Callers, Fails(c)
  PROVE  Stops(c)
BY EndsEffect DEF Fails

(* Starting fresh stops the caller or lets it try.                          *)
LEMMA FreshEffect ==
  ASSUME TypeOK, NEW c \in Callers, Fresh(c)
  PROVE  Stops(c) \/ Tries(c)
<1>1. CASE Ends(c, "returned")
  BY <1>1, EndsEffect
<1>2. CASE /\ my[c].op = "submit"
           /\ To(c, IF my[c].stage = "link" THEN "fetching" ELSE "trying")
           /\ my' = [my EXCEPT ![c].id = None, ![c].rec = None]
  <2>1. my \in [Callers -> Locals] /\ my[c] \in Locals /\ pc \in [Callers -> PcValues]
    BY DEF TypeOK
  <2>2. my'[c].op = my[c].op /\ my'[c].src = my[c].src
    BY <1>2, <2>1 DEF Locals
  <2> QED
    BY <1>2, <2>1, <2>2 DEF To, Tries, Elsewhere
<1> QED
  BY <1>1, <1>2 DEF Fresh

(* So does handing out what status says.                                    *)
LEMMA ResolvedEffect ==
  ASSUME TypeOK, NEW c \in Callers, NEW r, Resolved(c, r)
  PROVE  Stops(c) \/ Tries(c)
BY EndsEffect, FreshEffect DEF Resolved

(* A put.                                                                   *)
LEMMA PutEffect ==
  ASSUME TypeOK, NEW c \in Callers, NEW i, NEW r, NEW why, Put(c, i, r, why)
  PROVE  /\ pc'[c] = "putting" /\ Elsewhere(c)
         /\ my'[c].id = i /\ my'[c].rec = r /\ my'[c].after = why
         /\ my'[c].op = my[c].op /\ my'[c].src = my[c].src
<1>1. my \in [Callers -> Locals] /\ my[c] \in Locals /\ pc \in [Callers -> PcValues]
  BY DEF TypeOK
<1>2. my' = [my EXCEPT ![c] = [my[c] EXCEPT !.id = i, !.rec = r, !.after = why]]
  BY DEF Put
<1>3. my'[c] = [my[c] EXCEPT !.id = i, !.rec = r, !.after = why]
  BY <1>1, <1>2
<1>4. /\ my'[c].id = i /\ my'[c].rec = r /\ my'[c].after = why
      /\ my'[c].op = my[c].op /\ my'[c].src = my[c].src
  BY <1>1, <1>3 DEF Locals
<1>5. pc'[c] = "putting" /\ Elsewhere(c)
  BY <1>1, <1>2 DEF Put, To, Elsewhere
<1> QED
  BY <1>4, <1>5

(* Trying the next backend, or giving up.                                   *)
LEMMA NextBackendEffect ==
  ASSUME TypeOK, NEW c \in Callers, my[c].op = "submit", NextBackend(c)
  PROVE  Stops(c) \/ (Tries(c) /\ pc'[c] = "trying")
<1>1. CASE To(c, "trying") /\ my' = [my EXCEPT ![c].at = @ + 1]
  <2>1. my \in [Callers -> Locals] /\ my[c] \in Locals /\ pc \in [Callers -> PcValues]
    BY DEF TypeOK
  <2>2. my'[c].op = my[c].op /\ my'[c].src = my[c].src
    BY <1>1, <2>1 DEF Locals
  <2> QED
    BY <1>1, <2>1, <2>2 DEF To, Tries, Elsewhere
<1>2. CASE Fails(c)
  BY <1>2, FailsEffect
<1> QED
  BY <1>1, <1>2 DEF NextBackend

(* Where its caller goes on after a put, and what it then holds.            *)
FollowsPut(c) ==
  \/ (Stops(c) \/ Tries(c)) /\ my[c].after = "status"
  \/ Stops(c)
  \/ /\ my[c].after \in {"first", "poll"}
     /\ my[c].after = "poll" => my[c].rec.state = "live"
     /\ pc'[c] = "asking" /\ Elsewhere(c)
     /\ my'[c].id = my[c].id /\ my'[c].rec = my[c].rec /\ my'[c].after = "poll"
     /\ my'[c].op = my[c].op /\ my'[c].src = my[c].src

(* What follows a put is one of these.                                      *)
LEMMA AfterPutEffect ==
  ASSUME TypeOK, NEW c \in Callers, AfterPut(c)
  PROVE  FollowsPut(c)
<1>1. CASE my[c].after = "status" /\ Resolved(c, my[c].rec)
  BY <1>1, ResolvedEffect DEF FollowsPut
<1>2. CASE Ends(c, "returned") \/ Fails(c)
  BY <1>2, EndsEffect, FailsEffect DEF FollowsPut
<1>3. CASE /\ my[c].after = "first" \/ (my[c].after = "poll" /\ my[c].rec.state = "live")
           /\ To(c, "asking")
           /\ my' = [my EXCEPT ![c].after = "poll", ![c].polls = @ + 1]
  <2>1. my \in [Callers -> Locals] /\ my[c] \in Locals /\ pc \in [Callers -> PcValues]
    BY DEF TypeOK
  <2>2. /\ my'[c].id = my[c].id /\ my'[c].rec = my[c].rec /\ my'[c].after = "poll"
        /\ my'[c].op = my[c].op /\ my'[c].src = my[c].src
    BY <1>3, <2>1 DEF Locals
  <2> QED
    BY <1>3, <2>1, <2>2 DEF To, Elsewhere, FollowsPut
<1> QED
  BY <1>1, <1>2, <1>3 DEF AfterPut

-----------------------------------------------------------------------------
(* The mutex: who is in line for it, and what the head has loaded.          *)

LockInv ==
  /\ MutexIsLeft
  /\ \A j, k \in DOMAIN lock : lock[j] = lock[k] => j = k
  /\ \A c \in Callers : base[c] # None =>
       /\ pc[c] = "putting" /\ lock # <<>> /\ Head(lock) = c
       /\ base[c] = store

(* A put that joins the line keeps it.                                      *)
LEMMA PutKeepsLock ==
  ASSUME TypeOK, LockInv, NEW c \in Callers, NEW i, NEW r, NEW why, Put(c, i, r, why),
         pc[c] # "putting", base' = base, store' = store
  PROVE  LockInv'
<1>1. pc'[c] = "putting" /\ Elsewhere(c)
  BY PutEffect
<1>2. lock \in Seq(Callers) /\ lock' = Append(lock, c)
  BY DEF TypeOK, Put
<1>3. \A k \in DOMAIN lock : lock[k] # c /\ lock[k] \in Callers
  BY <1>2 DEF LockInv, MutexIsLeft
<1>4. /\ DOMAIN lock' = 1..(Len(lock) + 1) /\ lock'[Len(lock) + 1] = c
      /\ \A k \in DOMAIN lock : lock'[k] = lock[k] /\ k \in DOMAIN lock'
      /\ lock' # <<>>
  BY <1>2
<1>5. MutexIsLeft'
  BY <1>1, <1>2, <1>3, <1>4 DEF LockInv, MutexIsLeft, Elsewhere
<1>6. \A j, k \in DOMAIN lock' : lock'[j] = lock'[k] => j = k
  BY <1>2, <1>3, <1>4 DEF LockInv
<1>7. \A d \in Callers : base'[d] # None =>
        pc'[d] = "putting" /\ lock' # <<>> /\ Head(lock') = d /\ base'[d] = store'
  BY <1>1, <1>2, <1>4 DEF LockInv, Elsewhere
<1> QED
  BY <1>5, <1>6, <1>7 DEF LockInv

(* A step away from the store keeps it.                                     *)
LEMMA OutsideKeepsLock ==
  ASSUME TypeOK, LockInv, NEW c \in Callers, pc[c] # "putting", pc'[c] # "putting", Elsewhere(c),
         UNCHANGED storeVars
  PROVE  LockInv'
<1> USE DEF storeVars
<1>1. MutexIsLeft'
  <2>1. \A k \in DOMAIN lock : lock[k] \in Callers
    BY DEF TypeOK
  <2> QED
    BY <2>1 DEF LockInv, MutexIsLeft, Elsewhere
<1>2. \A d \in Callers : base'[d] # None =>
        pc'[d] = "putting" /\ lock' # <<>> /\ Head(lock') = d /\ base'[d] = store'
  BY DEF LockInv, Elsewhere
<1> QED
  BY <1>1, <1>2 DEF LockInv

(* The head that leaves keeps it, even if it writes.                        *)
LEMMA LeavesKeepsLock ==
  ASSUME TypeOK, LockInv, NEW c \in Callers, Inside(c), Leaves(c), pc'[c] # "putting", Elsewhere(c)
  PROVE  LockInv'
<1>1. /\ lock \in Seq(Callers) /\ lock # <<>> /\ Head(lock) = c
      /\ lock' = Tail(lock) /\ base' = [base EXCEPT ![c] = None]
  BY DEF TypeOK, Inside, Leaves
<1>2. /\ DOMAIN lock = 1..Len(lock) /\ Len(lock) \in Nat /\ lock[1] = c
      /\ DOMAIN lock' = 1..(Len(lock) - 1)
      /\ \A k \in DOMAIN lock' : lock'[k] = lock[k + 1] /\ k + 1 \in DOMAIN lock
  BY <1>1
<1>3. \A k \in DOMAIN lock : lock[k] = c => k = 1
  BY <1>2 DEF LockInv
<1>4. \A k \in DOMAIN lock' : pc'[lock'[k]] = "putting"
  BY <1>1, <1>2, <1>3 DEF LockInv, MutexIsLeft, Elsewhere
<1>5. ASSUME NEW d \in Callers, pc'[d] = "putting" PROVE \E k \in DOMAIN lock' : lock'[k] = d
  <2>1. PICK k \in DOMAIN lock : lock[k] = d
    BY <1>5 DEF LockInv, MutexIsLeft, Elsewhere
  <2>2. k - 1 \in DOMAIN lock' /\ lock'[k - 1] = d
    BY <1>2, <1>5, <2>1
  <2> QED
    BY <2>2
<1>6. \A j, k \in DOMAIN lock' : lock'[j] = lock'[k] => j = k
  BY <1>2 DEF LockInv
<1>7. \A d \in Callers : base'[d] = None
  BY <1>1 DEF LockInv, TypeOK
<1> QED
  BY <1>4, <1>5, <1>6, <1>7 DEF LockInv, MutexIsLeft

(* Every step keeps it.                                                     *)
LEMMA LockStep ==
  ASSUME TypeOK, Sound, LockInv, [Next]_vars
  PROVE  LockInv'
<1> USE DEF worldVars, historyVars
<1>1. ASSUME NEW c \in Callers, NEW o \in {"submit", "check"}, NEW s \in Sources, Calls(c, o, s)
      PROVE  LockInv'
  BY <1>1, OutsideKeepsLock DEF Calls, Enters, To, TypeOK, Elsewhere
<1>2. ASSUME NEW c \in Callers, NEW i \in Callers, Status(c, i) PROVE LockInv'
  BY <1>2, OutsideKeepsLock DEF Status, Enters, To, TypeOK, Elsewhere
<1>3. ASSUME NEW c \in Callers, Stops(c) \/ Tries(c), pc[c] # "putting", UNCHANGED storeVars
      PROVE  LockInv'
  BY <1>3, OutsideKeepsLock DEF Stops, Tries
<1>4. ASSUME NEW c \in Callers, NEW to \in PcValues \ {"putting"}, To(c, to), pc[c] # "putting",
             UNCHANGED storeVars, \A d \in Callers \ {c} : my'[d] = my[d]
      PROVE  LockInv'
  BY <1>4, OutsideKeepsLock DEF To, TypeOK, Elsewhere
<1>5. ASSUME NEW c \in Callers, Find(c) PROVE LockInv'
  <2>1. CASE Stops(c) \/ Tries(c)
    BY <1>3, <1>5, <2>1 DEF Find
  <2>2. CASE \E i \in Found(c, "live") : To(c, "get") /\ my' = [my EXCEPT ![c].id = i]
    BY <1>4, <1>5, <2>2 DEF Find, TypeOK, PcValues
  <2> QED
    BY <1>5, <2>1, <2>2, EndsEffect, FreshEffect DEF Find
<1>6. ASSUME NEW c \in Callers, Get(c) PROVE LockInv'
  <2>1. CASE Stops(c) \/ Tries(c)
    BY <1>3, <1>6, <2>1 DEF Get
  <2>2. CASE /\ To(c, "asking")
             /\ my' = [my EXCEPT ![c].rec = store[my[c].id], ![c].after = "status"]
    BY <1>4, <1>6, <2>2 DEF Get, TypeOK, PcValues
  <2> QED
    BY <1>6, <2>1, <2>2, ResolvedEffect DEF Get
<1>7. ASSUME NEW c \in Callers, Fetch(c) PROVE LockInv'
  <2>1. CASE FetchFile(c)
    BY <2>1, PutKeepsLock DEF FetchFile
  <2>2. CASE FetchTorrent(c)
    BY <1>4, <2>2 DEF FetchTorrent, TypeOK, PcValues
  <2>3. CASE FetchFails(c)
    BY <1>3, <2>3, FailsEffect DEF FetchFails
  <2> QED
    BY <1>7, <2>1, <2>2, <2>3 DEF Fetch
<1>8. ASSUME NEW c \in Callers, NextBackend(c), pc[c] \in Submitting, UNCHANGED storeVars
      PROVE  LockInv'
  <2>1. my[c].op = "submit"
    BY <1>8 DEF Sound, ShapeOf
  <2> QED
    BY <1>3, <1>8, <2>1, NextBackendEffect DEF Submitting
<1>9. ASSUME NEW c \in Callers, Try(c) PROVE LockInv'
  <2>1. CASE Accepted(c)
    BY <2>1, PutKeepsLock DEF Accepted
  <2>2. CASE Refused(c)
    BY <1>3, <2>2, FailsEffect DEF Refused
  <2>3. CASE NotReached(c)
    BY <1>8, <2>3 DEF NotReached, Submitting
  <2>4. CASE Interrupted(c)
    BY <1>4, <2>4 DEF Interrupted, PcValues
  <2> QED
    BY <1>9, <2>1, <2>2, <2>3, <2>4 DEF Try
<1>10. ASSUME NEW c \in Callers, Probed(c) PROVE LockInv'
  <2>1. CASE ProbeFound(c) \/ ProbeFails(c)
    BY <2>1, PutKeepsLock DEF ProbeFound, ProbeFails, Handles, NoAnswer
  <2>2. CASE ProbeAbsent(c)
    BY <1>8, <2>2 DEF ProbeAbsent, Handles, storeVars, Submitting
  <2> QED
    BY <1>10, <2>1, <2>2 DEF Probed
<1>11. ASSUME NEW c \in Callers, Asked(c) PROVE LockInv'
  <2>1. CASE AskFails(c)
    BY <1>3, <2>1, FailsEffect DEF AskFails, NoAnswer, storeVars
  <2>2. CASE AskGone(c) \/ AskLive(c)
    BY <2>2, PutKeepsLock DEF AskGone, AskLive, Keeps, Handles
  <2>3. CASE Selects(c)
    BY <1>4, <2>3, PutKeepsLock DEF Selects, Keeps, Handles, storeVars, PcValues
  <2> QED
    BY <1>11, <2>1, <2>2, <2>3 DEF Asked
<1>12. ASSUME NEW c \in Callers, Imports(c) \/ ImportFails(c) PROVE LockInv'
  <2>1. CASE Imports(c)
    BY <2>1, PutKeepsLock DEF Imports, Keeps
  <2>2. CASE ImportFails(c)
    BY <1>3, <2>2, FailsEffect DEF ImportFails
  <2> QED
    BY <1>12, <2>1, <2>2
<1>13. ASSUME NEW c \in Callers, Loads(c) PROVE LockInv'
  <2>1. /\ pc' = pc /\ lock' = lock /\ store' = store /\ base' = [base EXCEPT ![c] = store]
        /\ pc[c] = "putting" /\ lock # <<>> /\ Head(lock) = c
    BY <1>13 DEF Loads, Inside, callVars
  <2> QED
    BY <2>1 DEF LockInv, MutexIsLeft, TypeOK
<1>14. ASSUME NEW c \in Callers, Saves(c) PROVE LockInv'
  <2>1. pc'[c] # "putting" /\ Elsewhere(c)
    BY <1>14, AfterPutEffect DEF Saves, FollowsPut, Stops, Tries
  <2> QED
    BY <1>14, <2>1, LeavesKeepsLock DEF Saves
<1>15. ASSUME NEW c \in Callers, PutFails(c) PROVE LockInv'
  BY <1>15, FailsEffect, LeavesKeepsLock DEF PutFails, Stops
<1>16. CASE UNCHANGED <<storeVars, pc>>
  BY <1>16 DEF LockInv, MutexIsLeft, storeVars
<1>17. CASE Restart
  BY <1>17 DEF Restart, LockInv, MutexIsLeft
<1> QED
  BY <1>1, <1>2, <1>5, <1>6, <1>7, <1>9, <1>10, <1>11, <1>12, <1>13, <1>14, <1>15, <1>16, <1>17
     DEF Next, Step, Submit, CheckSubmit, Answers, LateArrives, Progress, RemoveTorrent, callVars, vars

-----------------------------------------------------------------------------
(* Sound is kept.                                                           *)

(* A step that leaves the store and the others alone keeps Sound if it does *)
(* so for its caller.                                                       *)
LEMMA SoundElsewhere ==
  ASSUME Sound, NEW c \in Callers, Elsewhere(c), store' = store,
         \A d \in Callers \ {c} : seen'[d] = seen[d],
         ShapeOf(c)', KnownOf(c)'
  PROVE  Sound'
<1>1. ASSUME NEW d \in Callers, d # c PROVE ShapeOf(d)' /\ KnownOf(d)'
  BY <1>1 DEF Sound, ShapeOf, KnownOf, Elsewhere, Active, Ended, Lost, Owning
<1>2. DirectIsDone'
  BY DEF Sound, DirectIsDone
<1> QED
  BY <1>1, <1>2 DEF Sound

(* A caller that stops keeps it.                                            *)
LEMMA StopsSound ==
  ASSUME Sound, NEW c \in Callers, Stops(c), Hears(c), store' = store
  PROVE  Sound'
<1>1. ShapeOf(c)' /\ KnownOf(c)'
  BY DEF ShapeOf, KnownOf, Stops, Hears, Active, Ended, Lost, Owning, Working, Submitting
<1> QED
  BY <1>1, SoundElsewhere DEF Stops, Hears

(* So does one that tries for itself, if it has no record yet.              *)
LEMMA TriesSound ==
  ASSUME Sound, NEW c \in Callers, Tries(c), Hears(c), store' = store,
         Active(c), store[c] = None
  PROVE  Sound'
<1>1. ShapeOf(c)'
  BY DEF Sound, ShapeOf, Tries, Hears, Active, Ended, Working, Submitting
<1>2. KnownOf(c)'
  BY DEF KnownOf, Tries, Owning, Working
<1> QED
  BY <1>1, <1>2, SoundElsewhere DEF Tries, Hears

(* So does a put of the record its caller should put.                       *)
LEMMA PutSound ==
  ASSUME TypeOK, Sound, NEW c \in Callers, NEW i \in Callers, NEW r \in Record, NEW why \in Afters,
         Put(c, i, r, why), Hears(c), store' = store, Active(c),
         r.backend = "direct" => why = "poll" /\ r.state # "live",
         why = "status" => store[i] # None /\ store[c] = None,
         why # "status" => i = c,
         store[i] # None => SameTorrent(store[i], r)
  PROVE  Sound'
<1>1. /\ pc'[c] = "putting" /\ Elsewhere(c)
      /\ my'[c].id = i /\ my'[c].rec = r /\ my'[c].after = why
      /\ my'[c].op = my[c].op /\ my'[c].src = my[c].src
  BY PutEffect
<1>2. ShapeOf(c)'
  BY <1>1, NoneAssumption DEF Sound, ShapeOf, Hears, Active, Submitting, Working
<1>3. KnownOf(c)'
  BY <1>1 DEF KnownOf, Owning, Working
<1> QED
  BY <1>1, <1>2, <1>3, SoundElsewhere DEF Hears

(* So does keeping the state of the record in hand.                         *)
LEMMA KeepsSound ==
  ASSUME TypeOK, Sound, NEW c \in Callers, pc[c] \in {"asking", "importing"}, NEW s \in States,
         Keeps(c, s), Hears(c), store' = store
  PROVE  Sound'
<1> DEFINE r == [my[c].rec EXCEPT !.state = s]
<1>1. /\ my[c].id \in Callers /\ my[c].rec \in Record /\ my[c].after \in Afters
      /\ my[c].rec.backend # "direct" /\ store[my[c].id] # None
      /\ SameTorrent(store[my[c].id], my[c].rec)
  BY WorkingType DEF Sound, ShapeOf, KnownOf, Working
<1>2. r \in Record /\ r.backend # "direct" /\ SameTorrent(store[my[c].id], r)
  BY <1>1, RestatedType DEF SameTorrent, Record
<1>3. /\ my[c].after = "status" => store[c] = None
      /\ my[c].after # "status" => my[c].id = c
  BY DEF Sound, KnownOf, Owning, Ended, Lost, Working
<1> QED
  BY <1>1, <1>2, <1>3, PutSound DEF Keeps, Active, Ended

(* So does a first record of a submission.                                  *)
LEMMA FirstPutSound ==
  ASSUME TypeOK, Sound, NEW c \in Callers, pc[c] \in Submitting,
         NEW r \in Record, NEW why \in Afters \ {"status"},
         Put(c, c, r, why), Hears(c), store' = store,
         r.backend = "direct" => why = "poll" /\ r.state # "live"
  PROVE  Sound'
<1>1. store[c] = None
  BY DEF Sound, KnownOf, Owning, Ended, Lost, Working, Submitting
<1> QED
  BY <1>1, PutSound DEF Active, Ended, Submitting

(* A save of the record in hand keeps the records as they are.              *)
LEMMA SaveKeeps ==
  ASSUME TypeOK, Sound, NEW c \in Callers, pc[c] = "putting",
         store' = [store EXCEPT ![my[c].id] = my[c].rec]
  PROVE  /\ \A i \in Callers : store[i] # None =>
              store'[i] # None /\ SameTorrent(store[i], store'[i])
         /\ \A i \in Callers : i # my[c].id => store'[i] = store[i]
         /\ store'[my[c].id] = my[c].rec
         /\ store[my[c].id] = None => my[c].id = c /\ Owning(c)
         /\ DirectIsDone'
<1>1. my[c].id \in Callers /\ my[c].rec \in Record /\ my[c].rec # None
  BY WorkingType, NoneAssumption DEF Working
<1>2. store[my[c].id] # None => SameTorrent(store[my[c].id], my[c].rec)
  BY DEF Sound, KnownOf, Working
<1>3. store[my[c].id] = None => my[c].id = c /\ Owning(c)
  BY DEF Sound, KnownOf, Owning, Working
<1>4. store'[my[c].id] = my[c].rec /\ \A i \in Callers : i # my[c].id => store'[i] = store[i]
  BY <1>1 DEF TypeOK
<1>5. DirectIsDone'
  BY <1>1, <1>4 DEF Sound, DirectIsDone, ShapeOf
<1> QED
  BY <1>1, <1>2, <1>3, <1>4, <1>5 DEF SameTorrent

(* A save keeps Sound, wherever its caller goes on.                         *)
LEMMA SavesSound ==
  ASSUME TypeOK, Sound, LockInv, NEW c \in Callers, Saves(c)
  PROVE  Sound'
<1>1. /\ pc[c] = "putting" /\ seen' = seen /\ seen[c] = "nothing"
      /\ store' = [store EXCEPT ![my[c].id] = my[c].rec]
      /\ my[c].id \in Callers /\ my[c].rec \in Record /\ my[c].rec # None
  <2>1. pc[c] = "putting" /\ seen' = seen /\ store' = [store EXCEPT ![my[c].id] = my[c].rec]
    BY DEF Saves, Inside, LockInv, worldVars, historyVars
  <2>2. seen[c] = "nothing"
    BY <2>1 DEF Sound, ShapeOf
  <2> QED
    BY <2>1, <2>2, WorkingType, NoneAssumption DEF Working
<1>2. /\ \A i \in Callers : store[i] # None =>
           store'[i] # None /\ SameTorrent(store[i], store'[i])
      /\ \A i \in Callers : i # my[c].id => store'[i] = store[i]
      /\ store'[my[c].id] = my[c].rec
      /\ store[my[c].id] = None => my[c].id = c /\ Owning(c)
      /\ DirectIsDone'
  BY <1>1, SaveKeeps
<1>3. FollowsPut(c)
  BY AfterPutEffect DEF Saves
<1>4. ShapeOf(c)' /\ KnownOf(c)'
  <2>1. CASE Stops(c)
    BY <1>1, <2>1 DEF ShapeOf, KnownOf, Stops, Active, Ended, Lost, Owning, Working, Submitting
  <2>2. CASE Tries(c) /\ my[c].after = "status"
    <3>1. store'[c] = None
      BY <1>1, <1>2, <2>2 DEF Sound, KnownOf, Owning, Ended, Lost
    <3> QED
      BY <1>1, <2>2, <3>1
         DEF Sound, ShapeOf, KnownOf, Tries, Active, Ended, Lost, Owning, Working, Submitting
  <2>3. CASE /\ my[c].after \in {"first", "poll"}
             /\ my[c].after = "poll" => my[c].rec.state = "live"
             /\ pc'[c] = "asking" /\ Elsewhere(c)
             /\ my'[c].id = my[c].id /\ my'[c].rec = my[c].rec /\ my'[c].after = "poll"
             /\ my'[c].op = my[c].op /\ my'[c].src = my[c].src
    <3>1. my[c].rec.backend # "direct" /\ my[c].id = c
      BY <1>1, <2>3 DEF Sound, ShapeOf, KnownOf, Owning, Working
    <3>2. ShapeOf(c)'
      BY <1>1, <2>3, <3>1 DEF Sound, ShapeOf, Active, Ended, Working, Submitting
    <3>3. KnownOf(c)'
      BY <1>1, <1>2, <2>3, <3>1 DEF KnownOf, SameTorrent, Owning, Working
    <3> QED
      BY <3>2, <3>3
  <2> QED
    BY <1>3, <2>1, <2>2, <2>3 DEF FollowsPut
<1>5. ASSUME NEW d \in Callers, d # c PROVE ShapeOf(d)' /\ KnownOf(d)'
  <2>1. pc'[d] = pc[d] /\ my'[d] = my[d] /\ seen'[d] = seen[d]
    BY <1>1, <1>3, <1>5 DEF FollowsPut, Stops, Tries, Elsewhere
  <2>2. ShapeOf(d)'
    BY <2>1 DEF Sound, ShapeOf, Active, Ended
  <2>3. store'[d] # None => store[d] # None
    BY <1>2, <1>5
  <2>4. pc[d] \in Working \cup {"get"} => my[d].id \in Callers
    BY DEF TypeOK, Locals, Sound, ShapeOf
  <2>5. pc[d] \in Working /\ store'[my[d].id] # None => SameTorrent(store'[my[d].id], my[d].rec)
    BY <1>2, <1>5, <2>4 DEF Sound, KnownOf, Owning, Working, SameTorrent
  <2>6. KnownOf(d)'
    BY <1>2, <2>1, <2>3, <2>4, <2>5 DEF Sound, KnownOf, Owning, Ended, Lost, Working
  <2> QED
    BY <2>2, <2>6
<1> QED
  BY <1>2, <1>4, <1>5 DEF Sound

(* Every step keeps Sound.                                                  *)
LEMMA SoundStep ==
  ASSUME TypeOK, Sound, LockInv, [Next]_vars
  PROVE  Sound'
<1> USE DEF storeVars, callVars, worldVars, historyVars
<1>0. ASSUME NEW c \in Callers PROVE my[c] \in Locals /\ seen \in [Callers -> {"nothing", "live", "completed", "failed", "missing"}]
  BY DEF TypeOK
<1>1. ASSUME NEW c \in Callers, NEW o \in {"submit", "check"}, NEW s \in Sources, Calls(c, o, s)
      PROVE  Sound'
  <2>1. /\ pc[c] = "idle" /\ pc'[c] = "find" /\ my'[c].op = o /\ my'[c].src = s
        /\ Elsewhere(c) /\ seen' = seen /\ store' = store
    BY <1>0, <1>1 DEF Calls, Enters, To, TypeOK, Locals, Elsewhere
  <2>2. ShapeOf(c)' /\ KnownOf(c)'
    BY <2>1, NoneAssumption
       DEF Sound, ShapeOf, KnownOf, Ended, Lost, Owning, Working, Submitting
  <2> QED
    BY <2>1, <2>2, SoundElsewhere
<1>2. ASSUME NEW c \in Callers, NEW i \in Callers, Status(c, i) PROVE Sound'
  <2>1. /\ pc[c] = "idle" /\ pc'[c] = "get" /\ my'[c].op = "status" /\ my'[c].id = i
        /\ Elsewhere(c) /\ seen' = seen /\ store' = store /\ store[i] # None
    BY <1>0, <1>2 DEF Status, Enters, To, TypeOK, Locals, Elsewhere
  <2>2. ShapeOf(c)' /\ KnownOf(c)'
    BY <2>1, NoneAssumption
       DEF Sound, ShapeOf, KnownOf, Ended, Lost, Owning, Working, Submitting
  <2> QED
    BY <2>1, <2>2, SoundElsewhere
<1>3. ASSUME NEW c \in Callers, Find(c) PROVE Sound'
  <2>1. /\ pc[c] = "find" /\ store' = store /\ seen' = seen /\ Hears(c)
        /\ Active(c) /\ store[c] = None
    BY <1>0, <1>3 DEF Find, Sound, ShapeOf, KnownOf, Hears, Active, Ended, Lost, Owning, Working
  <2>2. ASSUME NEW i \in Found(c, "live"), To(c, "get"), my' = [my EXCEPT ![c].id = i]
        PROVE  Sound'
    <3>1. /\ pc'[c] = "get" /\ my'[c].op = my[c].op /\ my'[c].src = my[c].src
          /\ my'[c].id = i /\ Elsewhere(c) /\ i \in Callers /\ store[i] # None
      BY <1>0, <2>2 DEF To, TypeOK, Locals, Elsewhere, Found, Matches
    <3>2. ShapeOf(c)' /\ KnownOf(c)'
      BY <2>1, <3>1, NoneAssumption
         DEF Sound, ShapeOf, KnownOf, Active, Ended, Lost, Owning, Working, Submitting
    <3> QED
      BY <2>1, <3>1, <3>2, SoundElsewhere
  <2>3. CASE Stops(c) \/ Tries(c)
    BY <2>1, <2>3, StopsSound, TriesSound
  <2> QED
    BY <1>3, <2>2, <2>3, EndsEffect, FreshEffect DEF Find
<1>4. ASSUME NEW c \in Callers, Get(c) PROVE Sound'
  <2>1. /\ pc[c] = "get" /\ store' = store /\ seen' = seen /\ Hears(c)
        /\ Active(c) /\ store[c] = None
    BY <1>0, <1>4 DEF Get, Sound, ShapeOf, KnownOf, Hears, Active, Ended, Lost, Owning, Working
  <2>2. my[c].id \in Callers /\ store[my[c].id] \in Record /\ store[my[c].id] # None
    BY <1>0, <2>1 DEF TypeOK, Sound, ShapeOf, KnownOf, Locals
  <2>3. ASSUME store[my[c].id].state = "live", To(c, "asking"),
               my' = [my EXCEPT ![c].rec = store[my[c].id], ![c].after = "status"]
        PROVE  Sound'
    <3>1. /\ pc'[c] = "asking" /\ my'[c].op = my[c].op /\ my'[c].src = my[c].src
          /\ my'[c].id = my[c].id /\ my'[c].rec = store[my[c].id] /\ my'[c].after = "status"
          /\ Elsewhere(c)
      BY <1>0, <2>3 DEF To, TypeOK, Locals, Elsewhere
    <3>2. store[my[c].id].backend # "direct"
      BY <2>2, <2>3 DEF Sound, DirectIsDone
    <3>3. ShapeOf(c)'
      BY <2>1, <2>2, <3>1, <3>2 DEF Sound, ShapeOf, Active, Ended, Working, Submitting
    <3>4. KnownOf(c)'
      BY <2>1, <2>2, <3>1 DEF KnownOf, SameTorrent, Owning, Working
    <3> QED
      BY <2>1, <3>1, <3>3, <3>4, SoundElsewhere
  <2>4. CASE Stops(c) \/ Tries(c)
    BY <2>1, <2>4, StopsSound, TriesSound
  <2> QED
    BY <1>4, <2>3, <2>4, ResolvedEffect DEF Get
<1>5. ASSUME NEW c \in Callers, pc[c] \in Submitting
      PROVE  store[c] = None /\ my[c].op = "submit" /\ Active(c)
  BY <1>5 DEF Sound, ShapeOf, KnownOf, Active, Ended, Lost, Owning, Working, Submitting
<1>6. ASSUME NEW c \in Callers, pc[c] \notin {"asking", "probing"}, seen' = seen PROVE Hears(c)
  BY <1>6 DEF Sound, ShapeOf, Hears
<1>7. ASSUME NEW c \in Callers, FetchFile(c) PROVE Sound'
  <2> DEFINE r == [backend |-> "direct", content |-> Content(c), link |-> my[c].src,
                   state |-> "completed"]
  <2>1. r \in Record
    BY <1>7, NewRecordType DEF FetchFile, Record, Submitting
  <2>2. pc[c] = "fetching" /\ Put(c, c, r, "poll") /\ seen' = seen /\ store' = store
    BY <1>7 DEF FetchFile
  <2> QED
    BY <1>6, <2>1, <2>2, FirstPutSound DEF Submitting, Afters
<1>8. ASSUME NEW c \in Callers, FetchTorrent(c) PROVE Sound'
  <2>1. /\ pc[c] = "fetching" /\ pc'[c] = "find" /\ Elsewhere(c) /\ seen' = seen /\ store' = store
        /\ my'[c].op = my[c].op /\ my'[c].src = my[c].src
    BY <1>0, <1>8 DEF FetchTorrent, To, TypeOK, Locals, Elsewhere
  <2>2. ShapeOf(c)' /\ KnownOf(c)'
    BY <1>5, <2>1 DEF Sound, ShapeOf, KnownOf, Active, Ended, Lost, Owning, Working, Submitting
  <2> QED
    BY <2>1, <2>2, SoundElsewhere
<1>9. ASSUME NEW c \in Callers, FetchFails(c) \/ Refused(c) \/ ImportFails(c) PROVE Sound'
  BY <1>6, <1>9, FailsEffect, StopsSound DEF FetchFails, Refused, ImportFails
<1>10. ASSUME NEW c \in Callers, pc[c] \in Submitting PROVE NewRecord(c) \in Record /\ NewRecord(c).backend # "direct"
  BY <1>10, NewRecordType, DirectAssumption DEF NewRecord
<1>11. ASSUME NEW c \in Callers, Accepted(c) PROVE Sound'
  BY <1>6, <1>10, <1>11, FirstPutSound DEF Accepted, Submitting, Afters
<1>12. ASSUME NEW c \in Callers, pc[c] \in Submitting, NextBackend(c), Hears(c), store' = store
       PROVE  Sound'
  BY <1>5, <1>12, NextBackendEffect, StopsSound, TriesSound
<1>13. ASSUME NEW c \in Callers, NotReached(c) PROVE Sound'
  BY <1>6, <1>12, <1>13 DEF NotReached, Submitting
<1>14. ASSUME NEW c \in Callers, Interrupted(c) PROVE Sound'
  <2>1. /\ pc[c] = "trying" /\ pc'[c] = "probing" /\ my' = my /\ Elsewhere(c)
        /\ seen' = seen /\ store' = store
    BY <1>14 DEF Interrupted, To, TypeOK, Elsewhere
  <2>2. ShapeOf(c)' /\ KnownOf(c)'
    BY <1>5, <2>1 DEF Sound, ShapeOf, KnownOf, Active, Ended, Lost, Owning, Working, Submitting
  <2> QED
    BY <2>1, <2>2, SoundElsewhere
<1>15. ASSUME NEW c \in Callers, Answers(c) PROVE Sound'
  <2>1. /\ pc' = pc /\ my' = my /\ store' = store /\ pc[c] \in {"probing", "asking"}
        /\ \A d \in Callers \ {c} : seen'[d] = seen[d]
    BY <1>15 DEF Answers, TypeOK
  <2>2. ShapeOf(c)' /\ KnownOf(c)'
    BY <2>1 DEF Sound, ShapeOf, KnownOf, Active, Ended, Lost, Owning, Working, Submitting
  <2> QED
    BY <2>1, <2>2, SoundElsewhere DEF Elsewhere
<1>16. ASSUME NEW c \in Callers, NEW w, Handles(c, w) \/ NoAnswer(c, w)
       PROVE  Hears(c) /\ store' = store /\ pc[c] = w
  BY <1>0, <1>16 DEF Handles, NoAnswer, Hears
<1>17. ASSUME NEW c \in Callers, Probed(c) PROVE Sound'
  <2>1. CASE ProbeFound(c)
    BY <1>10, <1>16, <2>1, FirstPutSound DEF ProbeFound, Submitting, Afters
  <2>2. CASE ProbeAbsent(c)
    BY <1>12, <1>16, <2>2 DEF ProbeAbsent, Submitting
  <2>3. CASE ProbeFails(c)
    BY <1>10, <1>16, <2>3, FirstPutSound DEF ProbeFails, Submitting, Afters
  <2> QED
    BY <1>17, <2>1, <2>2, <2>3 DEF Probed
<1>18. ASSUME NEW c \in Callers, Asked(c) PROVE Sound'
  <2>1. CASE AskFails(c)
    BY <1>16, <2>1, FailsEffect, StopsSound DEF AskFails
  <2>2. CASE AskGone(c) \/ AskLive(c)
    BY <1>16, <2>2, KeepsSound DEF AskGone, AskLive, States
  <2>3. CASE Selects(c)
    <3>1. Hears(c) /\ store' = store /\ pc[c] = "asking"
      BY <1>16, <2>3 DEF Selects
    <3>2. CASE To(c, "importing") /\ UNCHANGED <<lock, my>>
      <4>1. pc'[c] = "importing" /\ my' = my /\ Elsewhere(c)
        BY <3>2 DEF To, TypeOK, Elsewhere
      <4>2. ShapeOf(c)' /\ KnownOf(c)'
        BY <3>1, <4>1 DEF Sound, ShapeOf, KnownOf, Hears, Active, Ended, Lost, Owning, Working, Submitting
      <4> QED
        BY <3>1, <4>1, <4>2, SoundElsewhere DEF Hears
    <3>3. CASE Keeps(c, "failed")
      BY <3>1, <3>3, KeepsSound DEF States
    <3> QED
      BY <2>3, <3>2, <3>3 DEF Selects
  <2> QED
    BY <1>18, <2>1, <2>2, <2>3 DEF Asked
<1>19. ASSUME NEW c \in Callers, Imports(c) PROVE Sound'
  BY <1>6, <1>19, KeepsSound DEF Imports, States
<1>20. ASSUME UNCHANGED <<store, pc, my, seen>> PROVE Sound'
  BY <1>20 DEF Sound, ShapeOf, KnownOf, DirectIsDone, Active, Ended, Lost, Owning
<1>21. ASSUME NEW c \in Callers, Loads(c) PROVE Sound'
  BY <1>20, <1>21 DEF Loads
<1>22. ASSUME NEW c \in Callers, PutFails(c) PROVE Sound'
  BY <1>6, <1>22, FailsEffect, StopsSound DEF PutFails, Inside
<1>23. CASE \/ LateArrives
            \/ \E b \in Backends, m \in Contents : Progress(b, m) \/ RemoveTorrent(b, m)
            \/ UNCHANGED vars
  BY <1>20, <1>23 DEF LateArrives, Progress, RemoveTorrent, vars
<1>24. CASE Restart
  <2>1. ASSUME NEW c \in Callers PROVE ShapeOf(c)' /\ KnownOf(c)'
    BY <1>24, <2>1 DEF Restart, Sound, ShapeOf, KnownOf, Active, Ended, Lost, Owning, Working, Submitting
  <2>2. DirectIsDone'
    BY <1>24 DEF Restart, Sound, DirectIsDone
  <2> QED
    BY <2>1, <2>2 DEF Sound
<1> QED
  BY <1>1, <1>2, <1>3, <1>4, <1>7, <1>8, <1>9, <1>11, <1>13, <1>14, <1>15, <1>17, <1>18, <1>19,
     <1>21, <1>22, <1>23, <1>24, SavesSound
     DEF Next, Step, Submit, CheckSubmit, Fetch, Try

-----------------------------------------------------------------------------
(* What backends took from a submission, and where it is known.             *)

TakenOf(c) ==
  /\ \A q \in queuedBy[c] : remote[q[1]][q[2]] # "absent"
  /\ \A p, q \in queuedBy[c] : p = q
  /\ queuedBy[c] # {} => pc[c] = "probing" \/ Owning(c) \/ Ended(c)
  /\ pc[c] = "probing" => \A q \in queuedBy[c] : q = <<Trying(c), Content(c)>>
  /\ pc[c] = "probing" /\ seen[c] = "missing" => queuedBy[c] = {}
  /\ Owning(c) => \A q \in queuedBy[c] : q[1] = my[c].rec.backend
  /\ Ended(c) /\ c \notin unsaved =>
       \A q \in queuedBy[c] : store[c] # None /\ store[c].backend = q[1]

TakenInv == \A c \in Callers : TakenOf(c)

(* No torrent leaves a backend.                                             *)
NoneRemoved ==
  \A b \in Backends, m \in Contents : remote[b][m] # "absent" => remote'[b][m] # "absent"
(* No record is lost or handed to another backend.                          *)
NoneForgotten ==
  \A i \in Callers : store[i] # None => store'[i] # None /\ store'[i].backend = store[i].backend

(* A caller with nothing taken.                                             *)
LEMMA NothingTaken ==
  ASSUME NEW c \in Callers, queuedBy'[c] = {}
  PROVE  TakenOf(c)'
BY DEF TakenOf

(* A step of one caller does not disturb what is taken from another.        *)
LEMMA TakenElsewhere ==
  ASSUME TypeOK, Sound, TakenInv, NEW c \in Callers, Elsewhere(c), NoneRemoved, NoneForgotten,
         \A d \in Callers \ {c} : seen'[d] = seen[d] /\ queuedBy'[d] = queuedBy[d],
         unsaved \subseteq unsaved', TakenOf(c)'
  PROVE  TakenInv'
<1> SUFFICES ASSUME NEW d \in Callers, d # c PROVE TakenOf(d)'
  BY DEF TakenInv
<1>1. /\ pc'[d] = pc[d] /\ my'[d] = my[d] /\ seen'[d] = seen[d] /\ queuedBy'[d] = queuedBy[d]
      /\ queuedBy[d] \subseteq Backends \X Contents /\ TakenOf(d)
  BY DEF TypeOK, Elsewhere, TakenInv
<1>2. \A q \in queuedBy[d] : remote'[q[1]][q[2]] # "absent"
  BY <1>1 DEF TakenOf, NoneRemoved
<1>3. pc[d] = "probing" => Content(d)' = Content(d) /\ Trying(d)' = Trying(d)
  BY <1>1 DEF Sound, ShapeOf, Content, Lead, Trying, Submitting
<1> QED
  BY <1>1, <1>2, <1>3 DEF TakenOf, Owning, Ended, NoneForgotten

(* Torrents are added or go on at a backend without leaving it.             *)
LEMMA AddedStays ==
  ASSUME TypeOK, NEW b \in Backends, NEW m \in Contents, remote' \in {remote, Added(b, m)}
  PROVE  NoneRemoved
<1>1. CASE remote' = [remote EXCEPT ![b][m] = "live"]
  <2> SUFFICES ASSUME NEW x \in Backends, NEW y \in Contents, remote[x][y] # "absent"
               PROVE  remote'[x][y] # "absent"
    BY DEF NoneRemoved
  <2>1. remote'[x] = IF x = b THEN [remote[b] EXCEPT ![m] = "live"] ELSE remote[x]
    BY <1>1 DEF TypeOK
  <2>2. remote[b] \in [Contents -> {"absent", "live", "completed", "moved", "failed"}]
    BY DEF TypeOK
  <2> QED
    BY <2>1, <2>2
<1> QED
  BY <1>1 DEF NoneRemoved, Added

(* A caller that stops with nothing taken or with its record in the store.  *)
LEMMA StopsTaken ==
  ASSUME TypeOK, Sound, TakenInv, NEW c \in Callers, Stops(c), queuedBy' = queuedBy, remote' = remote,
         \/ pc[c] \notin {"probing", "returned", "threw"} /\ ~Owning(c)
         \/ pc[c] \in {"asking", "importing"} /\ store' = store
  PROVE  TakenOf(c)'
<1>1. CASE pc[c] \notin {"probing", "returned", "threw"} /\ ~Owning(c)
  BY <1>1, NothingTaken DEF TakenInv, TakenOf, Ended
<1>2. CASE pc[c] \in {"asking", "importing"} /\ store' = store /\ Owning(c)
  <2>1. store[c] # None /\ store[c].backend = my[c].rec.backend
    BY <1>2 DEF Sound, KnownOf, SameTorrent, Owning
  <2> QED
    BY <1>2, <2>1 DEF TakenInv, TakenOf, Stops, Owning, Ended, Working
<1> QED
  BY <1>1, <1>2

(* A put of the record of what was taken.                                   *)
LEMMA PutTaken ==
  ASSUME TypeOK, NEW c \in Callers, NEW i, NEW r, NEW why, Put(c, i, r, why),
         \A q \in queuedBy'[c] : remote'[q[1]][q[2]] # "absent" /\ q[1] = r.backend,
         \A p, q \in queuedBy'[c] : p = q,
         queuedBy'[c] # {} => why # "status"
  PROVE  TakenOf(c)'
<1>1. pc'[c] = "putting" /\ my'[c].rec = r /\ my'[c].after = why
  BY PutEffect
<1> QED
  BY <1>1 DEF TakenOf, Owning, Ended, Working

(* Keeping the state of the record in hand.                                 *)
LEMMA KeepsTaken ==
  ASSUME TypeOK, Sound, TakenInv, NEW c \in Callers, pc[c] \in {"asking", "importing"},
         NEW s \in States, Keeps(c, s), queuedBy' = queuedBy,
         \A q \in queuedBy[c] : remote'[q[1]][q[2]] # "absent"
  PROVE  TakenOf(c)'
<1>1. [my[c].rec EXCEPT !.state = s].backend = my[c].rec.backend
  BY WorkingType DEF Working, Record
<1>2. /\ queuedBy[c] # {} => my[c].after # "status"
      /\ \A q \in queuedBy[c] : q[1] = my[c].rec.backend
      /\ \A p, q \in queuedBy[c] : p = q
  BY DEF TakenInv, TakenOf, Owning, Ended, Working
<1> QED
  BY <1>1, <1>2, PutTaken DEF Keeps

(* Every step keeps it.                                                     *)
LEMMA TakenStep ==
  ASSUME TypeOK, Sound, LockInv, TakenInv, [Next]_vars
  PROVE  TakenInv'
<1> USE DEF storeVars, worldVars, historyVars
<1>0. ASSUME NEW c \in Callers, Elsewhere(c), UNCHANGED <<store, worldVars>>,
             \A d \in Callers \ {c} : seen'[d] = seen[d], unsaved \subseteq unsaved', TakenOf(c)'
      PROVE  TakenInv'
  BY <1>0, TakenElsewhere DEF NoneRemoved, NoneForgotten
<1>1. ASSUME NEW c \in Callers, Elsewhere(c), UNCHANGED <<store, worldVars>>,
             \A d \in Callers \ {c} : seen'[d] = seen[d], unsaved \subseteq unsaved',
             pc[c] \notin {"probing", "returned", "threw"}, ~Owning(c)
      PROVE  TakenInv'
  BY <1>0, <1>1, NothingTaken DEF TakenInv, TakenOf, Ended
<1>2. ASSUME NEW c \in Callers, Hears(c) \/ seen' = seen PROVE \A d \in Callers \ {c} : seen'[d] = seen[d]
  BY <1>2 DEF Hears
<1>3. ASSUME NEW c \in Callers, NEW w, Handles(c, w) \/ NoAnswer(c, w)
      PROVE  /\ Hears(c) /\ UNCHANGED <<store, worldVars, unsaved>> /\ pc[c] = w
  BY <1>3 DEF Handles, NoAnswer, Hears, TypeOK
<1>4. ASSUME NEW c \in Callers, NEW o \in {"submit", "check"}, NEW s \in Sources, Calls(c, o, s)
      PROVE  TakenInv'
  <2>1. pc[c] = "idle" /\ Elsewhere(c) /\ seen' = seen /\ UNCHANGED <<store, worldVars, unsaved>>
    BY <1>4 DEF Calls, Enters, To, TypeOK, Elsewhere
  <2> QED
    BY <1>1, <2>1 DEF Owning, Working
<1>5. ASSUME NEW c \in Callers, NEW i \in Callers, Status(c, i) PROVE TakenInv'
  <2>1. pc[c] = "idle" /\ Elsewhere(c) /\ seen' = seen /\ UNCHANGED <<store, worldVars, unsaved>>
    BY <1>5 DEF Status, Enters, To, TypeOK, Elsewhere
  <2> QED
    BY <1>1, <2>1 DEF Owning, Working
<1>6. ASSUME NEW c \in Callers, Find(c) PROVE TakenInv'
  <2>1. Elsewhere(c)
    BY <1>6, EndsEffect, FreshEffect DEF Find, Stops, Tries, To, TypeOK, Elsewhere
  <2> QED
    BY <1>1, <1>6, <2>1 DEF Find, Owning, Working
<1>7. ASSUME NEW c \in Callers, Get(c) PROVE TakenInv'
  <2>1. Elsewhere(c)
    BY <1>7, ResolvedEffect DEF Get, Stops, Tries, To, TypeOK, Elsewhere
  <2> QED
    BY <1>1, <1>7, <2>1 DEF Get, Owning, Working
<1>8. ASSUME NEW c \in Callers, Fetch(c) PROVE TakenInv'
  <2>1. Elsewhere(c)
    BY <1>8, PutEffect, FailsEffect
       DEF Fetch, FetchFile, FetchTorrent, FetchFails, Stops, To, TypeOK, Elsewhere
  <2> QED
    BY <1>1, <1>8, <2>1 DEF Fetch, FetchFile, FetchTorrent, FetchFails, Owning, Working
<1>9. ASSUME NEW c \in Callers, Arrives(c), pc[c] = "trying"
      PROVE  /\ Content(c) \in Contents /\ Trying(c) \in Backends /\ NoneRemoved
             /\ queuedBy'[c] = {<<Trying(c), Content(c)>>}
             /\ \A d \in Callers \ {c} : queuedBy'[d] = queuedBy[d]
             /\ remote'[Trying(c)][Content(c)] # "absent"
  <2>1. Content(c) \in Contents /\ Trying(c) \in Backends
    BY <1>9, NewRecordType DEF Submitting
  <2>2. queuedBy[c] = {}
    BY <1>9 DEF TakenInv, TakenOf, Owning, Ended, Working
  <2>3. remote'[Trying(c)][Content(c)] # "absent"
    BY <1>9, <2>1 DEF Arrives, Added, TypeOK
  <2> QED
    BY <1>9, <2>1, <2>2, <2>3, AddedStays DEF Arrives, TypeOK
<1>10. ASSUME NEW c \in Callers, Accepted(c) PROVE TakenInv'
  <2>1. /\ pc[c] = "trying" /\ Arrives(c) /\ Put(c, c, NewRecord(c), "first")
        /\ store' = store /\ seen' = seen /\ unsaved' = unsaved
    BY <1>10 DEF Accepted
  <2>2. TakenOf(c)'
    BY <1>9, <2>1, PutTaken DEF NewRecord
  <2> QED
    BY <1>9, <2>1, <2>2, PutEffect, TakenElsewhere DEF NoneForgotten
<1>11. ASSUME NEW c \in Callers, Refused(c) PROVE TakenInv'
  BY <1>1, <1>11, FailsEffect DEF Refused, Stops, Owning, Working
<1>12. ASSUME NEW c \in Callers, NotReached(c) PROVE TakenInv'
  <2>1. my[c].op = "submit"
    BY <1>12 DEF NotReached, Sound, ShapeOf, Submitting
  <2> QED
    BY <1>1, <1>12, <2>1, NextBackendEffect DEF NotReached, Stops, Tries, Owning, Working
<1>13. ASSUME NEW c \in Callers, Interrupted(c) PROVE TakenInv'
  <2>1. /\ pc[c] = "trying" /\ pc'[c] = "probing" /\ my' = my /\ Elsewhere(c)
        /\ store' = store /\ seen' = seen /\ unsaved' = unsaved /\ seen[c] = "nothing"
    BY <1>13 DEF Interrupted, To, TypeOK, Elsewhere, Sound, ShapeOf
  <2>2. CASE UNCHANGED <<remote, queuedBy>>
    <3>1. queuedBy'[c] = {}
      BY <2>1, <2>2 DEF TakenInv, TakenOf, Owning, Ended, Working
    <3> QED
      BY <2>1, <2>2, <3>1, NothingTaken, TakenElsewhere DEF NoneRemoved, NoneForgotten
  <2>3. CASE Arrives(c)
    <3>1. Content(c)' = Content(c) /\ Trying(c)' = Trying(c)
      BY <2>1 DEF Sound, ShapeOf, Submitting, Content, Lead, Trying
    <3>2. TakenOf(c)'
      BY <1>9, <2>1, <2>3, <3>1 DEF TakenOf, Owning, Ended, Working
    <3> QED
      BY <1>9, <2>1, <2>3, <3>2, TakenElsewhere DEF NoneForgotten
  <2> QED
    BY <1>13, <2>2, <2>3 DEF Interrupted
<1>14. ASSUME NEW c \in Callers, Answers(c) PROVE TakenInv'
  <2>1. /\ pc' = pc /\ my' = my /\ UNCHANGED <<store, worldVars, unsaved>> /\ Elsewhere(c)
        /\ \A d \in Callers \ {c} : seen'[d] = seen[d]
    BY <1>14 DEF Answers, Elsewhere, TypeOK
  <2>2. ASSUME pc[c] = "probing", seen'[c] = "missing" PROVE queuedBy[c] = {}
    <3>1. remote[Trying(c)][Content(c)] = "absent"
      BY <1>14, <2>2, NewRecordType DEF Answers, Says, TypeOK, Submitting
    <3> QED
      BY <2>2, <3>1 DEF TakenInv, TakenOf
  <2>3. pc[c] = "probing" => Content(c)' = Content(c) /\ Trying(c)' = Trying(c)
    BY <2>1 DEF Sound, ShapeOf, Submitting, Content, Lead, Trying
  <2>4. TakenOf(c)'
    BY <2>1, <2>2, <2>3 DEF TakenInv, TakenOf, Owning, Ended
  <2> QED
    BY <1>0, <2>1, <2>4
<1>15. ASSUME NEW c \in Callers, Probed(c) PROVE TakenInv'
  <2>1. CASE ProbeFound(c) \/ ProbeFails(c)
    <3>1. /\ pc[c] = "probing" /\ Hears(c) /\ UNCHANGED <<store, worldVars, unsaved>>
          /\ \E why \in {"first", "uncertain"} : Put(c, c, NewRecord(c), why)
      BY <1>3, <2>1 DEF ProbeFound, ProbeFails
    <3>2. TakenOf(c)'
      BY <3>1, PutTaken DEF TakenInv, TakenOf, NewRecord
    <3> QED
      BY <1>0, <1>2, <3>1, <3>2, PutEffect
  <2>2. CASE ProbeAbsent(c)
    <3>1. /\ pc[c] = "probing" /\ Hears(c) /\ UNCHANGED <<store, worldVars, unsaved>>
          /\ seen[c] = "missing" /\ NextBackend(c) /\ my[c].op = "submit"
      BY <1>3, <2>2 DEF ProbeAbsent, Sound, ShapeOf, Submitting
    <3>2. TakenOf(c)'
      BY <3>1, NothingTaken DEF TakenInv, TakenOf
    <3> QED
      BY <1>0, <1>2, <3>1, <3>2, NextBackendEffect DEF Stops, Tries
  <2> QED
    BY <1>15, <2>1, <2>2 DEF Probed
<1>16. ASSUME NEW c \in Callers, Asked(c) PROVE TakenInv'
  <2>0. pc[c] = "asking" /\ Hears(c) /\ UNCHANGED <<store, worldVars, unsaved>>
    BY <1>3, <1>16 DEF Asked, AskFails, AskGone, AskLive, Selects
  <2>1. CASE Fails(c)
    BY <1>0, <1>2, <2>0, <2>1, FailsEffect, StopsTaken DEF Stops
  <2>2. CASE \E s \in States : Keeps(c, s)
    <3>1. PICK s \in States : Keeps(c, s)
      BY <2>2
    <3>2. TakenOf(c)'
      BY <2>0, <3>1, KeepsTaken DEF TakenInv, TakenOf
    <3> QED
      BY <1>0, <1>2, <2>0, <3>1, <3>2, PutEffect DEF Keeps
  <2>3. CASE To(c, "importing") /\ my' = my
    <3>1. pc'[c] = "importing" /\ Elsewhere(c)
      BY <2>3 DEF To, TypeOK, Elsewhere
    <3>2. TakenOf(c)'
      BY <2>0, <2>3, <3>1 DEF TakenInv, TakenOf, Owning, Ended, Working
    <3> QED
      BY <1>0, <1>2, <2>0, <3>1, <3>2
  <2> QED
    BY <1>16, <2>1, <2>2, <2>3 DEF Asked, AskFails, AskGone, AskLive, Selects, States
<1>17. ASSUME NEW c \in Callers, Imports(c) PROVE TakenInv'
  <2>1. my[c].rec.backend \in Backends /\ my[c].rec.content \in Contents
    BY <1>17, WorkingType DEF Imports, Working, Record
  <2>2. NoneRemoved
    <3>1. CASE remote' = [remote EXCEPT ![my[c].rec.backend][my[c].rec.content] = "moved"]
      BY <2>1, <3>1 DEF NoneRemoved, TypeOK
    <3> QED
      BY <1>17, <3>1 DEF Imports, NoneRemoved
  <2>3. /\ pc[c] = "importing" /\ Keeps(c, "completed")
        /\ UNCHANGED <<store, seen, queuedBy, unsaved>>
    BY <1>17 DEF Imports
  <2>4. \A q \in queuedBy[c] : remote'[q[1]][q[2]] # "absent"
    BY <2>2 DEF TakenInv, TakenOf, NoneRemoved, TypeOK
  <2>5. TakenOf(c)'
    BY <2>3, <2>4, KeepsTaken DEF States
  <2> QED
    BY <2>2, <2>3, <2>5, PutEffect, TakenElsewhere DEF Keeps, NoneForgotten
<1>18. ASSUME NEW c \in Callers, ImportFails(c) PROVE TakenInv'
  BY <1>0, <1>18, FailsEffect, StopsTaken DEF ImportFails, Stops
<1>19. ASSUME UNCHANGED <<store, pc, my, seen, unsaved>>, NoneRemoved,
              \A c \in Callers : queuedBy'[c] = queuedBy[c]
       PROVE  TakenInv'
  <2> SUFFICES ASSUME NEW c \in Callers PROVE TakenOf(c)'
    BY DEF TakenInv
  <2>1. \A q \in queuedBy[c] : remote'[q[1]][q[2]] # "absent"
    BY <1>19 DEF TakenInv, TakenOf, NoneRemoved, TypeOK
  <2>2. Content(c)' = Content(c) /\ Trying(c)' = Trying(c)
    BY <1>19 DEF Content, Lead, Trying
  <2> QED
    BY <1>19, <2>1, <2>2 DEF TakenInv, TakenOf, Owning, Ended
<1>20. ASSUME NEW c \in Callers, Loads(c) PROVE TakenInv'
  BY <1>19, <1>20 DEF Loads, callVars, NoneRemoved
<1>21. ASSUME NEW c \in Callers, Saves(c) PROVE TakenInv'
  <2>1. /\ pc[c] = "putting" /\ FollowsPut(c) /\ UNCHANGED <<seen, worldVars, unsaved>>
        /\ store' = [store EXCEPT ![my[c].id] = my[c].rec]
    BY <1>21, AfterPutEffect DEF Saves, Inside, LockInv
  <2>2. /\ NoneForgotten /\ store'[my[c].id] = my[c].rec /\ my[c].rec # None
    BY <2>1, SaveKeeps, WorkingType, NoneAssumption DEF NoneForgotten, SameTorrent, Working
  <2>3. Elsewhere(c)
    BY <2>1 DEF FollowsPut, Stops, Tries
  <2>4. TakenOf(c)'
    <3>1. CASE ~Owning(c)
      BY <2>1, <3>1, NothingTaken DEF TakenInv, TakenOf, Ended
    <3>2. CASE Owning(c) /\ Stops(c)
      BY <2>1, <2>2, <3>2 DEF TakenInv, TakenOf, Sound, KnownOf, Stops, Owning, Ended, Working
    <3>3. CASE Owning(c) /\ pc'[c] = "asking" /\ my'[c].rec = my[c].rec /\ my'[c].after = "poll"
      BY <2>1, <3>3 DEF TakenInv, TakenOf, Owning, Ended, Working
    <3> QED
      BY <2>1, <3>1, <3>2, <3>3 DEF FollowsPut, Owning
  <2> QED
    BY <2>1, <2>2, <2>3, <2>4, TakenElsewhere DEF NoneRemoved
<1>22. ASSUME NEW c \in Callers, PutFails(c) PROVE TakenInv'
  <2>1. /\ pc[c] = "putting" /\ Stops(c) /\ UNCHANGED <<store, seen, worldVars>>
        /\ unsaved' = unsaved \cup {c}
    BY <1>22, FailsEffect DEF PutFails, Inside
  <2>2. TakenOf(c)'
    BY <2>1 DEF TakenInv, TakenOf, Stops, Owning, Ended, Working
  <2> QED
    BY <1>0, <2>1, <2>2 DEF Stops
<1>23. CASE LateArrives
  <2>1. PICK x \in late : remote' = Added(x[1], x[2])
    BY <1>23 DEF LateArrives
  <2>2. x[1] \in Backends /\ x[2] \in Contents
    BY <2>1 DEF TypeOK
  <2> QED
    BY <1>19, <1>23, <2>1, <2>2, AddedStays DEF LateArrives, callVars
<1>24. ASSUME NEW b \in Backends, NEW m \in Contents, Progress(b, m) PROVE TakenInv'
  <2>1. NoneRemoved
    BY <1>24 DEF Progress, NoneRemoved, TypeOK
  <2> QED
    BY <1>19, <1>24, <2>1 DEF Progress, callVars
<1>25. ASSUME NEW b \in Backends, NEW m \in Contents, RemoveTorrent(b, m) PROVE TakenInv'
  <2> SUFFICES ASSUME NEW c \in Callers PROVE TakenOf(c)'
    BY DEF TakenInv
  <2>1. /\ UNCHANGED <<store, pc, my, seen, unsaved>>
        /\ queuedBy'[c] = queuedBy[c] \ {<<b, m>>}
        /\ remote' = [remote EXCEPT ![b][m] = "absent"]
    BY <1>25 DEF RemoveTorrent, callVars
  <2>2. \A q \in queuedBy'[c] : remote'[q[1]][q[2]] # "absent"
    <3> SUFFICES ASSUME NEW q \in queuedBy'[c] PROVE remote'[q[1]][q[2]] # "absent"
      OBVIOUS
    <3>1. q \in Backends \X Contents /\ q # <<b, m>> /\ remote[q[1]][q[2]] # "absent"
      BY <2>1 DEF TakenInv, TakenOf, TypeOK
    <3>2. q[1] # b \/ q[2] # m
      BY <3>1
    <3> QED
      BY <2>1, <3>1, <3>2 DEF TypeOK
  <2>3. Content(c)' = Content(c) /\ Trying(c)' = Trying(c)
    BY <2>1 DEF Content, Lead, Trying
  <2> QED
    BY <2>1, <2>2, <2>3 DEF TakenInv, TakenOf, Owning, Ended
<1>26. CASE Restart
  BY <1>26, NothingTaken DEF Restart, TakenInv
<1>27. CASE UNCHANGED vars
  BY <1>19, <1>27 DEF vars, callVars, NoneRemoved
<1> QED
  BY <1>4, <1>5, <1>6, <1>7, <1>8, <1>10, <1>11, <1>12, <1>13, <1>14, <1>15, <1>16, <1>17, <1>18,
     <1>20, <1>21, <1>22, <1>23, <1>24, <1>25, <1>26, <1>27
     DEF Next, Step, Submit, CheckSubmit, Try

-----------------------------------------------------------------------------
(* The inductive invariant and what follows from it.                        *)

IInv == TypeOK /\ Sound /\ LockInv /\ TakenInv

(* It holds initially.                                                      *)
LEMMA InvInit == Init => IInv
<1> SUFFICES ASSUME Init PROVE IInv
  OBVIOUS
<1>1. TypeOK
  BY BlankType DEF Init, TypeOK, PcValues
<1>2. Sound
  BY DEF Init, Sound, ShapeOf, KnownOf, DirectIsDone, Active, Ended, Lost, Owning, Working, Submitting
<1>3. LockInv
  BY DEF Init, LockInv, MutexIsLeft
<1>4. TakenInv
  BY DEF Init, TakenInv, TakenOf, Owning, Ended, Working
<1> QED
  BY <1>1, <1>2, <1>3, <1>4 DEF IInv

(* Every behaviour keeps it.                                                *)
THEOREM InvCorrect == Spec => []IInv
<1>1. IInv /\ [Next]_vars => IInv'
  BY TypeStep, SoundStep, LockStep, TakenStep DEF IInv
<1> QED
  BY <1>1, InvInit, PTL DEF Spec

(* Every variable keeps its type (AcquireService and HandleStore).          *)
THEOREM TypeCorrect == Spec => []TypeOK
<1>1. IInv => TypeOK
  BY DEF IInv
<1> QED
  BY <1>1, InvCorrect, PTL

(* Whoever holds or awaits the store's mutex is in its put, so no failing   *)
(* write and no early end leaves the others waiting (store.ts withLock).    *)
THEOREM MutexAlwaysLeft == Spec => []MutexIsLeft
<1>1. IInv => MutexIsLeft
  BY DEF IInv, LockInv
<1> QED
  BY <1>1, InvCorrect, PTL

(* No submission is taken in time by two backends, whatever requests and    *)
(* answers are lost, refused or late (acquire.ts:513-516).                  *)
THEOREM NeverQueuedTwice == Spec => []QueuedByOne
<1>1. IInv => QueuedByOne
  <2> SUFFICES ASSUME IInv, NEW c \in Callers PROVE Cardinality(queuedBy[c]) <= 1
    BY DEF QueuedByOne
  <2>1. \A p, q \in queuedBy[c] : p = q
    BY DEF IInv, TakenInv, TakenOf
  <2>2. CASE queuedBy[c] = {}
    BY <2>2, FS_EmptySet
  <2>3. CASE queuedBy[c] # {}
    <3>1. PICK q \in queuedBy[c] : queuedBy[c] = {q}
      BY <2>1, <2>3
    <3> QED
      BY <3>1, FS_Singleton
  <2> QED
    BY <2>2, <2>3
<1> QED
  BY <1>1, InvCorrect, PTL

(* What a backend took from a submission can be followed up under its       *)
(* handle, unless the record could not be written (acquire.ts:526-556).     *)
THEOREM AlwaysFollowedUp == Spec => []FollowedUp
<1>1. IInv => FollowedUp
  BY DEF IInv, TakenInv, TakenOf, FollowedUp
<1> QED
  BY <1>1, InvCorrect, PTL

(* Puts of different records never undo one another, and a record keeps     *)
(* its backend, its content and its link (store.ts put).                    *)
THEOREM RecordsAreKept == Spec => RecordKept
<1> DEFINE Kept == \A i \in Callers : store[i] # None =>
                     /\ store'[i] # None
                     /\ [store'[i] EXCEPT !.state = store[i].state] = store[i]
<1>1. IInv /\ [Next]_vars => Kept
  <2> SUFFICES ASSUME IInv, [Next]_vars PROVE Kept
    OBVIOUS
  <2>1. CASE store' = store
    BY <2>1 DEF IInv, TypeOK, Record
  <2>2. ASSUME NEW c \in Callers, Saves(c) PROVE Kept
    <3>1. \A i \in Callers : store[i] # None => store'[i] # None /\ SameTorrent(store[i], store'[i])
      BY <2>2, SaveKeeps DEF Saves, Inside, IInv, LockInv
    <3>2. store \in [Callers -> Record \cup {None}] /\ store' \in [Callers -> Record \cup {None}]
      BY TypeStep DEF IInv, TypeOK
    <3> QED
      BY <3>1, <3>2 DEF SameTorrent, Record
  <2> QED
    BY <2>1, <2>2 DEF Next, Step, Submit, CheckSubmit, Calls, Status, Enters, Find, Get,
       Fetch, FetchFile, FetchTorrent, FetchFails, Try, Accepted, Refused, NotReached, Interrupted,
       Answers, Probed, ProbeFound, ProbeAbsent, ProbeFails, Handles, NoAnswer,
       Asked, AskFails, AskGone, AskLive, Selects, Imports, ImportFails, Loads, PutFails,
       LateArrives, Progress, RemoveTorrent, Restart, vars, storeVars
<1>2. IInv /\ [Next]_vars => [Kept]_vars
  BY <1>1
<1> QED
  BY <1>2, InvCorrect, PTL DEF Spec, RecordKept

-----------------------------------------------------------------------------
(* Contents that one activation at a time works on.                         *)

(* A link names what it leads to.                                           *)
Named(r) == r.link # None => LeadsTo[r.link].content = r.content
(* A put of a record that is not in the store yet.                          *)
Founding(c) ==
  pc[c] = "putting" /\ (my[c].after \in {"first", "uncertain"} \/ my[c].rec.backend = "direct")
(* An activation that follows up a record that was live when it read it.    *)
Following(c) == pc[c] \in Working /\ ~Founding(c)

(* The copy in hand is of the content worked on, and what it is put for     *)
(* tells whether its record is new.                                         *)
FitsOf(c) ==
  /\ pc[c] = "get" => store[my[c].id].content = Content(c)
  /\ pc[c] \in Working => my[c].rec.content = Content(c) /\ Named(my[c].rec)
  /\ pc[c] \in Working /\ my[c].op = "status" => my[c].after = "status"
  /\ pc[c] \in {"asking", "importing"} => my[c].after \in {"status", "poll"}
  /\ pc[c] = "putting" /\ my[c].after \in {"first", "uncertain"} => my[c].rec.state = "live"
  /\ Founding(c) => store[c] = None
  /\ Following(c) => store[my[c].id] # None

(* Alone on its content, an activation that goes to a backend has found no   *)
(* live record, and one that follows a record up still has it live.         *)
LoneOf(c) ==
  Active(c) /\ Content(c) \notin contested =>
    /\ pc[c] \in {"trying", "probing"} \/ (Founding(c) /\ my[c].rec.backend # "direct") =>
         LiveRecords(Content(c)) = {}
    /\ (pc[c] = "get" /\ my[c].op # "status") \/ Following(c) => store[my[c].id].state = "live"

Alone ==
  \A c, d \in Callers :
    Active(c) /\ Active(d) /\ c # d /\ Content(c) = Content(d) => Content(c) \in contested
LiveOnce == \A m \in Contents \ contested : \A i, j \in LiveRecords(m) : i = j
NamesFit == \A i \in Callers : store[i] # None => Named(store[i])

LoneInv ==
  /\ NamesFit /\ Alone /\ LiveOnce
  /\ \A c \in Callers : FitsOf(c) /\ LoneOf(c)

(* One activation's step leaves the others and the store as they are.       *)
LEMMA LoneElsewhere ==
  ASSUME TypeOK, Sound, LoneInv, NEW c \in Callers, Elsewhere(c), store' = store,
         contested' = contested,
         Active(c)' => Active(c) /\ Content(c)' = Content(c),
         FitsOf(c)', LoneOf(c)'
  PROVE  LoneInv'
<1>1. /\ \A m : LiveRecords(m)' = LiveRecords(m)
      /\ NamesFit' /\ LiveOnce'
  BY DEF LoneInv, NamesFit, Named, LiveOnce, LiveRecords
<1>2. ASSUME NEW d \in Callers, d # c
      PROVE  /\ pc'[d] = pc[d] /\ my'[d] = my[d] /\ Content(d)' = Content(d)
             /\ Active(d)' = Active(d)
  BY <1>2 DEF Elsewhere, Content, Lead, Active, Ended
<1>3. ASSUME NEW d \in Callers, d # c PROVE FitsOf(d)' /\ LoneOf(d)'
  <2>1. FitsOf(d) /\ LoneOf(d)
    BY DEF LoneInv
  <2>2. Founding(d)' = Founding(d) /\ Following(d)' = Following(d)
    BY <1>2, <1>3 DEF Founding, Following
  <2>3. FitsOf(d)'
    BY <1>2, <1>3, <2>1, <2>2 DEF FitsOf, Named
  <2>4. LoneOf(d)'
    BY <1>1, <1>2, <1>3, <2>1, <2>2 DEF LoneOf
  <2> QED
    BY <2>3, <2>4
<1>4. Alone'
  <2> SUFFICES ASSUME NEW d \in Callers, NEW e \in Callers, Active(d)', Active(e)', d # e,
                      Content(d)' = Content(e)'
               PROVE  Content(d)' \in contested'
    BY DEF Alone
  <2>1. Active(d) /\ Active(e) /\ Content(d)' = Content(d) /\ Content(e)' = Content(e)
    BY <1>2
  <2> QED
    BY <2>1 DEF LoneInv, Alone
<1> QED
  BY <1>1, <1>3, <1>4 DEF LoneInv

(* A caller that stops keeps it.                                            *)
LEMMA StopsLone ==
  ASSUME TypeOK, Sound, LoneInv, NEW c \in Callers, Stops(c), store' = store,
         contested' = contested
  PROVE  LoneInv'
<1>1. ~Active(c)' /\ pc'[c] \in {"returned", "threw"} /\ Elsewhere(c)
  BY DEF Stops, Active, Ended
<1>2. FitsOf(c)' /\ LoneOf(c)'
  BY <1>1 DEF FitsOf, LoneOf, Founding, Following, Working
<1> QED
  BY <1>1, <1>2, LoneElsewhere

(* An activation that goes on with the same source works on the same        *)
(* content.                                                                 *)
LEMMA ContentStays ==
  ASSUME NEW c \in Callers, my[c].op # "status", my'[c].op = my[c].op, my'[c].src = my[c].src
  PROVE  Content(c)' = Content(c)
BY DEF Content, Lead

(* What the find and the answers do not find at a backend is tried there.   *)
LEMMA TriesLone ==
  ASSUME TypeOK, Sound, LoneInv, NEW c \in Callers, Tries(c), store' = store,
         contested' = contested, Active(c),
         pc'[c] = "trying" /\ Content(c) \notin contested => LiveRecords(Content(c)) = {}
  PROVE  LoneInv'
<1>1. Elsewhere(c) /\ pc'[c] \in {"fetching", "trying"} /\ Content(c)' = Content(c)
  BY ContentStays DEF Tries
<1>2. \A m : LiveRecords(m)' = LiveRecords(m)
  BY <1>1 DEF LiveRecords
<1>3. FitsOf(c)'
  BY <1>1 DEF FitsOf, Founding, Following, Working
<1>4. LoneOf(c)'
  BY <1>1, <1>2 DEF LoneOf, Founding, Following, Working
<1> QED
  BY <1>1, <1>3, <1>4, LoneElsewhere

(* A submission's first record.                                             *)
LEMMA FirstPutLone ==
  ASSUME TypeOK, Sound, LoneInv, NEW c \in Callers, pc[c] \in Submitting,
         NEW r \in Record, NEW why \in Afters \ {"status"},
         Put(c, c, r, why), store' = store, contested' = contested,
         r.content = Content(c), Named(r),
         \/ pc[c] # "fetching" /\ why \in {"first", "uncertain"} /\ r.state = "live"
         \/ r.backend = "direct" /\ why = "poll"
  PROVE  LoneInv'
<1>1. /\ pc'[c] = "putting" /\ Elsewhere(c)
      /\ my'[c].id = c /\ my'[c].rec = r /\ my'[c].after = why
      /\ my'[c].op = my[c].op /\ my'[c].src = my[c].src
  BY PutEffect
<1>2. my[c].op = "submit" /\ store[c] = None /\ Active(c)
  BY DEF Sound, ShapeOf, KnownOf, Owning, Ended, Lost, Active, Working, Submitting
<1>3. Content(c)' = Content(c)
  BY <1>1, <1>2, ContentStays
<1>4. Founding(c)'
  BY <1>1 DEF Founding
<1>5. FitsOf(c)'
  BY <1>1, <1>2, <1>3, <1>4 DEF FitsOf, Following, Working, Named
<1>6. r.backend # "direct" => pc[c] \in {"trying", "probing"}
  BY DEF Submitting
<1>7. LoneOf(c)'
  <2>1. \A m : LiveRecords(m)' = LiveRecords(m)
    BY <1>3 DEF LiveRecords
  <2>2. LoneOf(c)
    BY DEF LoneInv
  <2> QED
    BY <1>1, <1>2, <1>3, <1>4, <1>6, <2>1, <2>2 DEF LoneOf, Following
<1> QED
  BY <1>1, <1>2, <1>3, <1>5, <1>7, LoneElsewhere

(* A put of another state of the record in hand.                            *)
LEMMA KeepsLone ==
  ASSUME TypeOK, Sound, LoneInv, NEW c \in Callers, pc[c] \in {"asking", "importing"},
         NEW s \in States, Keeps(c, s), store' = store, contested' = contested
  PROVE  LoneInv'
<1> DEFINE r == [my[c].rec EXCEPT !.state = s]
<1>1. /\ pc'[c] = "putting" /\ Elsewhere(c)
      /\ my'[c].id = my[c].id /\ my'[c].rec = r /\ my'[c].after = my[c].after
      /\ my'[c].op = my[c].op /\ my'[c].src = my[c].src
  BY PutEffect DEF Keeps
<1>2. /\ my[c].rec \in Record /\ my[c].rec.backend # "direct" /\ Active(c)
      /\ my[c].after \in {"status", "poll"}
  BY WorkingType DEF Sound, ShapeOf, Working, Active, Ended, LoneInv, FitsOf
<1>3. r.backend = my[c].rec.backend /\ r.content = my[c].rec.content /\ r.link = my[c].rec.link
  BY <1>2 DEF Record
<1>4. Content(c)' = Content(c)
  BY <1>1 DEF Content, Lead
<1>5. ~Founding(c) /\ ~Founding(c)' /\ Following(c)
  BY <1>1, <1>2, <1>3 DEF Founding, Following, Working
<1>6. FitsOf(c) /\ LoneOf(c)
  BY DEF LoneInv
<1>7. FitsOf(c)'
  BY <1>1, <1>2, <1>3, <1>4, <1>5, <1>6 DEF FitsOf, Named, Working
<1>8. LoneOf(c)'
  BY <1>1, <1>2, <1>4, <1>5, <1>6 DEF LoneOf, Following, Working
<1> QED
  BY <1>1, <1>2, <1>4, <1>7, <1>8, LoneElsewhere

(* What a save finds in the store, and what it leaves there.                *)
LEMMA SaveEffect ==
  ASSUME TypeOK, Sound, LockInv, LoneInv, NEW c \in Callers, Saves(c)
  PROVE  /\ pc[c] = "putting" /\ Active(c) /\ contested' = contested
         /\ my[c].id \in Callers /\ my[c].rec # None /\ Content(c) \in Contents
         /\ my[c].rec.content = Content(c) /\ Named(my[c].rec)
         /\ store'[my[c].id] = my[c].rec
         /\ \A i \in Callers : i # my[c].id => store'[i] = store[i]
         /\ Founding(c) => my[c].id = c /\ store[c] = None
         /\ Following(c) => store[my[c].id] # None
         /\ store[my[c].id] # None => store[my[c].id].content = Content(c)
<1>1. /\ pc[c] = "putting" /\ contested' = contested
      /\ store' = [store EXCEPT ![my[c].id] = my[c].rec]
  BY DEF Saves, Inside, LockInv, historyVars
<1>2. FitsOf(c) /\ KnownOf(c) /\ ShapeOf(c)
  BY DEF LoneInv, Sound
<1>3. /\ store'[my[c].id] = my[c].rec
      /\ \A i \in Callers : i # my[c].id => store'[i] = store[i]
  BY <1>1, SaveKeeps
<1>4. my[c].id \in Callers /\ my[c].rec \in Record /\ my[c].rec # None
  BY <1>1, WorkingType, NoneAssumption DEF Working
<1>5. my[c].rec.content = Content(c) /\ Named(my[c].rec)
  BY <1>1, <1>2 DEF FitsOf, Working
<1>6. Content(c) \in Contents
  BY <1>4, <1>5 DEF Record
<1>7. Founding(c) => my[c].id = c /\ store[c] = None
  BY <1>1, <1>2 DEF FitsOf, KnownOf, ShapeOf, Founding, Owning, Working
<1>8. store[my[c].id] # None => store[my[c].id].content = Content(c)
  BY <1>1, <1>2, <1>5 DEF KnownOf, SameTorrent, Working
<1> QED
  BY <1>1, <1>2, <1>3, <1>4, <1>5, <1>6, <1>7, <1>8 DEF FitsOf, Active, Ended

(* A save keeps the live records of other contents, and leaves one of its   *)
(* own at most: its own.                                                    *)
LEMMA SaveLive ==
  ASSUME TypeOK, Sound, LockInv, LoneInv, NEW c \in Callers, Saves(c)
  PROVE  /\ \A m : m # Content(c) => LiveRecords(m)' = LiveRecords(m)
         /\ Content(c) \notin contested =>
              \/ LiveRecords(Content(c)) \subseteq {my[c].id}
              \/ my[c].rec.state # "live" /\ Founding(c)
<1> DEFINE i == my[c].id
<1>1. /\ i \in Callers /\ my[c].rec # None /\ my[c].rec.content = Content(c)
      /\ store'[i] = my[c].rec /\ \A j \in Callers : j # i => store'[j] = store[j]
      /\ store[i] # None => store[i].content = Content(c)
      /\ Active(c) /\ pc[c] = "putting" /\ Content(c) \in Contents
      /\ Following(c) => store[i] # None
  BY SaveEffect
<1>2. ASSUME NEW m, m # Content(c) PROVE LiveRecords(m)' = LiveRecords(m)
  <2>1. ASSUME NEW j \in Callers PROVE j \in LiveRecords(m)' <=> j \in LiveRecords(m)
    <3>1. CASE j = i
      BY <1>1, <1>2, <3>1 DEF LiveRecords
    <3>2. CASE j # i
      BY <1>1, <3>2 DEF LiveRecords
    <3> QED
      BY <3>1, <3>2
  <2> QED
    BY <2>1 DEF LiveRecords
<1>3. ASSUME Content(c) \notin contested
      PROVE  \/ LiveRecords(Content(c)) \subseteq {i}
             \/ my[c].rec.state # "live" /\ Founding(c)
  <2>1. LoneOf(c) /\ ShapeOf(c)
    BY DEF LoneInv, Sound
  <2>2. CASE Following(c)
    <3>1. i \in LiveRecords(Content(c))
      BY <1>1, <1>3, <2>1, <2>2 DEF LoneOf, LiveRecords
    <3> QED
      BY <1>1, <1>3, <3>1 DEF LoneInv, LiveOnce
  <2>3. CASE Founding(c) /\ my[c].rec.backend # "direct"
    BY <1>1, <1>3, <2>1, <2>3 DEF LoneOf
  <2>4. CASE Founding(c) /\ my[c].rec.backend = "direct"
    BY <1>1, <2>1, <2>4 DEF ShapeOf
  <2> QED
    BY <1>1, <2>2, <2>3, <2>4 DEF Following, Working
<1> QED
  BY <1>2, <1>3

(* A save keeps the invariant.                                              *)
LEMMA SavesLone ==
  ASSUME TypeOK, Sound, LockInv, LoneInv, NEW c \in Callers, Saves(c)
  PROVE  LoneInv'
<1> DEFINE i == my[c].id
<1>0. PICK m : m = Content(c)
  OBVIOUS
<1>1. /\ pc[c] = "putting" /\ Active(c) /\ contested' = contested
      /\ i \in Callers /\ my[c].rec # None /\ m \in Contents
      /\ my[c].rec.content = m /\ Named(my[c].rec)
      /\ store'[i] = my[c].rec /\ \A j \in Callers : j # i => store'[j] = store[j]
      /\ Founding(c) => i = c /\ store[c] = None
      /\ Following(c) => store[i] # None
      /\ store[i] # None => store[i].content = m
  BY <1>0, SaveEffect
<1>2. /\ \A n : n # m => LiveRecords(n)' = LiveRecords(n)
      /\ m \notin contested =>
           LiveRecords(m) \subseteq {i} \/ (my[c].rec.state # "live" /\ Founding(c))
  BY <1>0, SaveLive
<1>3. AfterPut(c) /\ FollowsPut(c) /\ Elsewhere(c)
  BY AfterPutEffect DEF Saves, FollowsPut, Stops, Tries
<1>4. FitsOf(c) /\ LoneOf(c) /\ ShapeOf(c) /\ KnownOf(c)
  BY DEF LoneInv, Sound
<1>5. NamesFit'
  BY <1>1 DEF LoneInv, NamesFit, Named
<1>6. m \notin contested => LiveRecords(m)' \subseteq LiveRecords(m) \cup {i}
  BY <1>1 DEF LiveRecords
<1>7. LiveOnce'
  <2> SUFFICES ASSUME NEW n \in Contents \ contested, NEW j \in LiveRecords(n)',
                      NEW k \in LiveRecords(n)'
               PROVE  j = k
    BY <1>1 DEF LiveOnce
  <2>1. CASE n # m
    BY <1>2, <2>1 DEF LoneInv, LiveOnce
  <2>2. CASE n = m /\ LiveRecords(m) \subseteq {i}
    BY <1>6, <2>2
  <2>3. CASE n = m /\ my[c].rec.state # "live"
    <3>1. i \notin LiveRecords(m)'
      BY <1>1, <2>3 DEF LiveRecords
    <3> QED
      BY <1>6, <2>3, <3>1 DEF LoneInv, LiveOnce
  <2> QED
    BY <1>2, <2>1, <2>2, <2>3
<1>8. Active(c)' => Content(c)' = m
  <2>1. CASE Stops(c)
    BY <2>1 DEF Stops, Active, Ended
  <2>2. CASE Tries(c)
    BY <1>0, <2>2, ContentStays DEF Tries
  <2>3. CASE /\ my[c].after \in {"first", "poll"}
             /\ my'[c].op = my[c].op /\ my'[c].src = my[c].src
    <3>1. my[c].op # "status"
      BY <1>1, <1>4, <2>3 DEF FitsOf, Working
    <3> QED
      BY <1>0, <2>3, <3>1, ContentStays
  <2> QED
    BY <1>3, <2>1, <2>2, <2>3 DEF FollowsPut
<1>9. FitsOf(c)' /\ LoneOf(c)'
  <2>1. CASE Stops(c)
    BY <2>1 DEF Stops, FitsOf, LoneOf, Founding, Following, Working, Active, Ended
  <2>2. CASE Tries(c) /\ my[c].after = "status"
    <3>1. FitsOf(c)'
      BY <2>2 DEF Tries, FitsOf, Founding, Following, Working
    <3>2. my[c].rec.state = "missing"
      BY <1>3, <2>2 DEF AfterPut, Resolved, Tries, Ends, To, TypeOK
    <3>3. ~Founding(c)
      BY <1>4, <2>2 DEF Founding, ShapeOf
    <3>4. m \notin contested => LiveRecords(m)' = {}
      <4>1. i \notin LiveRecords(m)'
        BY <1>1, <3>2 DEF LiveRecords
      <4> QED
        BY <1>2, <1>6, <3>3, <4>1
    <3>5. Content(c)' = m
      BY <1>0, <2>2, ContentStays DEF Tries
    <3>6. (Content(c) \notin contested)' => (LiveRecords(Content(c)) = {})'
      BY <1>0, <1>1, <3>4, <3>5 DEF LiveRecords
    <3>7. LoneOf(c)'
      BY <2>2, <3>6 DEF LoneOf, Tries, Founding, Following, Working
    <3> QED
      BY <3>1, <3>7
  <2>3. CASE /\ my[c].after \in {"first", "poll"}
             /\ my[c].after = "poll" => my[c].rec.state = "live"
             /\ pc'[c] = "asking" /\ Elsewhere(c)
             /\ my'[c].id = my[c].id /\ my'[c].rec = my[c].rec /\ my'[c].after = "poll"
             /\ my'[c].op = my[c].op /\ my'[c].src = my[c].src
    <3>1. my[c].op # "status" /\ my[c].rec.state = "live" /\ Active(c)'
      BY <1>1, <1>4, <2>3 DEF FitsOf, Working, Active, Ended
    <3>2. FitsOf(c)'
      BY <1>0, <1>1, <1>8, <2>3, <3>1 DEF FitsOf, Named, Founding, Following, Working
    <3>3. LoneOf(c)'
      BY <1>1, <2>3, <3>1 DEF LoneOf, Founding, Following, Working
    <3> QED
      BY <3>2, <3>3
  <2> QED
    BY <1>3, <2>1, <2>2, <2>3 DEF FollowsPut
<1>10. ASSUME NEW d \in Callers, d # c
       PROVE  /\ pc'[d] = pc[d] /\ my'[d] = my[d] /\ Active(d)' = Active(d)
              /\ Active(d) => Content(d)' = Content(d)
              /\ FitsOf(d)' /\ LoneOf(d)'
  <2>1. pc'[d] = pc[d] /\ my'[d] = my[d] /\ Active(d)' = Active(d)
    BY <1>3, <1>10 DEF Elsewhere, Active, Ended
  <2>2. FitsOf(d) /\ LoneOf(d) /\ ShapeOf(d) /\ KnownOf(d)
    BY DEF LoneInv, Sound
  <2>3. pc[d] \in Working \cup {"get"} => my[d].id \in Callers
    BY <2>2 DEF TypeOK, Locals, ShapeOf
  <2>4. pc[d] = "get" \/ Following(d) => store[my[d].id] # None
    BY <2>2 DEF FitsOf, KnownOf
  <2>5. \A j \in Callers : store[j] # None =>
          store'[j] # None /\ store'[j].content = store[j].content
    BY <1>1
  <2>6. Active(d) /\ my[d].op = "status" => pc[d] = "get" \/ Following(d)
    BY <2>2 DEF Following, Founding, FitsOf, ShapeOf, Active, Ended, Submitting, Working, TypeOK, PcValues
  <2>7. Active(d) => Content(d)' = Content(d)
    BY <2>1, <2>3, <2>4, <2>5, <2>6 DEF Content, Lead, Following
  <2>8. Founding(d)' = Founding(d) /\ Following(d)' = Following(d)
    BY <2>1 DEF Founding, Following
  <2>9. Founding(d) => store'[d] = None
    <3>1. Founding(d) => store[d] = None
      BY <2>2 DEF FitsOf
    <3>2. d = i => store[d] # None
      BY <1>1, <1>10 DEF Following, Working
    <3> QED
      BY <1>1, <3>1, <3>2
  <2>10. pc[d] \in Working \cup {"get"} => Active(d)
    BY DEF Active, Ended, Working
  <2>11. FitsOf(d)'
    <3>1. pc[d] = "get" => store'[my[d].id].content = Content(d)'
      BY <2>2, <2>3, <2>4, <2>5, <2>7, <2>10 DEF FitsOf
    <3>2. Following(d) => store'[my[d].id] # None
      BY <2>3, <2>4, <2>5 DEF Following
    <3> QED
      BY <2>1, <2>2, <2>7, <2>8, <2>9, <2>10, <3>1, <3>2 DEF FitsOf, Named
  <2>12. LoneOf(d)'
    <3> SUFFICES ASSUME Active(d), Content(d) \notin contested
                 PROVE  LoneOf(d)'
      BY <1>1, <2>1, <2>7 DEF LoneOf
    <3>1. Content(d) # m
      BY <1>0, <1>1, <1>10 DEF LoneInv, Alone
    <3>2. LiveRecords(Content(d))' = LiveRecords(Content(d))
      BY <1>2, <2>7, <3>1 DEF LiveRecords
    <3>3. pc[d] = "get" \/ Following(d) => my[d].id # i
      <4>1. pc[d] = "get" \/ Following(d) => store[my[d].id].content = Content(d)
        BY <2>2, <2>4 DEF FitsOf, KnownOf, SameTorrent, Following
      <4> QED
        BY <1>1, <2>4, <3>1, <4>1
    <3>4. pc[d] = "get" \/ Following(d) => store'[my[d].id] = store[my[d].id]
      BY <1>1, <2>3, <3>3 DEF Following
    <3> QED
      BY <1>1, <2>1, <2>2, <2>7, <2>8, <3>2, <3>4 DEF LoneOf
  <2> QED
    BY <2>1, <2>7, <2>11, <2>12
<1>11. Alone'
  <2> SUFFICES ASSUME NEW d \in Callers, NEW e \in Callers, Active(d)', Active(e)', d # e,
                      Content(d)' = Content(e)'
               PROVE  Content(d)' \in contested'
    BY DEF Alone
  <2>1. /\ Active(d) /\ Content(d)' = Content(d)
        /\ Active(e) /\ Content(e)' = Content(e)
    BY <1>0, <1>1, <1>8, <1>10
  <2> QED
    BY <1>1, <2>1 DEF LoneInv, Alone
<1> QED
  BY <1>5, <1>7, <1>9, <1>10, <1>11 DEF LoneInv

(* An activation that begins marks the content it shares.                   *)
LEMMA EntersLone ==
  ASSUME TypeOK, Sound, LoneInv, NEW c \in Callers, NEW m, Enters(c, m), Elsewhere(c),
         Content(c)' = m, pc'[c] = "find" \/ (pc'[c] = "get" /\ my'[c].op = "status")
  PROVE  LoneInv'
<1>1. /\ store' = store /\ contested \subseteq contested' /\ ~Active(c)
      /\ (\E d \in Callers : Active(d) /\ Content(d) = m) => m \in contested'
  BY DEF Enters, storeVars, Active
<1>2. \A n : LiveRecords(n)' = LiveRecords(n)
  BY <1>1 DEF LiveRecords
<1>3. NamesFit' /\ LiveOnce'
  BY <1>1, <1>2 DEF LoneInv, NamesFit, Named, LiveOnce
<1>4. ASSUME NEW d \in Callers, d # c
      PROVE  /\ pc'[d] = pc[d] /\ my'[d] = my[d] /\ Content(d)' = Content(d)
             /\ Active(d)' = Active(d)
  BY <1>1, <1>4 DEF Elsewhere, Content, Lead, Active, Ended
<1>5. ASSUME NEW d \in Callers, d # c PROVE FitsOf(d)' /\ LoneOf(d)'
  <2>1. FitsOf(d) /\ LoneOf(d)
    BY DEF LoneInv
  <2>2. Founding(d)' = Founding(d) /\ Following(d)' = Following(d)
    BY <1>4, <1>5 DEF Founding, Following
  <2>3. FitsOf(d)'
    BY <1>1, <1>4, <1>5, <2>1, <2>2 DEF FitsOf, Named
  <2>4. (LiveRecords(Content(d)))' = LiveRecords(Content(d))
    BY <1>1, <1>4, <1>5 DEF LiveRecords
  <2>5. LoneOf(d)'
    BY <1>1, <1>4, <1>5, <2>1, <2>2, <2>4 DEF LoneOf
  <2> QED
    BY <2>3, <2>5
<1>6. FitsOf(c)' /\ LoneOf(c)'
  <2>1. pc'[c] = "get" => store'[my'[c].id].content = m
    BY DEF Content
  <2> QED
    BY <2>1 DEF FitsOf, LoneOf, Founding, Following, Working
<1>7. Alone'
  <2> SUFFICES ASSUME NEW d \in Callers, NEW e \in Callers, Active(d)', Active(e)', d # e,
                      Content(d)' = Content(e)'
               PROVE  Content(d)' \in contested'
    BY DEF Alone
  <2>1. CASE d # c /\ e # c
    BY <1>1, <1>4, <2>1 DEF LoneInv, Alone
  <2>2. CASE d = c
    BY <1>1, <1>4, <2>2
  <2>3. CASE e = c
    BY <1>1, <1>4, <2>3
  <2> QED
    BY <2>1, <2>2, <2>3
<1> QED
  BY <1>3, <1>5, <1>6, <1>7 DEF LoneInv

(* A find goes on with the live record of the content, or knows there is     *)
(* none at a backend.                                                       *)
LEMMA FindLone ==
  ASSUME TypeOK, Sound, LoneInv, NEW c \in Callers, Find(c)
  PROVE  LoneInv'
<1>1. /\ pc[c] = "find" /\ Active(c) /\ my[c].op # "status" /\ my[c] \in Locals
      /\ store' = store /\ contested' = contested
  BY DEF Find, Active, Ended, storeVars, historyVars, Sound, ShapeOf, TypeOK
<1>2. Content(c) = LeadsTo[my[c].src].content /\ my[c].src # None
  BY <1>1 DEF Content, Lead, Sound, ShapeOf
<1>3. ASSUME NEW i \in Found(c, "live"), To(c, "get"), my' = [my EXCEPT ![c].id = i]
      PROVE  LoneInv'
  <2>1. i \in Callers /\ store[i] # None /\ store[i].state = "live" /\ Matches(c, store[i])
    BY DEF Found, Matches
  <2>2. store[i].content = Content(c)
    BY <1>2, <2>1 DEF Matches, LoneInv, NamesFit, Named
  <2>3. my' = [my EXCEPT ![c] = [my[c] EXCEPT !.id = i]]
    BY <1>3
  <2>4. /\ pc'[c] = "get" /\ my'[c].id = i /\ Elsewhere(c)
        /\ my'[c].op = my[c].op /\ my'[c].src = my[c].src
    BY <1>1, <1>3, <2>3 DEF To, TypeOK, Elsewhere, Locals
  <2>5. Content(c)' = Content(c)
    BY <1>1, <2>4, ContentStays
  <2>6. FitsOf(c)'
    BY <1>1, <2>2, <2>4, <2>5 DEF FitsOf, Founding, Following, Working
  <2>7. LoneOf(c)'
    BY <1>1, <2>1, <2>4 DEF LoneOf, Founding, Following, Working
  <2> QED
    BY <1>1, <2>4, <2>5, <2>6, <2>7, LoneElsewhere
<1>4. CASE Ends(c, "returned")
  BY <1>1, <1>4, EndsEffect, StopsLone
<1>5. CASE Found(c, "live") = {} /\ Fresh(c)
  <2>1. CASE Stops(c)
    BY <1>1, <2>1, StopsLone
  <2>2. CASE Tries(c)
    <3>1. pc'[c] = "trying" => my[c].stage # "link"
      BY <1>1, <1>5 DEF Fresh, Ends, To, TypeOK
    <3>2. my[c].stage # "link" => LiveRecords(Content(c)) = {}
      BY <1>5 DEF Found, Matches, LiveRecords, Sound, DirectIsDone
    <3> QED
      BY <1>1, <2>2, <3>1, <3>2, TriesLone
  <2> QED
    BY <1>5, <2>1, <2>2, FreshEffect
<1> QED
  BY <1>3, <1>4, <1>5 DEF Find

(* A status asks about a record that is live.                               *)
LEMMA GetLone ==
  ASSUME TypeOK, Sound, LoneInv, NEW c \in Callers, Get(c)
  PROVE  LoneInv'
<1>1. /\ pc[c] = "get" /\ Active(c) /\ my[c] \in Locals /\ FitsOf(c) /\ LoneOf(c)
      /\ store' = store /\ contested' = contested
  BY DEF Get, Active, Ended, storeVars, historyVars, LoneInv, TypeOK
<1>2. store[my[c].id] # None /\ store[my[c].id].content = Content(c)
  BY <1>1 DEF Sound, KnownOf, FitsOf
<1>3. my[c].id \in Callers
  BY <1>1 DEF Sound, ShapeOf, Locals
<1>4. CASE store[my[c].id].state # "live" /\ Resolved(c, store[my[c].id])
  <2>1. CASE Stops(c)
    BY <1>1, <2>1, StopsLone
  <2>2. CASE Tries(c)
    <3>1. Content(c) \in contested
      BY <1>1, <1>4, <2>2 DEF LoneOf, Tries
    <3> QED
      BY <1>1, <2>2, <3>1, TriesLone
  <2> QED
    BY <1>4, <2>1, <2>2, ResolvedEffect
<1>5. CASE /\ store[my[c].id].state = "live" /\ To(c, "asking")
           /\ my' = [my EXCEPT ![c].rec = store[my[c].id], ![c].after = "status"]
  <2>1. my' = [my EXCEPT ![c] = [my[c] EXCEPT !.rec = store[my[c].id], !.after = "status"]]
    BY <1>5
  <2>2. /\ pc'[c] = "asking" /\ my'[c].rec = store[my[c].id] /\ my'[c].after = "status"
        /\ my'[c].id = my[c].id /\ my'[c].op = my[c].op /\ my'[c].src = my[c].src
        /\ Elsewhere(c)
    BY <1>1, <1>5, <2>1 DEF To, TypeOK, Elsewhere, Locals
  <2>3. Content(c)' = Content(c)
    BY <1>1, <2>2 DEF Content, Lead
  <2>4. Named(store[my[c].id])
    BY <1>2, <1>3 DEF LoneInv, NamesFit
  <2>5. FitsOf(c)'
    BY <1>1, <1>2, <2>2, <2>3, <2>4 DEF FitsOf, Named, Founding, Following, Working
  <2>6. LoneOf(c)'
    BY <1>1, <1>5, <2>2 DEF LoneOf, Founding, Following, Working
  <2> QED
    BY <1>1, <2>2, <2>3, <2>5, <2>6, LoneElsewhere
<1> QED
  BY <1>4, <1>5 DEF Get

(* The record of a submission names what its link leads to.                 *)
LEMMA NewRecordFits ==
  ASSUME TypeOK, Sound, NEW c \in Callers, pc[c] \in {"trying", "probing"}
  PROVE  /\ NewRecord(c) \in Record /\ NewRecord(c).content = Content(c)
         /\ NewRecord(c).state = "live" /\ Named(NewRecord(c))
<1>1. NewRecord(c) \in Record /\ my[c].op = "submit"
  BY NewRecordType DEF Submitting, Sound, ShapeOf
<1>2. NewRecord(c).link # None => NewRecord(c).link = my[c].src
  BY DEF NewRecord
<1> QED
  BY <1>1, <1>2 DEF NewRecord, Named, Content, Lead

(* Every step keeps it.                                                     *)
LEMMA LoneStep ==
  ASSUME TypeOK, Sound, LockInv, LoneInv, [Next]_vars
  PROVE  LoneInv'
<1> USE DEF storeVars, callVars, worldVars, historyVars
<1>1. ASSUME NEW c \in Callers, NEW o \in {"submit", "check"}, NEW s \in Sources, Calls(c, o, s)
      PROVE  LoneInv'
  <2> DEFINE g == IF LeadsTo[s].via = "magnet" THEN "torrent" ELSE "link"
  <2>1. my' = [my EXCEPT ![c] = [my[c] EXCEPT !.op = o, !.src = s, !.stage = g]]
    BY <1>1 DEF Calls
  <2>2. /\ pc'[c] = "find" /\ my'[c].op = o /\ my'[c].src = s /\ Elsewhere(c)
        /\ Enters(c, LeadsTo[s].content)
    BY <1>1, <2>1 DEF Calls, To, TypeOK, Elsewhere, Locals
  <2>3. Content(c)' = LeadsTo[s].content
    BY <2>2 DEF Content, Lead
  <2> QED
    BY <2>2, <2>3, EntersLone
<1>2. ASSUME NEW c \in Callers, NEW i \in Callers, Status(c, i) PROVE LoneInv'
  <2>1. my' = [my EXCEPT ![c] = [my[c] EXCEPT !.op = "status", !.id = i]]
    BY <1>2 DEF Status
  <2>2. /\ pc'[c] = "get" /\ my'[c].op = "status" /\ my'[c].id = i /\ Elsewhere(c)
        /\ Enters(c, store[i].content) /\ store' = store
    BY <1>2, <2>1 DEF Status, Enters, To, TypeOK, Elsewhere, Locals
  <2>3. Content(c)' = store[i].content
    BY <2>2 DEF Content
  <2> QED
    BY <2>2, <2>3, EntersLone
<1>3. ASSUME NEW c \in Callers, Find(c) \/ Get(c) PROVE LoneInv'
  BY <1>3, FindLone, GetLone
<1>4. ASSUME NEW c \in Callers, Fails(c), UNCHANGED <<store, contested>> PROVE LoneInv'
  BY <1>4, FailsEffect, StopsLone
<1>5. ASSUME NEW c \in Callers, Fetch(c) PROVE LoneInv'
  <2>1. CASE FetchFile(c)
    <3> DEFINE r == [backend |-> "direct", content |-> Content(c), link |-> my[c].src,
                     state |-> "completed"]
    <3>1. pc[c] = "fetching" /\ Put(c, c, r, "poll") /\ UNCHANGED <<store, contested>>
      BY <2>1 DEF FetchFile
    <3>2. my[c].src \in Sources /\ Content(c) \in Contents /\ my[c].op = "submit"
      BY <3>1, NewRecordType DEF Submitting, Sound, ShapeOf
    <3>3. r \in Record /\ Named(r) /\ r.content = Content(c) /\ r.backend = "direct"
      BY <3>2 DEF Record, Named, Content, Lead
    <3> HIDE DEF r
    <3> QED
      BY <3>1, <3>3, FirstPutLone DEF Submitting, Afters
  <2>2. CASE FetchTorrent(c)
    <3>1. my' = [my EXCEPT ![c] = [my[c] EXCEPT !.stage = "torrent"]]
      BY <2>2 DEF FetchTorrent
    <3>2. /\ pc[c] = "fetching" /\ pc'[c] = "find" /\ Elsewhere(c)
          /\ my'[c].op = my[c].op /\ my'[c].src = my[c].src
          /\ UNCHANGED <<store, contested>>
      BY <2>2, <3>1 DEF FetchTorrent, To, TypeOK, Elsewhere, Locals
    <3>3. my[c].op # "status" /\ Active(c)
      BY <3>2 DEF Sound, ShapeOf, Submitting, Active, Ended
    <3>4. Content(c)' = Content(c)
      BY <3>2, <3>3, ContentStays
    <3>5. FitsOf(c)' /\ LoneOf(c)'
      BY <3>2 DEF FitsOf, LoneOf, Founding, Following, Working
    <3> QED
      BY <3>2, <3>3, <3>4, <3>5, LoneElsewhere
  <2>3. CASE FetchFails(c)
    BY <1>4, <2>3 DEF FetchFails
  <2> QED
    BY <1>5, <2>1, <2>2, <2>3 DEF Fetch
<1>6. ASSUME NEW c \in Callers, pc[c] \in {"trying", "probing"}, NEW why \in {"first", "uncertain"},
             Put(c, c, NewRecord(c), why), UNCHANGED <<store, contested>>
      PROVE  LoneInv'
  BY <1>6, NewRecordFits, FirstPutLone DEF Submitting, Afters
<1>7. ASSUME NEW c \in Callers, pc[c] \in {"trying", "probing"}, NextBackend(c),
             UNCHANGED <<store, contested>>
      PROVE  LoneInv'
  <2>1. my[c].op = "submit" /\ Active(c) /\ LoneOf(c)
    BY <1>7 DEF Sound, ShapeOf, Submitting, Active, Ended, LoneInv
  <2>2. Content(c) \notin contested => LiveRecords(Content(c)) = {}
    BY <1>7, <2>1 DEF LoneOf
  <2> QED
    BY <1>7, <2>1, <2>2, NextBackendEffect, StopsLone, TriesLone
<1>8. ASSUME NEW c \in Callers, Active(c), Active(c)', my' = my, Elsewhere(c),
             UNCHANGED <<store, contested>>, FitsOf(c)', LoneOf(c)'
      PROVE  LoneInv'
  <2>1. Content(c)' = Content(c)
    BY <1>8 DEF Content, Lead
  <2> QED
    BY <1>8, <2>1, LoneElsewhere
<1>9. ASSUME NEW c \in Callers, Try(c) PROVE LoneInv'
  <2>1. CASE Accepted(c)
    BY <1>6, <2>1 DEF Accepted
  <2>2. CASE Refused(c)
    BY <1>4, <2>2 DEF Refused
  <2>3. CASE NotReached(c)
    BY <1>7, <2>3 DEF NotReached
  <2>4. CASE Interrupted(c)
    <3>1. /\ pc[c] = "trying" /\ pc'[c] = "probing" /\ my' = my /\ Elsewhere(c)
          /\ UNCHANGED <<store, contested>> /\ Active(c) /\ Active(c)'
      BY <2>4 DEF Interrupted, To, TypeOK, Elsewhere, Active, Ended
    <3>2. FitsOf(c)'
      BY <3>1 DEF FitsOf, Founding, Following, Working
    <3>3. (LiveRecords(Content(c)))' = LiveRecords(Content(c)) /\ Content(c)' = Content(c)
      BY <3>1 DEF LiveRecords, Content, Lead
    <3>4. LoneOf(c)
      BY DEF LoneInv
    <3>5. LoneOf(c)'
      BY <3>1, <3>3, <3>4 DEF LoneOf, Founding, Following, Working
    <3> QED
      BY <1>8, <3>1, <3>2, <3>5
  <2> QED
    BY <1>9, <2>1, <2>2, <2>3, <2>4 DEF Try
<1>10. ASSUME NEW c \in Callers, Probed(c) PROVE LoneInv'
  BY <1>6, <1>7, <1>10 DEF Probed, ProbeFound, ProbeAbsent, ProbeFails, Handles, NoAnswer
<1>11. ASSUME NEW c \in Callers, Asked(c) PROVE LoneInv'
  <2>1. pc[c] = "asking" /\ UNCHANGED <<store, contested>>
    BY <1>11 DEF Asked, AskFails, AskGone, AskLive, Selects, Handles, NoAnswer
  <2>2. CASE Fails(c)
    BY <1>4, <2>1, <2>2
  <2>3. CASE \E s \in States : Keeps(c, s)
    BY <2>1, <2>3, KeepsLone
  <2>4. CASE To(c, "importing") /\ my' = my
    <3>1. pc'[c] = "importing" /\ Elsewhere(c) /\ Active(c) /\ Active(c)'
      BY <2>1, <2>4 DEF To, TypeOK, Elsewhere, Active, Ended
    <3>2. FitsOf(c) /\ LoneOf(c) /\ Content(c)' = Content(c)
      BY <2>1, <2>4 DEF LoneInv, Content, Lead
    <3>3. FitsOf(c)' /\ LoneOf(c)'
      BY <2>1, <2>4, <3>1, <3>2 DEF FitsOf, LoneOf, Named, Founding, Following, Working
    <3> QED
      BY <1>8, <2>1, <2>4, <3>1, <3>3
  <2> QED
    BY <1>11, <2>2, <2>3, <2>4 DEF Asked, AskFails, AskGone, AskLive, Selects, States
<1>12. ASSUME NEW c \in Callers, Imports(c) \/ ImportFails(c) PROVE LoneInv'
  BY <1>4, <1>12, KeepsLone DEF Imports, ImportFails, States
<1>13. ASSUME NEW c \in Callers, Saves(c) PROVE LoneInv'
  BY <1>13, SavesLone
<1>14. ASSUME NEW c \in Callers, PutFails(c) PROVE LoneInv'
  BY <1>4, <1>14 DEF PutFails
<1>15. CASE UNCHANGED <<store, pc, my, contested>>
  BY <1>15 DEF LoneInv, NamesFit, Named, Alone, LiveOnce, LiveRecords, FitsOf, LoneOf,
               Founding, Following, Content, Lead, Active, Ended
<1>16. CASE Restart
  <2>1. /\ store' = store /\ contested' = contested
        /\ \A c \in Callers : pc'[c] \in {"idle", "lost"}
    BY <1>16 DEF Restart
  <2>2. \A c \in Callers : ~Active(c)' /\ FitsOf(c)' /\ LoneOf(c)'
    BY <2>1 DEF Active, FitsOf, LoneOf, Founding, Following, Working
  <2>3. Alone'
    BY <2>2 DEF Alone
  <2> QED
    BY <2>1, <2>2, <2>3 DEF LoneInv, NamesFit, Named, LiveOnce, LiveRecords
<1> QED
  BY <1>1, <1>2, <1>3, <1>5, <1>9, <1>10, <1>11, <1>12, <1>13, <1>14, <1>15, <1>16
     DEF Next, Step, Submit, CheckSubmit, Answers, Loads, LateArrives, Progress, RemoveTorrent, vars

LEMMA LoneStart == Init => LoneInv
BY DEF Init, LoneInv, NamesFit, Alone, LiveOnce, LiveRecords, FitsOf, LoneOf,
       Founding, Following, Working, Active

(* Every behaviour keeps it.                                                *)
LEMMA LoneCorrect == Spec => []LoneInv
<1>1. IInv /\ LoneInv /\ [Next]_vars => LoneInv'
  BY LoneStep DEF IInv
<1> QED
  BY <1>1, LoneStart, InvCorrect, PTL DEF Spec

(* A content that one activation at a time works on never has two live      *)
(* records, by whatever sources it is named (acquire.ts:477-478).           *)
THEOREM LoneSubmitsShareOne == Spec => []LoneSubmitsShare
<1>1. LoneInv => LoneSubmitsShare
  <2> SUFFICES ASSUME LoneInv, NEW m \in Contents \ contested
               PROVE  Cardinality(LiveRecords(m)) <= 1
    BY DEF LoneSubmitsShare
  <2>1. PICK S : S = LiveRecords(m)
    OBVIOUS
  <2>2. \A i, j \in S : i = j
    BY <2>1 DEF LoneInv, LiveOnce
  <2>3. CASE S = {}
    BY <2>1, <2>3, FS_EmptySet
  <2>4. CASE S # {}
    <3>1. PICK i : S = {i}
      BY <2>2, <2>4
    <3> QED
      BY <2>1, <3>1, FS_Singleton
  <2> QED
    BY <2>3, <2>4
<1> QED
  BY <1>1, LoneCorrect, PTL

(* Worked on by one activation at a time, a record that has ended is not    *)
(* written again (types.ts:26).                                             *)
THEOREM LoneTerminalsStay == Spec => LoneTerminalStays
<1> DEFINE Stay == \A i \in Callers :
             store[i] # None /\ store[i].state # "live" /\ store[i].content \notin contested' =>
               store'[i] = store[i]
<1>1. IInv /\ LoneInv /\ [Next]_vars => Stay
  <2> SUFFICES ASSUME IInv, LoneInv, [Next]_vars PROVE Stay
    OBVIOUS
  <2>1. CASE store' = store
    BY <2>1
  <2>2. ASSUME NEW c \in Callers, Saves(c) PROVE Stay
    <3> SUFFICES ASSUME NEW i \in Callers, store[i] # None, store[i].state # "live",
                        store[i].content \notin contested'
                 PROVE  store'[i] = store[i]
      OBVIOUS
    <3>1. /\ contested' = contested /\ Active(c) /\ pc[c] = "putting" /\ LoneOf(c)
          /\ \A j \in Callers : j # my[c].id => store'[j] = store[j]
          /\ Founding(c) => my[c].id = c /\ store[c] = None
          /\ store[my[c].id] # None => store[my[c].id].content = Content(c)
      BY <2>2, SaveEffect DEF IInv, LoneInv
    <3>2. i # my[c].id
      BY <3>1 DEF LoneOf, Following, Working
    <3> QED
      BY <3>1, <3>2
  <2> QED
    BY <2>1, <2>2, ZenonT(60) DEF Next, Step, Submit, CheckSubmit, Calls, Status, Enters, Find, Get,
       Fetch, FetchFile, FetchTorrent, FetchFails, Try, Accepted, Refused, NotReached, Interrupted,
       Answers, Probed, ProbeFound, ProbeAbsent, ProbeFails, Handles, NoAnswer,
       Asked, AskFails, AskGone, AskLive, Selects, Imports, ImportFails, Loads, PutFails,
       LateArrives, Progress, RemoveTorrent, Restart, vars, storeVars
<1>2. IInv /\ LoneInv /\ [Next]_vars => [Stay]_vars
  BY <1>1
<1> QED
  BY <1>2, InvCorrect, LoneCorrect, PTL DEF Spec, LoneTerminalStays

-----------------------------------------------------------------------------
(* The torrent clients: what they answer for good is true.                  *)

Asks == [op : {"none", "submit", "probe", "status"}, stage : {"login", "request", "done"},
         attempt : {0, 1}, since : Nat, tag : BOOLEAN, handle : BOOLEAN, queued : BOOLEAN]

(* A qBittorrent call that goes on behind a new login has the session of    *)
(* that login, and what it submitted without a hash wears its tag.          *)
ClientInv ==
  /\ setup \in Setups /\ epoch \in Nat
  /\ item \in Items \cup {Absent}
  /\ client \in [loggedIn : BOOLEAN, session : Int] /\ client.session <= epoch
  /\ ask \in Asks /\ ask.since <= epoch
  /\ ask.stage # "done" => ~ ask.queued
  /\ ask.op = "status" => ask.handle
  /\ Qb /\ ~ setup.hash /\ ask.handle /\ Holds => ask.tag
  /\ Qb /\ setup.guarded /\ Fits /\ ask.attempt = 1 /\ ask.stage = "request" => ask.since <= client.session
  /\ ClientsAnswerTruly

(* What a backend calls complete has nothing left.                          *)
LEMMA CompleteIsAll ==
  ASSUME NEW i \in Items
  PROVE  IF Qb THEN QbState(i) = "completed" => i.all ELSE TmState(i) = "completed" => i.all
<1>1. CASE Qb
  <2>1. i.state \in COMPLETE_STATES => i.all
    BY <1>1 DEF Items, COMPLETE_STATES
  <2>2. QED BY <1>1, <2>1 DEF QbState
<1>2. CASE ~ Qb
  BY <1>2 DEF TmState
<1>3. QED BY <1>1, <1>2

LEMMA ClientStart == ClientInit => ClientInv
<1>1. SUFFICES ASSUME ClientInit PROVE ClientInv
  OBVIOUS
<1>2. setup \in Setups /\ epoch = 0 /\ answer = NoAnswer_
  BY <1>1 DEF ClientInit
<1>3. item \in Items \cup {Absent}
  <2>1. item \in {Absent, IF setup.software = "qbittorrent" THEN [state |-> "uploading", all |-> TRUE]
                                                          ELSE [state |-> "6", all |-> TRUE]}
    BY <1>1 DEF ClientInit
  <2>2. Qb => [state |-> "uploading", all |-> TRUE] \in Items
    BY DEF Items
  <2>3. ~ Qb => [state |-> "6", all |-> TRUE] \in Items
    BY DEF Items
  <2>4. QED BY <2>1, <2>2, <2>3 DEF Qb
<1>4. client = [loggedIn |-> FALSE, session |-> -1]
  BY <1>1 DEF ClientInit, NoSession
<1>5. ask = [op |-> "none", stage |-> "done", attempt |-> 0, since |-> 0,
             tag |-> FALSE, handle |-> FALSE, queued |-> FALSE]
  BY <1>1 DEF ClientInit
<1>6. client \in [loggedIn : BOOLEAN, session : Int] /\ client.session <= epoch
  BY <1>2, <1>4
<1>7. ask \in Asks /\ ask.since <= epoch /\ ask.op = "none" /\ ~ ask.handle /\ ~ ask.queued /\ ask.attempt = 0
  BY <1>2, <1>5 DEF Asks
<1>8. QED BY <1>2, <1>3, <1>6, <1>7 DEF ClientInv, ClientsAnswerTruly

(* A call that begins holds nothing of the last one against it.             *)
LEMMA CallStep == ASSUME ClientInv, NEW op \in {"submit", "probe", "status"}, CallClient(op) PROVE ClientInv'
<1>1. /\ ask.stage = "done" /\ (op = "status" => ask.handle)
      /\ setup' = setup /\ epoch' = epoch /\ item' = item /\ client' = client
  BY Zenon DEF CallClient
<1>2. ask' = [ask EXCEPT !.op = op, !.stage = IF Qb /\ ~ client.loggedIn THEN "login" ELSE "request",
                         !.attempt = 0, !.since = epoch, !.queued = FALSE]
  BY DEF CallClient
<1>3. /\ ask' \in Asks /\ ask'.since = epoch /\ ask'.attempt = 0 /\ ask'.op = op
      /\ ask'.stage # "done" /\ ~ ask'.queued /\ ask'.handle = ask.handle /\ ask'.tag = ask.tag
  BY <1>2 DEF ClientInv, Asks
<1>4. Items' = Items /\ Qb' = Qb /\ (Holds' <=> Holds)
  BY <1>1 DEF Items, Qb, Holds
<1>5. ClientsAnswerTruly'
  BY <1>3 DEF ClientsAnswerTruly
<1>6. ask'.since <= epoch' /\ epoch' \in Nat
  BY <1>1, <1>3 DEF ClientInv
<1>7. QED BY <1>1, <1>3, <1>4, <1>5, <1>6 DEF ClientInv

(* A step that ends the call with an answer the property says nothing of.   *)
LEMMA EndsQuietly ==
  ASSUME ClientInv, setup' = setup, epoch' = epoch, item' = item, client' = client,
         ask.stage # "done", ask' = [ask EXCEPT !.stage = "done"],
         /\ answer' = Threw(TRUE) => ~ Fits \/ setup.banned \/ ~ setup.sound \/ epoch > ask.since
         /\ answer' = Says_("missing") => ~ Holds \/ (~ setup.hash /\ ask.op = "probe")
         /\ answer' = Says_("completed") => item.all
  PROVE  ClientInv'
<1>1. /\ ask' \in Asks /\ ask'.since = ask.since /\ ask'.op = ask.op /\ ask'.stage = "done"
      /\ ask'.queued = ask.queued /\ ask'.handle = ask.handle /\ ask'.tag = ask.tag
  BY DEF ClientInv, Asks
<1>2. ~ ask.queued
  BY DEF ClientInv
<1>3. ClientsAnswerTruly'
  BY <1>1, <1>2 DEF ClientsAnswerTruly, Fits, Holds, Threw, Says_
<1>4. QED BY <1>1, <1>3 DEF ClientInv, Qb, Fits, Holds, Items

LEMMA LoginStep == ASSUME ClientInv, LoginSkipped \/ LoginAnswered PROVE ClientInv'
<1>1. ask.stage = "login" /\ setup' = setup /\ epoch' = epoch /\ item' = item /\ answer' \in {answer, Threw(TRUE)}
  BY DEF LoginSkipped, LoginAnswered, Answers_
<1>2. ASSUME ask' = [ask EXCEPT !.stage = "request"],
             client' \in [loggedIn : BOOLEAN, session : Int], client'.session <= epoch,
             Fits /\ setup.guarded => client'.session = epoch
      PROVE  ClientInv'
  <2>1. /\ ask' \in Asks /\ ask'.since = ask.since /\ ask'.op = ask.op /\ ask'.stage = "request"
        /\ ask'.queued = ask.queued /\ ask'.handle = ask.handle /\ ask'.tag = ask.tag
    BY <1>2 DEF ClientInv, Asks
  <2>2. QED BY <1>1, <1>2, <2>1 DEF ClientInv, ClientsAnswerTruly, Qb, Fits, Holds, Items
<1>3. CASE LoginSkipped
  <2>1. setup.creds = "none" /\ ask' = [ask EXCEPT !.stage = "request"] /\ client' = [client EXCEPT !.loggedIn = TRUE]
    BY <1>3 DEF LoginSkipped
  <2>2. client' \in [loggedIn : BOOLEAN, session : Int] /\ client'.session <= epoch
    BY <2>1 DEF ClientInv
  <2>3. ~ (Fits /\ setup.guarded)
    BY <2>1 DEF Fits
  <2>4. QED BY <1>2, <2>1, <2>2, <2>3
<1>4. CASE LoginAnswered /\ Fits /\ ~ setup.banned
  <2>1. ask' = [ask EXCEPT !.stage = "request"] /\ client' = [loggedIn |-> TRUE, session |-> epoch]
    BY <1>4 DEF LoginAnswered
  <2>2. client' \in [loggedIn : BOOLEAN, session : Int] /\ client'.session = epoch /\ epoch \in Nat
    BY <2>1 DEF ClientInv
  <2>3. QED BY <1>2, <2>1, <2>2
<1>5. CASE LoginAnswered /\ ~ (Fits /\ ~ setup.banned)
  <2>1. ask' = [ask EXCEPT !.stage = "done"] /\ client' = client /\ answer' = Threw(TRUE)
    BY <1>5 DEF LoginAnswered, Answers_
  <2>2. Threw(TRUE) # Says_("missing") /\ Threw(TRUE) # Says_("completed")
    BY DEF Threw, Says_
  <2>3. QED BY <1>1, <1>5, <2>1, <2>2, EndsQuietly
<1>6. QED BY <1>3, <1>4, <1>5

LEMMA UnansweredStep == ASSUME ClientInv, Unanswered PROVE ClientInv'
<1>1. /\ ask.stage # "done" /\ setup' = setup /\ epoch' = epoch /\ item' = item /\ client' = client
      /\ answer' = Threw(FALSE) /\ ask' = [ask EXCEPT !.stage = "done"]
  BY DEF Unanswered, Answers_
<1>2. Threw(FALSE) # Threw(TRUE) /\ Threw(FALSE) # Says_("missing") /\ Threw(FALSE) # Says_("completed")
  BY DEF Threw, Says_
<1>3. QED BY <1>1, <1>2, EndsQuietly

(* A request that goes on for another attempt.                              *)
LEMMA RefusedOnce ==
  ASSUME ClientInv, setup' = setup, epoch' = epoch, item' = item, ask.stage = "request",
         NEW stage \in {"login", "request"}, ask' = [ask EXCEPT !.attempt = 1, !.stage = stage],
         client' \in [loggedIn : BOOLEAN, session : Int], client'.session <= epoch,
         Qb => stage = "login"
  PROVE  ClientInv'
<1>1. /\ ask' \in Asks /\ ask'.since = ask.since /\ ask'.op = ask.op /\ ask'.stage = stage
      /\ ask'.queued = ask.queued /\ ask'.handle = ask.handle /\ ask'.tag = ask.tag
  BY DEF ClientInv, Asks
<1>2. QED BY <1>1 DEF ClientInv, ClientsAnswerTruly, Qb, Fits, Holds, Items

LEMMA QbRefusesStep == ASSUME ClientInv, QbRefuses PROVE ClientInv'
<1>1. /\ Qb /\ ask.stage = "request" /\ setup.guarded /\ client.session # epoch
      /\ setup' = setup /\ epoch' = epoch /\ item' = item
  BY Zenon DEF QbRefuses
<1>2. client' = [client EXCEPT !.loggedIn = ask.attempt # 0 /\ client.loggedIn] /\ Again("login")
  BY DEF QbRefuses
<1>3. client \in [loggedIn : BOOLEAN, session : Int] /\ client.session <= epoch
  BY DEF ClientInv
<1>4. client' \in [loggedIn : BOOLEAN, session : Int] /\ client'.session = client.session
  BY <1>2, <1>3
<1>5. CASE ask.attempt = 0
  <2>1. ask' = [ask EXCEPT !.attempt = 1, !.stage = "login"]
    BY <1>2, <1>5 DEF Again
  <2>2. QED BY <1>1, <1>3, <1>4, <2>1, RefusedOnce
<1>6. CASE ask.attempt # 0
  <2>1. ask' = [ask EXCEPT !.stage = "done"] /\ answer' = Threw(TRUE)
    BY <1>1, <1>2, <1>6 DEF Again, Answers_
  <2>2. client' = client
    BY <1>2, <1>3, <1>6
  <2>3. ask.attempt = 1 /\ epoch \in Nat /\ ask.since \in Nat
    BY <1>6 DEF ClientInv, Asks
  <2>4. ~ Fits \/ epoch > ask.since
    BY <1>1, <1>3, <2>3 DEF ClientInv
  <2>5. Threw(TRUE) # Says_("missing") /\ Threw(TRUE) # Says_("completed")
    BY DEF Threw, Says_
  <2>6. QED BY <1>1, <2>1, <2>2, <2>4, <2>5, EndsQuietly
<1>7. QED BY <1>5, <1>6

LEMMA TmRefusesStep == ASSUME ClientInv, TmRefuses PROVE ClientInv'
<1>1. ~ Qb /\ ask.stage = "request" /\ setup' = setup /\ epoch' = epoch /\ item' = item
  BY Zenon DEF TmRefuses
<1>2. client \in [loggedIn : BOOLEAN, session : Int] /\ client.session <= epoch /\ epoch \in Nat
  BY DEF ClientInv
<1>3. CASE Fits
  <2>1. Again("request") /\ client' = [client EXCEPT !.session = epoch]
    BY <1>3 DEF TmRefuses
  <2>2. client' \in [loggedIn : BOOLEAN, session : Int] /\ client'.session = epoch
    BY <1>2, <2>1
  <2>3. CASE ask.attempt = 0
    <3>1. ask' = [ask EXCEPT !.attempt = 1, !.stage = "request"]
      BY <2>1, <2>3 DEF Again
    <3>2. QED BY <1>1, <1>2, <2>2, <3>1, RefusedOnce
  <2>4. CASE ask.attempt # 0
    <3>1. ask' = [ask EXCEPT !.stage = "done"] /\ answer' = Threw(FALSE)
      BY <1>1, <2>1, <2>4 DEF Again, Answers_, Qb
    <3>2. Threw(FALSE) # Threw(TRUE) /\ Threw(FALSE) # Says_("missing") /\ Threw(FALSE) # Says_("completed")
      BY DEF Threw, Says_
    <3>3. /\ ask' \in Asks /\ ask'.since = ask.since /\ ask'.op = ask.op /\ ask'.stage = "done"
          /\ ask'.queued = ask.queued /\ ask'.handle = ask.handle /\ ask'.tag = ask.tag
      BY <3>1 DEF ClientInv, Asks
    <3>4. ClientsAnswerTruly'
      BY <3>1, <3>2 DEF ClientsAnswerTruly, Threw, Says_
    <3>5. Items' = Items /\ Qb' = Qb /\ (Holds' <=> Holds)
      BY <1>1 DEF Items, Qb, Holds
    <3>6. ask'.since <= epoch' /\ epoch' \in Nat /\ client'.session <= epoch'
      BY <1>1, <1>2, <2>2, <3>3 DEF ClientInv
    <3>7. QED BY <1>1, <2>2, <3>3, <3>4, <3>5, <3>6 DEF ClientInv
  <2>5. QED BY <2>3, <2>4
<1>4. CASE ~ Fits
  <2>1. client' = client /\ answer' = Threw(TRUE) /\ ask' = [ask EXCEPT !.stage = "done"]
    BY <1>4 DEF TmRefuses, Answers_
  <2>2. Threw(TRUE) # Says_("missing") /\ Threw(TRUE) # Says_("completed")
    BY DEF Threw, Says_
  <2>3. QED BY <1>1, <1>4, <2>1, <2>2, EndsQuietly
<1>5. QED BY <1>3, <1>4

(* A submission that is answered: it is in the backend's list, or it was     *)
(* refused for a cause that stays.                                          *)
LEMMA SubmittedStep ==
  ASSUME ClientInv, NEW a, Submitted(a), ask.stage = "request", ask.op = "submit",
         /\ a = Threw(TRUE) => ~ setup.sound \/ (Holds /\ ~ setup.hash)
         /\ a # Says_("missing") /\ a # Says_("completed")
         /\ Qb /\ ~ setup.hash /\ a.is = "handle" => setup.sound /\ ~ Holds
  PROVE  ClientInv'
<1>1. /\ setup' = setup /\ epoch' = epoch /\ client' = client /\ answer' = a
      /\ item' = IF setup.sound /\ ~ Holds THEN Queued_ ELSE item
  BY DEF Submitted
<1>2. ask' = [ask EXCEPT !.stage = "done", !.queued = item' # item,
                         !.tag = ask.tag \/ item' # item, !.handle = ask.handle \/ a.is = "handle"]
  BY DEF Submitted, ClientInv, Asks
<1>3. /\ ask' \in Asks /\ ask'.since = ask.since /\ ask'.op = "submit" /\ ask'.stage = "done"
      /\ ask'.queued = (item' # item) /\ ask'.tag = (ask.tag \/ item' # item)
      /\ ask'.handle = (ask.handle \/ a.is = "handle")
  BY <1>2 DEF ClientInv, Asks
<1>4. Queued_ \in Items /\ Queued_ # Absent /\ item \in Items \cup {Absent}
  BY DEF Queued_, Items, Absent, ClientInv
<1>5. item' \in Items' \cup {Absent} /\ Qb' = Qb /\ Fits' = Fits
  BY <1>1, <1>4 DEF Items, Qb, Fits
<1>6. setup.sound /\ ~ Holds => item' # item /\ item' # Absent
  BY <1>1, <1>4 DEF Holds
<1>7. ~ (setup.sound /\ ~ Holds) => item' = item
  BY <1>1
<1>8. ClientsAnswerTruly'
  BY <1>1, <1>3, <1>5, <1>6, <1>7 DEF ClientsAnswerTruly, Holds, Threw, Says_
<1>9. Qb /\ ~ setup.hash /\ ask'.handle /\ Holds' => ask'.tag
  BY <1>3, <1>6, <1>7 DEF ClientInv, Holds
<1>10. QED BY <1>1, <1>3, <1>5, <1>8, <1>9 DEF ClientInv, Holds

LEMMA SubmitStep == ASSUME ClientInv, QbSubmit \/ TmSubmit PROVE ClientInv'
<1>1. ask.stage = "request" /\ ask.op = "submit"
  BY DEF QbSubmit, TmSubmit, Served
<1>2. /\ Threw(TRUE) # Says_("missing") /\ Threw(TRUE) # Says_("completed") /\ Threw(TRUE).is # "handle"
      /\ Threw(FALSE) # Says_("missing") /\ Threw(FALSE) # Says_("completed") /\ Threw(FALSE).is # "handle"
      /\ Handle_ # Says_("missing") /\ Handle_ # Says_("completed")
      /\ Handle_ # Threw(TRUE) /\ Threw(FALSE) # Threw(TRUE)
  BY DEF Threw, Says_, Handle_
<1>3. CASE QbSubmit
  <2>1. \/ (setup.hash \/ (setup.sound /\ ~ Holds)) /\ Submitted(Handle_)
        \/ (~ setup.sound \/ (Holds /\ ~ setup.hash)) /\ Submitted(Threw(TRUE))
        \/ Submitted(Threw(FALSE))
    BY <1>3 DEF QbSubmit
  <2>2. QED BY <1>1, <1>2, <2>1, SubmittedStep
<1>4. CASE TmSubmit
  <2>1. /\ ~ Qb
        /\ \/ Submitted(Handle_)
           \/ ~ setup.sound /\ Submitted(Threw(TRUE))
           \/ Submitted(Threw(FALSE))
    BY <1>4 DEF TmSubmit
  <2>2. QED BY <1>1, <1>2, <2>1, SubmittedStep
<1>5. QED BY <1>3, <1>4

LEMMA StatusStep == ASSUME ClientInv, status PROVE ClientInv'
<1>1. /\ ask.stage = "request" /\ ask.op \in {"status", "probe"}
      /\ setup' = setup /\ epoch' = epoch /\ item' = item /\ client' = client
      /\ ask' = [ask EXCEPT !.stage = "done"]
  BY DEF status, Served, Answers_
<1>2. answer' = IF Found_ THEN Says_(IF Qb THEN QbState(item) ELSE TmState(item)) ELSE Says_("missing")
  BY DEF status, Answers_
<1>3. \A s, t : Says_(s) = Says_(t) => s = t
  <2>1. ASSUME NEW s, NEW t, Says_(s) = Says_(t) PROVE s = t
    <3>1. Says_(s).state = s /\ Says_(t).state = t
      BY DEF Says_
    <3>2. QED BY <2>1, <3>1
  <2>2. QED BY <2>1
<1>4. \A s : Says_(s) # Threw(TRUE)
  BY DEF Says_, Threw
<1>5. QbState(item) # "missing" /\ TmState(item) # "missing"
  BY DEF QbState, TmState
<1>6. answer' = Says_("missing") => ~ Found_
  BY <1>2, <1>3, <1>5
<1>7. ~ Found_ => ~ Holds \/ (~ setup.hash /\ ask.op = "probe")
  BY <1>1 DEF Found_, Findable, ClientInv, Setups
<1>8. answer' = Says_("completed") => item.all
  <2>1. SUFFICES ASSUME answer' = Says_("completed") PROVE item.all
    OBVIOUS
  <2>2. Found_
    BY <1>2, <1>3, <2>1
  <2>3. item \in Items
    BY <2>2 DEF Found_, Holds, ClientInv
  <2>4. (IF Qb THEN QbState(item) ELSE TmState(item)) = "completed"
    BY <1>2, <1>3, <2>1, <2>2
  <2>5. QED BY <2>3, <2>4, CompleteIsAll
<1>9. answer' # Threw(TRUE)
  BY <1>2, <1>4
<1>10. QED BY <1>1, <1>6, <1>7, <1>8, <1>9, EndsQuietly

LEMMA ItemStep == ASSUME ClientInv, ItemMoves PROVE ClientInv'
<1>1. /\ Holds /\ ask.stage = "done" /\ setup' = setup /\ epoch' = epoch /\ client' = client
      /\ item' \in Items \cup {Absent}
  BY DEF ItemMoves
<1>2. ask' = [ask EXCEPT !.op = "none", !.tag = ask.tag /\ item' # Absent]
  BY DEF ItemMoves, ClientInv, Asks
<1>3. /\ ask' \in Asks /\ ask'.since = ask.since /\ ask'.op = "none" /\ ask'.stage = "done"
      /\ ask'.tag = (ask.tag /\ item' # Absent) /\ ask'.handle = ask.handle
  BY <1>1, <1>2 DEF ClientInv, Asks
<1>4. QED BY <1>1, <1>3 DEF ClientInv, ClientsAnswerTruly, Qb, Fits, Holds, Items

LEMMA ForgetStep == ASSUME ClientInv, Forgets PROVE ClientInv'
<1>1. /\ epoch' = epoch + 1 /\ setup' = setup /\ item' = item /\ client' = client
      /\ ask' = ask /\ answer' = answer
  BY DEF Forgets
<1>2. /\ epoch \in Nat /\ client \in [loggedIn : BOOLEAN, session : Int] /\ client.session <= epoch
      /\ ask \in Asks /\ ask.since <= epoch
  BY DEF ClientInv
<1>3. epoch' \in Nat /\ client.session <= epoch' /\ ask.since <= epoch' /\ (epoch > ask.since => epoch' > ask.since)
  BY <1>1, <1>2 DEF Asks
<1>4. ClientsAnswerTruly'
  BY <1>1, <1>3 DEF ClientInv, ClientsAnswerTruly, Fits, Holds
<1>5. QED BY <1>1, <1>2, <1>3, <1>4 DEF ClientInv, Qb, Fits, Holds, Items

LEMMA ClientStep == ClientInv /\ [ClientNext]_clientVars => ClientInv'
<1>1. SUFFICES ASSUME ClientInv, [ClientNext]_clientVars PROVE ClientInv'
  OBVIOUS
<1>2. CASE UNCHANGED clientVars
  <2>1. /\ setup' = setup /\ epoch' = epoch /\ item' = item /\ client' = client
        /\ ask' = ask /\ answer' = answer
    BY <1>2, Zenon DEF clientVars
  <2>2. QED BY <1>1, <2>1, ZenonT(60) DEF ClientInv, ClientsAnswerTruly, Qb, Fits, Holds, Items
<1>3. QED
  BY <1>1, <1>2, CallStep, LoginStep, UnansweredStep, QbRefusesStep, TmRefusesStep, SubmitStep,
     StatusStep, ItemStep, ForgetStep, Zenon DEF ClientNext

(* A client's final answers are true, however often the backend forgets its  *)
(* sessions: the login, retry and status code of qbittorrent.ts and          *)
(* transmission.ts.                                                         *)
THEOREM ClientsAreTrue == ClientSpec => []ClientsAnswerTruly
<1>1. ClientInit => ClientInv
  BY ClientStart
<1>2. ClientInv /\ [ClientNext]_clientVars => ClientInv'
  BY ClientStep
<1>3. ClientInv => ClientsAnswerTruly
  BY DEF ClientInv
<1> QED
  BY <1>1, <1>2, <1>3, PTL DEF ClientSpec

-----------------------------------------------------------------------------
(* Downloads: what stands under the final name.                             *)

(* The least of a set of two numbers.                                       *)
LEMMA LeastOfTwo ==
  ASSUME NEW a \in Nat, NEW b \in Nat
  PROVE  Min({a, b}) \in Nat /\ (a <= b => Min({a, b}) = a)
<1>1. CASE a <= b
  <2>1. \A y \in {a, b} : a <= y
    BY <1>1
  <2>2. \A x \in {a, b} : (\A y \in {a, b} : x <= y) => x = a
    BY <1>1
  <2>3. QED BY <2>1, <2>2, <1>1 DEF Min
<1>2. CASE ~ (a <= b)
  <2>1. \A y \in {a, b} : b <= y
    BY <1>2
  <2>2. \A x \in {a, b} : (\A y \in {a, b} : x <= y) => x = b
    BY <1>2
  <2>3. QED BY <2>1, <2>2, <1>2 DEF Min
<1>3. QED BY <1>1, <1>2

(* The rows of the two types that a name may change.                        *)
LEMMA TextNames ==
  /\ mimeFromExtension(".part") = "none"
  /\ extensionForMime("text/plain") = ".txt" /\ mimeFromExtension(".txt") = "text/plain"
  /\ extensionForMime("application/xml") = ".xml" /\ mimeFromExtension(".xml") = "application/xml"
<1>1. Len(EXTENSION_MIMES) = 17
  BY DEF EXTENSION_MIMES
<1>2. {i \in 1 .. Len(EXTENSION_MIMES) : EXTENSION_MIMES[i][1] = ".part"} = {}
  BY <1>1 DEF EXTENSION_MIMES
<1>3. extensionForMime("text/plain") = ".txt"
  <2>1. PICK I : I = {i \in 1 .. Len(EXTENSION_MIMES) : EXTENSION_MIMES[i][2] = "text/plain"}
    OBVIOUS
  <2>2. I = {14, 15}
    BY <1>1, <2>1 DEF EXTENSION_MIMES, TORRENT_MIME, NZB_MIME
  <2>3. Min(I) = 14 /\ I # {}
    BY <2>2, LeastOfTwo
  <2>4. SelectInSeq(EXTENSION_MIMES, LAMBDA r : r[2] = "text/plain") = IF I # {} THEN Min(I) ELSE 0
    BY <2>1 DEF SelectInSeq
  <2>5. EXTENSION_MIMES[14][1] = ".txt"
    BY DEF EXTENSION_MIMES
  <2>6. QED BY <2>3, <2>4, <2>5 DEF extensionForMime
<1>4. mimeFromExtension(".txt") = "text/plain"
  <2>1. PICK I : I = {i \in 1 .. Len(EXTENSION_MIMES) : EXTENSION_MIMES[i][1] = ".txt"}
    OBVIOUS
  <2>2. I = {14, 14}
    BY <1>1, <2>1 DEF EXTENSION_MIMES, TORRENT_MIME, NZB_MIME
  <2>3. Min(I) = 14 /\ I # {}
    BY <2>2, LeastOfTwo
  <2>4. SelectInSeq(EXTENSION_MIMES, LAMBDA r : r[1] = ".txt") = IF I # {} THEN Min(I) ELSE 0
    BY <2>1 DEF SelectInSeq
  <2>5. EXTENSION_MIMES[14][2] = "text/plain"
    BY DEF EXTENSION_MIMES
  <2>6. QED BY <2>3, <2>4, <2>5 DEF mimeFromExtension
<1>5. extensionForMime("application/xml") = ".xml"
  <2>1. PICK I : I = {i \in 1 .. Len(EXTENSION_MIMES) : EXTENSION_MIMES[i][2] = "application/xml"}
    OBVIOUS
  <2>2. I = {16, 16}
    BY <1>1, <2>1 DEF EXTENSION_MIMES, TORRENT_MIME, NZB_MIME
  <2>3. Min(I) = 16 /\ I # {}
    BY <2>2, LeastOfTwo
  <2>4. SelectInSeq(EXTENSION_MIMES, LAMBDA r : r[2] = "application/xml") = IF I # {} THEN Min(I) ELSE 0
    BY <2>1 DEF SelectInSeq
  <2>5. EXTENSION_MIMES[16][1] = ".xml"
    BY DEF EXTENSION_MIMES
  <2>6. QED BY <2>3, <2>4, <2>5 DEF extensionForMime
<1>6. mimeFromExtension(".xml") = "application/xml"
  <2>1. PICK I : I = {i \in 1 .. Len(EXTENSION_MIMES) : EXTENSION_MIMES[i][1] = ".xml"}
    OBVIOUS
  <2>2. I = {16, 16}
    BY <1>1, <2>1 DEF EXTENSION_MIMES, TORRENT_MIME, NZB_MIME
  <2>3. Min(I) = 16 /\ I # {}
    BY <2>2, LeastOfTwo
  <2>4. SelectInSeq(EXTENSION_MIMES, LAMBDA r : r[1] = ".xml") = IF I # {} THEN Min(I) ELSE 0
    BY <2>1 DEF SelectInSeq
  <2>5. EXTENSION_MIMES[16][2] = "application/xml"
    BY DEF EXTENSION_MIMES
  <2>6. QED BY <2>3, <2>4, <2>5 DEF mimeFromExtension
<1>7. mimeFromExtension(".part") = "none"
  <2>1. SelectInSeq(EXTENSION_MIMES, LAMBDA r : r[1] = ".part") = 0
    BY <1>2 DEF SelectInSeq
  <2>2. QED BY <2>1 DEF mimeFromExtension
<1>8. QED BY <1>3, <1>4, <1>5, <1>6, <1>7

(* The extension of what the bytes were taken for gives them that type.      *)
LEMMA NameFits ==
  ASSUME NEW bytes, NEW given, NEW mime, mime = detectMime(bytes, ".part"),
         mime \notin {Unknown, Ole},
         NEW ext, ext = IF extensionForMime(mime) = "" THEN given ELSE extensionForMime(mime)
  PROVE  detectMime(bytes, ext) = mime
<1>1. PICK sniffed : sniffed = sniffBytes(bytes)
  OBVIOUS
<1>2. CASE sniffed = "application/zip"
  BY <1>1, <1>2 DEF detectMime, Ole
<1>3. CASE sniffed = Ole
  <2>1. mime = Ole
    BY <1>1, <1>3, TextNames DEF detectMime, Ole
  <2>2. QED BY <2>1
<1>4. CASE sniffed = "application/xml"
  <2>1. mime = "application/xml"
    BY <1>1, <1>4, TextNames DEF detectMime, Ole, XmlNames
  <2>2. ext = ".xml"
    BY <2>1, TextNames
  <2>3. QED BY <1>1, <1>4, <2>1, <2>2, TextNames DEF detectMime, Ole, XmlNames
<1>5. CASE sniffed = "none"
  <2>1. mime = "text/plain"
    BY <1>1, <1>5, TextNames DEF detectMime, Ole, Unknown
  <2>2. ext = ".txt"
    BY <2>1, TextNames
  <2>3. QED BY <1>1, <1>5, <2>1, <2>2, TextNames DEF detectMime, Ole
<1>6. CASE sniffed \notin {"application/zip", Ole, "application/xml", "none"}
  <2>1. detectMime(bytes, ".part") = sniffed /\ detectMime(bytes, ext) = sniffed
    BY <1>1, <1>6 DEF detectMime
  <2>2. QED BY <2>1
<1>7. QED BY <1>2, <1>3, <1>4, <1>5, <1>6

(* What is written of a body is no more than its cap, and all of it once it   *)
(* is finished on a disk that took it.                                      *)
FetchInv ==
  /\ settled # NoFile => phase \in {"branching", "over"}
  /\ phase \in {"streaming", "settling"} => part \in Nat /\ body.cap \in Nat /\ part <= body.cap
  /\ phase = "settling" /\ disk = "ok" => part = body.size
  /\ DownloadIsWhole

(* A step before the body is settled leaves no file.                        *)
LEMMA NoFileYet ==
  ASSUME FetchInv, phase \notin {"branching", "over"}, settled' = settled,
         phase' \notin {"streaming", "settling"}
  PROVE  FetchInv'
BY DEF FetchInv, DownloadIsWhole

(* What ends the call ends it with the file it has.                         *)
LEMMA OverStep ==
  ASSUME FetchInv, NEW result, Over(result), settled' = settled
  PROVE  FetchInv'
BY Zenon DEF FetchInv, DownloadIsWhole, Over, Mime

LEMMA StreamStep ==
  ASSUME FetchInv, phase \in {"asking", "asked"}, NEW b, NEW cap \in Nat, Stream(b, cap)
  PROVE  FetchInv'
<1>1. /\ phase' = "streaming" /\ part' = 0 /\ settled' = settled /\ body'.cap = cap
  BY DEF Stream, Advance
<1>2. settled' = NoFile
  BY <1>1 DEF FetchInv
<1>3. QED BY <1>1, <1>2 DEF FetchInv, DownloadIsWhole

LEMMA ReadStep == ASSUME FetchInv, ChunkArrives \/ StreamFinishes PROVE FetchInv'
<1>1. /\ phase = "streaming" /\ settled' = settled /\ body' = body
      /\ part \in Nat /\ body.cap \in Nat /\ part <= body.cap /\ settled = NoFile
  BY DEF ChunkArrives, StreamFinishes, FetchInv, Over
<1>2. CASE ChunkArrives
  <2>1. CASE part + 1 > body.cap
    <3>1. Over(Error(TRUE))
      BY <1>2, <2>1 DEF ChunkArrives
    <3>2. QED BY <1>1, <3>1, OverStep
  <2>2. CASE ~ (part + 1 > body.cap)
    <3>1. part' = part + 1 /\ phase' = phase
      BY <1>2, <2>2 DEF ChunkArrives
    <3>2. QED BY <1>1, <2>2, <3>1 DEF FetchInv, DownloadIsWhole
  <2>3. QED BY <2>1, <2>2
<1>3. CASE StreamFinishes
  <2>1. phase' = "settling" /\ part = body.size
    BY <1>3 DEF StreamFinishes
  <2>2. \/ part' = part
        \/ part > 0 /\ part' = part - 1 /\ disk' = "full"
    BY <1>3 DEF StreamFinishes
  <2>3. part' \in Nat /\ part' <= body.cap /\ (disk' = "ok" => part' = body.size)
    BY <1>1, <2>1, <2>2
  <2>4. QED BY <1>1, <2>1, <2>3 DEF FetchInv, DownloadIsWhole
<1>4. QED BY <1>2, <1>3

LEMMA SettleStep == ASSUME FetchInv, Settle PROVE FetchInv'
<1>1. /\ phase = "settling" /\ phase' = "branching" /\ disk' = disk /\ body' = body
      /\ part \in Nat /\ body.cap \in Nat /\ part <= body.cap
      /\ disk = "ok" => part = body.size
  BY DEF Settle, Advance, FetchInv
<1>2. settled' = [size |-> part, bytes |-> body.bytes, sample |-> FALSE,
                  ext |-> IF extensionForMime(Mime) = "" THEN body.ext ELSE extensionForMime(Mime)]
  BY DEF Settle
<1>3. settled'.size = part /\ settled'.bytes = body.bytes
      /\ settled'.ext = IF extensionForMime(Mime) = "" THEN body.ext ELSE extensionForMime(Mime)
  BY <1>2
<1>4. Mime \notin {Unknown, Ole} => detectMime(settled'.bytes, settled'.ext) = Mime
  <2>1. PICK m, e : m = detectMime(body.bytes, ".part") /\ e = settled'.ext
    OBVIOUS
  <2>2. Mime = m
    BY <2>1 DEF Mime
  <2>3. e = IF extensionForMime(m) = "" THEN body.ext ELSE extensionForMime(m)
    BY <1>3, <2>1, <2>2
  <2>4. m \notin {Unknown, Ole} => detectMime(body.bytes, e) = m
    BY <2>1, <2>3, NameFits, ZenonT(60)
  <2>5. QED BY <1>3, <2>1, <2>2, <2>4
<1>5. Mime' = Mime
  BY <1>1 DEF Mime
<1>6. DownloadIsWhole'
  BY <1>1, <1>3, <1>4, <1>5 DEF DownloadIsWhole
<1>7. QED BY <1>1, <1>6 DEF FetchInv

(* A file that turned out to be no content is removed, or the call ends with *)
(* it.                                                                      *)
LEMMA BranchStep == ASSUME FetchInv, branchFetchedFile PROVE FetchInv'
<1>1. \/ \E result : Over(result) /\ settled' = settled
      \/ \E result : Over(result) /\ settled' = NoFile
  BY DEF branchFetchedFile, Fail, Removed
<1>2. CASE \E result : Over(result) /\ settled' = settled
  BY <1>2, OverStep
<1>3. CASE \E result : Over(result) /\ settled' = NoFile
  BY <1>3 DEF Over, FetchInv, DownloadIsWhole
<1>4. QED BY <1>1, <1>2, <1>3

LEMMA FetchStep == FetchInv /\ [FetchNext]_fetchVars => FetchInv'
<1>1. SUFFICES ASSUME FetchInv, [FetchNext]_fetchVars PROVE FetchInv'
  OBVIOUS
<1>2. \A result : Over(result) /\ settled' = settled => FetchInv'
  BY <1>1, OverStep
<1>3. ASSUME Resolve PROVE FetchInv'
  <2>1. phase = "resolving"
    BY <1>3 DEF Resolve
  <2>2. \/ \E result : Over(result) /\ settled' = settled
        \/ phase' \in {"asking", "check"} /\ settled' = settled
    BY <1>3 DEF Resolve, TakeMagnet, Fail, Advance, Follow
  <2>3. QED BY <1>1, <1>2, <2>1, <2>2, NoFileYet
<1>4. ASSUME ProwlarrAnswers PROVE FetchInv'
  <2>1. phase = "asking"
    BY <1>4 DEF ProwlarrAnswers
  <2>2. \/ \E result : Over(result) /\ settled' = settled
        \/ phase' = "check" /\ settled' = settled
        \/ \E b \in Bodies : Stream(b, MaxBytes)
    BY <1>4, Zenon DEF ProwlarrAnswers, TakeMagnet, Fail, Advance, Follow
  <2>3. MaxBytes \in Nat
    BY FetchBounds
  <2>4. QED BY <1>1, <1>2, <2>1, <2>2, <2>3, NoFileYet, StreamStep
<1>5. ASSUME checkFetchTarget PROVE FetchInv'
  <2>1. phase = "check"
    BY <1>5 DEF checkFetchTarget
  <2>2. \/ \E result : Over(result) /\ settled' = settled
        \/ phase' = "asked" /\ settled' = settled
    BY <1>5 DEF checkFetchTarget, Fail, Advance
  <2>3. QED BY <1>1, <1>2, <2>1, <2>2, NoFileYet
<1>6. ASSUME ThirdPartyAnswers PROVE FetchInv'
  <2>1. phase = "asked"
    BY <1>6 DEF ThirdPartyAnswers
  <2>2. \/ \E result : Over(result) /\ settled' = settled
        \/ phase' = "check" /\ settled' = settled
        \/ \E b \in Bodies : Stream(b, Min({MaxBytes, HardCap}))
    BY <1>6, Zenon DEF ThirdPartyAnswers, TakeMagnet, Redirected, Fail, Advance, Follow
  <2>3. Min({MaxBytes, HardCap}) \in Nat
    BY FetchBounds, LeastOfTwo
  <2>4. QED BY <1>1, <1>2, <2>1, <2>2, <2>3, NoFileYet, StreamStep
<1>7. ASSUME TimesOut \/ FetchCrash PROVE FetchInv'
  BY <1>2, <1>7, Zenon DEF TimesOut, FetchCrash
<1>8. ASSUME UNCHANGED fetchVars PROVE FetchInv'
  BY <1>1, <1>8, Zenon DEF fetchVars, FetchInv, DownloadIsWhole, Mime
<1>9. QED
  BY <1>1, <1>3, <1>4, <1>5, <1>6, <1>7, <1>8, ReadStep, SettleStep, BranchStep, Zenon DEF FetchNext

(* What stands under a download's final name is the whole body, within its   *)
(* cap and with the extension of what it is: the stream, rename and          *)
(* type detection of fetch.ts, prowlarr.ts and filetype.ts.                 *)
THEOREM DownloadsAreWhole == FetchSpec => []DownloadIsWhole
<1>1. FetchInit => FetchInv
  BY DEF FetchInit, FetchInv, DownloadIsWhole
<1>2. FetchInv /\ [FetchNext]_fetchVars => FetchInv'
  BY FetchStep
<1>3. FetchInv => DownloadIsWhole
  BY DEF FetchInv
<1> QED
  BY <1>1, <1>2, <1>3, PTL DEF FetchSpec

-----------------------------------------------------------------------------
(***************************************************************************)
(* Torrents and links (TorrentFile).                                        *)
(***************************************************************************)

(* The reader stands where a part of what is open starts, or the file.       *)
AtPart(t, st, q) ==
  /\ q \in DOMAIN t.nodes /\ t.nodes[q].depth = Len(st)
  /\ IF st = <<>> THEN q = 1
     ELSE LET f == st[Len(st)]
          IN  /\ Len(f.items) < Len(t.nodes[f.from].parts)
              /\ t.nodes[f.from].parts[Len(f.items) + 1] = q

(* It stands where the parts of what is open end.                           *)
AtEnd(t, st, q) ==
  /\ st # <<>>
  /\ LET f == st[Len(st)]
     IN  Len(f.items) = Len(t.nodes[f.from].parts) /\ t.nodes[f.from].last = q

FrameSet(t) ==
  [is : {"list", "dict"}, from : DOMAIN t.nodes, items : Seq({Placed(t, p) : p \in DOMAIN t.nodes})]

(* A frame holds the parts before the one the frame above it reads.         *)
FrameRight(t, st, q, j) ==
  LET f == st[j]
      n == t.nodes[f.from]
  IN  /\ n.is = f.is /\ n.depth = j - 1 /\ (j = 1 => f.from = 1)
      /\ Len(f.items) <= Len(n.parts)
      /\ \A i \in DOMAIN f.items : f.items[i] = Placed(t, n.parts[i])
      /\ IF j < Len(st)
         THEN Len(f.items) < Len(n.parts) /\ n.parts[Len(f.items) + 1] = st[j + 1].from
         ELSE q = Edge(t, f.from, Len(f.items))

StackRight(t, st, q) ==
  /\ st \in Seq(FrameSet(t))
  /\ st = <<>> => q = 1
  /\ \A j \in 1 .. Len(st) : FrameRight(t, st, q, j)

(* What arrives is the start of the file, or all of it and more.            *)
DataRight(t, bytes, all) ==
  /\ bytes \in Seq(STRING)
  /\ \A i \in 1 .. Len(bytes) : i <= Len(t.bytes) => bytes[i] = t.bytes[i]
  /\ IF all THEN Len(t.bytes) <= Len(bytes) ELSE Len(bytes) < Len(t.bytes)

(* The directories at a level, and the files of those above it.             *)
Level(t, k) == {[names |-> p, tree |-> t.trees[p]] : p \in {q \in DOMAIN t.trees : Len(q) = k}}
FilesAbove(t, k) ==
  {FileRead([under |-> t.name, names |-> p, size |-> t.sizes[p]], "latin") :
     p \in {q \in DOMAIN t.trees : Len(q) < k /\ Named_(t.trees[q], <<>>)}}

(* The files of a torrent as it is read.                                    *)
FilesOf(t) == FilesRead(t, IF t.is = "tree" THEN "latin" ELSE "utf")

MetaRight(t) ==
  [ok |-> TRUE, infoHash |-> IF t.v1 THEN t.info ELSE <<>>, files |-> FilesOf(t)]

FileInv ==
  \/ parseStage = "idle" /\ meta = Unread
  \/ /\ torrent \in Made /\ DataRight(torrent, data, whole)
     /\ \/ /\ parseStage = "decoding" /\ meta = Unread /\ found = {}
           /\ StackRight(torrent, stack, pos)
        \/ /\ parseStage = "parsing" /\ meta = Unread /\ found = {}
           /\ whole = TRUE /\ root = RootOf(torrent)
        \/ /\ parseStage = "walking" /\ meta = Unread
           /\ whole = TRUE /\ root = RootOf(torrent) /\ torrent.is = "tree"
           /\ \E k \in Nat : pending = Level(torrent, k) /\ found = FilesAbove(torrent, k)
        \/ /\ parseStage = "read"
           /\ IF whole /\ torrent.is # "other" THEN meta = MetaRight(torrent) ELSE meta = Bad

(* What a decoder of base32 holds of the hash after k characters: the bytes  *)
(* that are full, and the first bits of the next.                          *)
FirstBits(h, g, i, bits) ==
  CASE i = 0 -> TRUE
    [] i = 1 -> bits % 32 = h[g + 1] \div 8
    [] i = 2 -> bits % 4 = h[g + 2] \div 64
    [] i = 3 -> bits % 128 = h[g + 2] \div 2
    [] i = 4 -> bits % 16 = h[g + 3] \div 16
    [] i = 5 -> bits % 2 = h[g + 4] \div 128
    [] i = 6 -> bits % 64 = h[g + 4] \div 4
    [] i = 7 -> bits % 8 = h[g + 5] \div 32

Widths == <<0, 5, 2, 7, 4, 1, 6, 3>>
Fulls == <<0, 0, 1, 1, 2, 3, 3, 4>>

AccIn(h, g, i, a) ==
  /\ a.bits \in Nat /\ a.width = Widths[i + 1]
  /\ a.out \in Seq(Nat) /\ Len(a.out) = g + Fulls[i + 1]
  /\ \A j \in 1 .. Len(a.out) : a.out[j] = h[j]
  /\ FirstBits(h, g, i, a.bits)

AccRight(h, k, a) == AccIn(h, 5 * (k \div 8), k % 8, a)

LinkMade ==
  /\ Len(link.xts) \in Nat
  /\ \/ /\ link.is = "hash" /\ link.hash \in [1 .. 5 * HashGroups -> 0 .. 255]
        /\ topic \in 1 .. Len(link.xts)
        /\ \E n \in topic .. Len(link.xts) :
             /\ \A i \in 1 .. n - 1 : ~ IsV1(link.xts[i])
             /\ \E is \in {"hex", "base32"}, upper \in BOOLEAN : link.xts[n] = Spelt_(link.hash, is, upper)
        /\ taken \in 0 .. 8 * HashGroups /\ AccRight(link.hash, taken, acc)
     \/ /\ link.is = "other" /\ topic \in 1 .. Len(link.xts) + 1
        /\ \A i \in 1 .. Len(link.xts) : ~ IsV1(link.xts[i])

LinkInv ==
  \/ link = NoLink /\ contentKey = NoKey
  \/ /\ LinkMade
     /\ contentKey # NoKey =>
          contentKey = IF link.is = "hash" THEN HashKey(Nibbles(link.hash)) ELSE Keyless

TorrentInv == FileInv /\ LinkInv

(* A part of a sequence; sequences alike everywhere are one.                *)
LEMMA PartAt ==
  ASSUME NEW S, NEW s \in Seq(S), NEW m \in Nat, NEW n \in Nat, m > 0, n <= Len(s), m <= n + 1
  PROVE  /\ SubSeq(s, m, n) \in Seq(S) /\ Len(SubSeq(s, m, n)) = n - m + 1
         /\ \A i \in 1 .. n - m + 1 : SubSeq(s, m, n)[i] = s[m + i - 1]
OBVIOUS

LEMMA AlikeAt ==
  ASSUME NEW S, NEW s \in Seq(S), NEW t \in Seq(S), Len(s) = Len(t),
         \A i \in 1 .. Len(s) : s[i] = t[i]
  PROVE  s = t
OBVIOUS

(* Sequences that agree have the same parts.                                *)
LEMMA SamePart ==
  ASSUME NEW S, NEW s \in Seq(S), NEW t \in Seq(S), NEW m \in Nat, NEW n \in Nat,
         m > 0, n <= Len(s), n <= Len(t), m <= n + 1,
         \A i \in 1 .. Len(s) : i <= Len(t) => s[i] = t[i]
  PROVE  SubSeq(s, m, n) = SubSeq(t, m, n)
<1>1. PICK u : u = SubSeq(s, m, n)
  OBVIOUS
<1>2. PICK v : v = SubSeq(t, m, n)
  OBVIOUS
<1>3. u \in Seq(S) /\ Len(u) = n - m + 1 /\ \A i \in 1 .. n - m + 1 : u[i] = s[m + i - 1]
  BY <1>1, PartAt
<1>4. v \in Seq(S) /\ Len(v) = n - m + 1 /\ \A i \in 1 .. n - m + 1 : v[i] = t[m + i - 1]
  BY <1>2, PartAt
<1>5. ASSUME NEW i \in 1 .. n - m + 1 PROVE s[m + i - 1] = t[m + i - 1]
  <2>1. m + i - 1 \in 1 .. Len(s) /\ m + i - 1 <= Len(t)
    OBVIOUS
  <2>2. PICK j \in 1 .. Len(s) : j = m + i - 1
    BY <2>1
  <2>3. s[j] = t[j]
    BY <2>1, <2>2
  <2> QED
    BY <2>2, <2>3
<1>6. u = v
  BY <1>3, <1>4, <1>5, AlikeAt, ZenonT(60)
<1> QED
  BY <1>1, <1>2, <1>6

(* Digits end where the first byte stands that is none.                     *)
LEMMA DigitsEndAt ==
  ASSUME NEW bytes \in Seq(STRING), NEW from \in Nat, NEW stop \in Nat,
         from <= stop, stop <= Len(bytes) + 1,
         \A i \in from .. stop - 1 : IsDigit(bytes[i]),
         stop <= Len(bytes) => ~ IsDigit(bytes[stop])
  PROVE  DigitsEnd(bytes, from) = stop
<1> DEFINE P(e) == /\ \A i \in from .. e - 1 : IsDigit(bytes[i])
                   /\ e <= Len(bytes) => ~ IsDigit(bytes[e])
<1>1. stop \in from .. Len(bytes) + 1 /\ P(stop)
  OBVIOUS
<1>2. \A e \in from .. Len(bytes) + 1 : P(e) => e = stop
  <2>1. SUFFICES ASSUME NEW e \in from .. Len(bytes) + 1, P(e), e # stop PROVE FALSE
    OBVIOUS
  <2>2. CASE e < stop
    <3>1. e \in from .. stop - 1 /\ e <= Len(bytes)
      BY <2>2
    <3> QED
      BY <2>1, <3>1
  <2>3. CASE stop < e
    <3>1. stop \in from .. e - 1 /\ stop <= Len(bytes)
      BY <2>3
    <3> QED
      BY <2>1, <3>1
  <2> QED
    BY <2>1, <2>2, <2>3
<1> HIDE DEF P
<1>3. DigitsEnd(bytes, from) = CHOOSE e \in from .. Len(bytes) + 1 : P(e)
  BY Zenon DEF DigitsEnd, P
<1> QED
  BY <1>1, <1>2, <1>3

(* The marks of bencode are no digits.                                      *)
LEMMA MarksAreNoDigits ==
  /\ ~ IsDigit("i") /\ ~ IsDigit("l") /\ ~ IsDigit("d") /\ ~ IsDigit("e") /\ ~ IsDigit(":") /\ ~ IsDigit("-")
BY DEF IsDigit

(* In a file of which the bytes that arrived break off, digits end with it.  *)
LEMMA DigitsEndHere ==
  ASSUME NEW bytes \in Seq(STRING), NEW d \in Seq(STRING), NEW from \in Nat, NEW stop \in Nat,
         from > 0, from <= stop, stop <= Len(bytes), from <= Len(d) + 1,
         \A i \in from .. stop - 1 : IsDigit(bytes[i]), ~ IsDigit(bytes[stop]),
         \A i \in 1 .. Len(d) : i <= Len(bytes) => d[i] = bytes[i]
  PROVE  DigitsEnd(d, from) = IF stop <= Len(d) THEN stop ELSE Len(d) + 1
<1>1. CASE stop <= Len(d)
  <2>1. \A i \in from .. stop - 1 : IsDigit(d[i])
    BY <1>1
  <2>2. ~ IsDigit(d[stop])
    BY <1>1
  <2> QED
    BY <1>1, <2>1, <2>2, DigitsEndAt
<1>2. CASE Len(d) < stop
  <2>1. ASSUME NEW i \in from .. (Len(d) + 1) - 1 PROVE IsDigit(d[i])
    <3>1. i \in 1 .. Len(d) /\ i <= Len(bytes) /\ i \in from .. stop - 1
      BY <1>2
    <3> QED
      BY <3>1
  <2>2. PICK n : n = Len(d) + 1
    OBVIOUS
  <2>3. n \in Nat /\ from <= n /\ n <= Len(d) + 1 /\ ~ n <= Len(d)
    BY <2>2
  <2>4. \A i \in from .. n - 1 : IsDigit(d[i])
    BY <2>1, <2>2
  <2>5. DigitsEnd(d, from) = n
    BY <2>3, <2>4, DigitsEndAt
  <2> QED
    BY <1>2, <2>2, <2>5
<1> QED
  BY <1>1, <1>2

(* An integer is read as it was made, if all its bytes arrived.             *)
LEMMA IntRead ==
  ASSUME NEW t, LaidOut(t), NEW d, NEW all, DataRight(t, d, all),
         NEW p \in DOMAIN t.nodes, t.nodes[p].is = "int", p <= Len(d)
  PROVE  Atom(d, p) = IF t.nodes[p].last <= Len(d) THEN Got(t.nodes[p].value, t.nodes[p].last + 1) ELSE Bad
<1>1. PICK b : b = t.bytes
  OBVIOUS
<1>2. PICK last : last = t.nodes[p].last
  OBVIOUS
<1>3. PICK v : v = t.nodes[p].value
  OBVIOUS
<1>4. /\ b \in Seq(STRING) /\ d \in Seq(STRING) /\ p \in Nat /\ p > 0 /\ p <= Len(b)
      /\ last \in Nat /\ p <= last /\ last <= Len(b)
      /\ \A i \in 1 .. Len(d) : i <= Len(b) => d[i] = b[i]
  BY <1>1, <1>2 DEF LaidOut, DataRight
<1>5. IntMade(t, p)
  BY DEF LaidOut
<1>6. PICK first : first = IF b[p + 1] = "-" THEN p + 2 ELSE p + 1
  OBVIOUS
<1>7. /\ b[p] = "i" /\ b[last] = "e" /\ first < last
      /\ \A i \in first .. last - 1 : IsDigit(b[i])
      /\ b[first] = "0" => first = p + 1 /\ last = first + 1
      /\ v = Int_(IF first = p + 1 THEN Decimal(SubSeq(b, first, last - 1)) ELSE -Decimal(SubSeq(b, first, last - 1)))
  BY <1>1, <1>2, <1>3, <1>5, <1>6, Zenon DEF IntMade
<1>8. first \in {p + 1, p + 2}
  BY <1>6
<1>9. d[p] = "i"
  BY <1>4, <1>7
<1>10. Atom(d, p) = DecodeInt(d, p)
  BY <1>9, MarksAreNoDigits DEF Atom
<1>11. PICK f : f = IF p < Len(d) /\ d[p + 1] = "-" THEN p + 2 ELSE p + 1
  OBVIOUS
<1>12. CASE last <= Len(d)
  <2>1. p < Len(d) /\ d[p + 1] = b[p + 1]
    <3>1. first < last
      BY <1>7
    <3>2. p + 1 <= last /\ p + 1 <= Len(d) /\ p + 1 \in 1 .. Len(d) /\ p + 1 <= Len(b)
      BY <1>4, <1>8, <1>12, <3>1
    <3>3. d[p + 1] = b[p + 1]
      BY <1>4, <3>2
    <3> QED
      BY <1>4, <3>2, <3>3
  <2>2. f = first
    BY <1>6, <1>11, <2>1
  <2>3. DigitsEnd(d, f) = last
    <3>1. first \in Nat /\ first > 0 /\ first <= last /\ first <= Len(d) + 1 /\ ~ IsDigit(b[last])
      BY <1>4, <1>7, <1>8, <1>12, MarksAreNoDigits
    <3>2. DigitsEnd(d, first) = IF last <= Len(d) THEN last ELSE Len(d) + 1
      BY <1>4, <1>7, <3>1, DigitsEndHere
    <3> QED
      BY <1>12, <2>2, <3>2
  <2>4. d[last] = "e" /\ d[first] = b[first]
    BY <1>4, <1>7, <1>8, <1>12
  <2>5. SubSeq(d, first, last - 1) = SubSeq(b, first, last - 1)
    <3>1. PICK m : m = last - 1
      OBVIOUS
    <3>2. m \in Nat /\ m <= Len(d) /\ m <= Len(b) /\ first <= m + 1 /\ first \in Nat /\ first > 0
      BY <1>4, <1>7, <1>8, <1>12, <3>1
    <3>3. SubSeq(d, first, m) = SubSeq(b, first, m)
      BY <1>4, <3>2, SamePart
    <3> QED
      BY <3>1, <3>3
  <2>6. DecodeInt(d, p) = Got(v, last + 1)
    BY <1>7, <1>11, <1>12, <2>2, <2>3, <2>4, <2>5, Zenon DEF DecodeInt
  <2> QED
    BY <1>2, <1>3, <1>10, <1>12, <2>6
<1>13. CASE Len(d) < last
  <2>1. f <= Len(d) + 1 /\ f \in Nat /\ f > 0
    BY <1>4, <1>11
  <2>2. ASSUME p < Len(d) PROVE DigitsEnd(d, f) = Len(d) + 1
    <3>1. d[p + 1] = b[p + 1]
      BY <1>4, <1>7, <1>8, <2>2, SMTT(40)
    <3>2. f = first
      BY <1>6, <1>11, <2>2, <3>1
    <3>3. first \in Nat /\ first > 0 /\ first <= last /\ first <= Len(d) + 1 /\ ~ IsDigit(b[last])
      BY <1>4, <1>7, <1>8, <2>2, MarksAreNoDigits
    <3>4. DigitsEnd(d, first) = IF last <= Len(d) THEN last ELSE Len(d) + 1
      BY <1>4, <1>7, <3>3, DigitsEndHere
    <3> QED
      BY <1>4, <1>13, <3>2, <3>4
  <2>3. ASSUME p = Len(d) PROVE DigitsEnd(d, f) = Len(d) + 1
    <3>1. f = Len(d) + 1
      BY <1>4, <1>11, <2>3
    <3>2. \A i \in f .. f - 1 : IsDigit(d[i])
      BY <2>1
    <3> QED
      BY <1>4, <2>1, <3>1, <3>2, DigitsEndAt
  <2>4. ~ DigitsEnd(d, f) <= Len(d)
    <3>1. DigitsEnd(d, f) = Len(d) + 1
      BY <1>4, <1>13, <2>2, <2>3
    <3> QED
      BY <1>4, <3>1
  <2>5. DecodeInt(d, p) = Bad
    BY <1>11, <2>4, Zenon DEF DecodeInt
  <2>6. ~ last <= Len(d)
    BY <1>4, <1>13
  <2> QED
    BY <1>2, <1>10, <2>5, <2>6, Zenon
<1> QED
  BY <1>4, <1>12, <1>13

(* So is a string.                                                          *)
LEMMA StrRead ==
  ASSUME NEW t, LaidOut(t), NEW d, NEW all, DataRight(t, d, all),
         NEW p \in DOMAIN t.nodes, t.nodes[p].is = "str", p <= Len(d)
  PROVE  Atom(d, p) = IF t.nodes[p].last <= Len(d) THEN Got(t.nodes[p].value, t.nodes[p].last + 1) ELSE Bad
<1>1. PICK b : b = t.bytes
  OBVIOUS
<1>2. PICK last : last = t.nodes[p].last
  OBVIOUS
<1>3. PICK v : v = t.nodes[p].value
  OBVIOUS
<1>4. /\ b \in Seq(STRING) /\ d \in Seq(STRING) /\ p \in Nat /\ p > 0 /\ p <= Len(b)
      /\ last \in Nat /\ p <= last /\ last <= Len(b)
      /\ \A i \in 1 .. Len(d) : i <= Len(b) => d[i] = b[i]
  BY <1>1, <1>2 DEF LaidOut, DataRight
<1>5. StrMade(t, p)
  BY DEF LaidOut
<1>6. PICK colon \in p + 1 .. last :
        /\ \A i \in p .. colon - 1 : IsDigit(b[i])
        /\ b[colon] = ":"
        /\ last = colon + Decimal(SubSeq(b, p, colon - 1))
        /\ v = Str_(SubSeq(b, colon + 1, last))
  BY <1>1, <1>2, <1>3, <1>5, Zenon DEF StrMade
<1>7. colon \in Nat /\ p < colon /\ colon <= last
  BY <1>4
<1>8. IsDigit(d[p])
  BY <1>4, <1>6, <1>7
<1>9. Atom(d, p) = DecodeStr(d, p)
  BY <1>8, MarksAreNoDigits DEF Atom
<1>10. DigitsEnd(d, p) = IF colon <= Len(d) THEN colon ELSE Len(d) + 1
  <2>1. ~ IsDigit(b[colon]) /\ p <= colon /\ colon <= Len(b) /\ p <= Len(d) + 1
    BY <1>4, <1>6, <1>7, MarksAreNoDigits
  <2> QED
    BY <1>4, <1>6, <1>7, <2>1, DigitsEndHere
<1>11. CASE colon <= Len(d)
  <2>1. d[colon] = ":"
    BY <1>4, <1>6, <1>7, <1>11
  <2>2. SubSeq(d, p, colon - 1) = SubSeq(b, p, colon - 1)
    <3>1. PICK m : m = colon - 1
      OBVIOUS
    <3>2. m \in Nat /\ m <= Len(d) /\ m <= Len(b) /\ p <= m + 1
      BY <1>4, <1>7, <1>11, <3>1
    <3>3. SubSeq(d, p, m) = SubSeq(b, p, m)
      BY <1>4, <3>2, SamePart, ZenonT(60)
    <3> QED
      BY <3>1, <3>3
  <2>3. DecodeStr(d, p) = IF last <= Len(d) THEN Got(Str_(SubSeq(d, colon + 1, last)), last + 1) ELSE Bad
    BY <1>6, <1>10, <1>11, <2>1, <2>2, Zenon DEF DecodeStr
  <2>4. ASSUME last <= Len(d) PROVE SubSeq(d, colon + 1, last) = SubSeq(b, colon + 1, last)
    <3>1. PICK m : m = colon + 1
      OBVIOUS
    <3>2. m \in Nat /\ m > 0 /\ m <= last + 1
      BY <1>4, <1>7, <3>1
    <3>3. SubSeq(d, m, last) = SubSeq(b, m, last)
      BY <1>4, <2>4, <3>2, SamePart
    <3> QED
      BY <3>1, <3>3
  <2> QED
    BY <1>2, <1>3, <1>6, <1>9, <2>3, <2>4, Zenon
<1>12. CASE Len(d) < colon
  <2>1. ~ colon <= Len(d) /\ ~ last <= Len(d) /\ ~ Len(d) + 1 <= Len(d)
    BY <1>4, <1>7, <1>12
  <2>2. DigitsEnd(d, p) = Len(d) + 1
    BY <1>10, <2>1, Zenon
  <2>3. DecodeStr(d, p) = Bad
    BY <2>1, <2>2, Zenon DEF DecodeStr
  <2> QED
    BY <1>2, <1>9, <2>1, <2>3, Zenon
<1> QED
  BY <1>4, <1>7, <1>11, <1>12

(* A list or a dictionary is made of its parts.                             *)
LEMMA NestOf ==
  ASSUME NEW t, LaidOut(t), NEW p \in DOMAIN t.nodes, t.nodes[p].is \in {"list", "dict"}
  PROVE  NestMade(t, p)
BY DEF LaidOut, ListMade, DictMade

(* What a node is and where, in plain facts.                                *)
LEMMA NodeIs ==
  ASSUME NEW t, LaidOut(t), NEW p \in DOMAIN t.nodes
  PROVE  /\ p \in 1 .. Len(t.bytes) /\ t.bytes \in Seq(STRING) /\ Len(t.bytes) \in Nat
         /\ t.nodes[p].last \in p .. Len(t.bytes) /\ t.nodes[p].last \in Nat
         /\ t.nodes[p].depth \in 0 .. MaxDepth
         /\ t.nodes[p].parts \in Seq(1 .. Len(t.bytes)) /\ Len(t.nodes[p].parts) \in Nat
         /\ DOMAIN t.nodes[p].parts = 1 .. Len(t.nodes[p].parts)
         /\ t.nodes[p].is \in {"int", "str", "list", "dict"}
<1>1. /\ p \in 1 .. Len(t.bytes) /\ t.bytes \in Seq(STRING)
      /\ t.nodes[p].last \in p .. Len(t.bytes) /\ t.nodes[p].depth \in 0 .. MaxDepth
      /\ t.nodes[p].parts \in Seq(1 .. Len(t.bytes))
      /\ t.nodes[p].is \in {"int", "str", "list", "dict"}
  BY DEF LaidOut
<1> QED
  BY <1>1

(* By its first byte a value is known: a list, a dictionary, or an atom,     *)
(* which is read as it was made if all its bytes arrived.                   *)
LEMMA ValueRead ==
  ASSUME NEW t, LaidOut(t), NEW d, NEW all, DataRight(t, d, all), NEW p \in DOMAIN t.nodes, p <= Len(d)
  PROVE  /\ Atom(d, p) = IF t.nodes[p].is \in {"int", "str"} /\ t.nodes[p].last <= Len(d)
                         THEN Got(t.nodes[p].value, t.nodes[p].last + 1) ELSE Bad
         /\ d[p] \in {"l", "d"} <=> t.nodes[p].is \in {"list", "dict"}
         /\ t.nodes[p].is \in {"list", "dict"} => t.nodes[p].is = IF d[p] = "l" THEN "list" ELSE "dict"
         /\ d[p] # "e" /\ d[p] = t.bytes[p]
<1>1. t.nodes[p].is \in {"int", "str", "list", "dict"} /\ d[p] = t.bytes[p]
  BY NodeIs DEF DataRight
<1>2. CASE t.nodes[p].is = "int"
  <2>1. t.bytes[p] = "i"
    BY <1>2 DEF LaidOut, IntMade
  <2> QED
    BY <1>1, <1>2, <2>1, IntRead
<1>3. CASE t.nodes[p].is = "str"
  <2>1. StrMade(t, p)
    BY <1>3 DEF LaidOut
  <2>2. PICK colon \in p + 1 .. t.nodes[p].last : \A i \in p .. colon - 1 : IsDigit(t.bytes[i])
    BY <2>1, Zenon DEF StrMade
  <2>3. IsDigit(t.bytes[p])
    BY <2>2, NodeIs
  <2>4. t.bytes[p] \notin {"l", "d", "e"}
    BY <2>3, MarksAreNoDigits
  <2> QED
    BY <1>1, <1>3, <2>4, StrRead
<1>4. CASE t.nodes[p].is = "list"
  <2>1. t.bytes[p] = "l"
    BY <1>4, Zenon DEF LaidOut, ListMade
  <2>2. Atom(d, p) = Bad
    BY <1>1, <2>1, MarksAreNoDigits DEF Atom
  <2> QED
    BY <1>1, <1>4, <2>1, <2>2
<1>5. CASE t.nodes[p].is = "dict"
  <2>1. t.bytes[p] = "d"
    BY <1>5, Zenon DEF LaidOut, DictMade
  <2>2. Atom(d, p) = Bad
    BY <1>1, <2>1, MarksAreNoDigits DEF Atom
  <2> QED
    BY <1>1, <1>5, <2>1, <2>2
<1> QED
  BY <1>1, <1>2, <1>3, <1>4, <1>5

(* The reader stands at a part of what is open or at its end.               *)
LEMMA Standing ==
  ASSUME NEW t, LaidOut(t), NEW st, NEW q, StackRight(t, st, q)
  PROVE  /\ q \in 1 .. Len(t.bytes) /\ Len(st) \in Nat
         /\ AtPart(t, st, q) \/ (AtEnd(t, st, q) /\ t.bytes[q] = "e")
<1>1. st \in Seq(FrameSet(t)) /\ Len(st) \in Nat
  BY DEF StackRight
<1>2. CASE st = <<>>
  <2>1. q = 1 /\ 1 \in DOMAIN t.nodes /\ t.nodes[1].depth = Len(st)
    BY <1>2 DEF StackRight, LaidOut
  <2> QED
    BY <1>1, <1>2, <2>1, NodeIs DEF AtPart
<1>3. CASE st # <<>>
  <2>1. Len(st) \in 1 .. Len(st) /\ ~ Len(st) < Len(st)
    BY <1>1, <1>3
  <2>2. PICK f : f = st[Len(st)]
    OBVIOUS
  <2>3. f \in FrameSet(t)
    BY <1>1, <2>1, <2>2
  <2>4. PICK p : p = f.from
    OBVIOUS
  <2>5. PICK n : n = t.nodes[p]
    OBVIOUS
  <2>6. p \in DOMAIN t.nodes /\ f.is \in {"list", "dict"} /\ Len(f.items) \in Nat
    BY <2>3, <2>4 DEF FrameSet
  <2>7. FrameRight(t, st, q, Len(st))
    BY <2>1 DEF StackRight
  <2>8. n.is = f.is /\ n.depth = Len(st) - 1 /\ Len(f.items) <= Len(n.parts) /\ q = Edge(t, p, Len(f.items))
    BY <2>1, <2>2, <2>4, <2>5, <2>7, Zenon DEF FrameRight
  <2>9. NestMade(t, p)
    BY <2>5, <2>6, <2>8, NestOf
  <2>10. Len(n.parts) \in Nat /\ DOMAIN n.parts = 1 .. Len(n.parts) /\ n.depth \in Nat
    BY <2>5, <2>6, NodeIs
  <2>11. CASE Len(f.items) < Len(n.parts)
    <3>1. PICK k : k = Len(f.items) + 1
      OBVIOUS
    <3>2. k \in DOMAIN n.parts /\ k - 1 = Len(f.items)
      BY <2>6, <2>10, <2>11, <3>1
    <3>3. n.parts[k] \in DOMAIN t.nodes /\ n.parts[k] = q /\ t.nodes[n.parts[k]].depth = n.depth + 1
      BY <2>5, <2>8, <2>9, <3>2 DEF NestMade
    <3>4. q \in DOMAIN t.nodes /\ t.nodes[q].depth = Len(st)
      BY <1>1, <2>8, <2>10, <3>3
    <3> QED
      BY <1>1, <1>3, <2>2, <2>4, <2>5, <2>11, <3>1, <3>3, <3>4, NodeIs DEF AtPart
  <2>12. CASE Len(f.items) = Len(n.parts)
    <3>1. n.last = q /\ t.bytes[n.last] = "e"
      BY <2>5, <2>8, <2>9, <2>12 DEF NestMade
    <3>2. q \in 1 .. Len(t.bytes)
      BY <2>5, <2>6, <3>1, NodeIs
    <3> QED
      BY <1>1, <1>3, <2>2, <2>4, <2>5, <2>12, <3>1, <3>2 DEF AtEnd
  <2> QED
    BY <2>6, <2>8, <2>10, <2>11, <2>12
<1> QED
  BY <1>2, <1>3

(* A list or a dictionary that opens holds nothing yet.                     *)
LEMMA Pushed ==
  ASSUME NEW t, LaidOut(t), NEW st, NEW q, StackRight(t, st, q), AtPart(t, st, q),
         t.nodes[q].is \in {"list", "dict"}
  PROVE  StackRight(t, Append(st, [is |-> t.nodes[q].is, from |-> q, items |-> <<>>]), q + 1)
<1>1. st \in Seq(FrameSet(t)) /\ Len(st) \in Nat
  BY DEF StackRight
<1>2. PICK f : f = [is |-> t.nodes[q].is, from |-> q, items |-> <<>>]
  OBVIOUS
<1>3. q \in DOMAIN t.nodes /\ t.nodes[q].depth = Len(st)
  BY DEF AtPart
<1>4. f \in FrameSet(t) /\ f.is = t.nodes[q].is /\ f.from = q /\ f.items = <<>>
  BY <1>2, <1>3 DEF FrameSet
<1>5. PICK u : u = Append(st, f)
  OBVIOUS
<1>6. /\ u \in Seq(FrameSet(t)) /\ Len(u) = Len(st) + 1 /\ u[Len(u)] = f
      /\ \A j \in 1 .. Len(st) : u[j] = st[j]
  BY <1>1, <1>4, <1>5
<1>7. ASSUME NEW j \in 1 .. Len(u) PROVE FrameRight(t, u, q + 1, j)
  <2>1. CASE j = Len(u)
    <3>1. Len(f.items) = 0 /\ DOMAIN f.items = {} /\ Len(t.nodes[q].parts) \in Nat
      BY <1>3, <1>4, NodeIs
    <3>2. t.nodes[q].depth = j - 1 /\ ~ j < Len(u)
      BY <1>1, <1>3, <1>6, <2>1
    <3>3. j = 1 => q = 1
      BY <1>1, <1>6, <2>1 DEF StackRight
    <3>4. Edge(t, q, 0) = q + 1
      BY DEF Edge
    <3> QED
      BY <1>4, <1>6, <2>1, <3>1, <3>2, <3>3, <3>4 DEF FrameRight
  <2>2. CASE j < Len(st)
    <3>1. j \in 1 .. Len(st) /\ j + 1 \in 1 .. Len(st) /\ j < Len(u)
      BY <1>1, <1>6, <2>2
    <3>2. FrameRight(t, st, q, j) /\ u[j] = st[j] /\ u[j + 1] = st[j + 1]
      BY <1>6, <3>1 DEF StackRight
    <3> QED
      BY <2>2, <3>1, <3>2 DEF FrameRight
  <2>3. CASE j = Len(st)
    <3>1. j \in 1 .. Len(st) /\ st # <<>> /\ ~ j < Len(st) /\ j < Len(u) /\ j + 1 = Len(u)
      BY <1>1, <1>6, <2>3
    <3>2. FrameRight(t, st, q, j) /\ u[j] = st[j] /\ u[j + 1] = f
      BY <1>6, <3>1 DEF StackRight
    <3>3. /\ Len(st[j].items) < Len(t.nodes[st[j].from].parts)
          /\ t.nodes[st[j].from].parts[Len(st[j].items) + 1] = q
      BY <2>3, <3>1 DEF AtPart
    <3> QED
      BY <1>4, <3>1, <3>2, <3>3 DEF FrameRight
  <2> QED
    BY <1>1, <1>6, <2>1, <2>2, <2>3
<1>8. u # <<>>
  BY <1>1, <1>6
<1> QED
  BY <1>2, <1>5, <1>6, <1>7, <1>8 DEF StackRight

(* Below a list or a dictionary the reader stands where that starts.        *)
LEMMA Popped ==
  ASSUME NEW t, LaidOut(t), NEW st, NEW q, StackRight(t, st, q), st # <<>>
  PROVE  /\ StackRight(t, SubSeq(st, 1, Len(st) - 1), st[Len(st)].from)
         /\ AtPart(t, SubSeq(st, 1, Len(st) - 1), st[Len(st)].from)
<1>1. st \in Seq(FrameSet(t)) /\ Len(st) \in Nat
  BY DEF StackRight
<1>2. PICK m : m = Len(st) - 1
  OBVIOUS
<1>3. m \in Nat /\ m <= Len(st) /\ 1 <= m + 1 /\ Len(st) = m + 1
  BY <1>1, <1>2
<1>4. PICK u : u = SubSeq(st, 1, m)
  OBVIOUS
<1>5. u \in Seq(FrameSet(t)) /\ Len(u) = m /\ \A j \in 1 .. m : u[j] = st[j]
  <2>1. /\ SubSeq(st, 1, m) \in Seq(FrameSet(t)) /\ Len(SubSeq(st, 1, m)) = m - 1 + 1
        /\ \A i \in 1 .. m - 1 + 1 : SubSeq(st, 1, m)[i] = st[1 + i - 1]
    BY <1>1, <1>3, PartAt
  <2> QED
    BY <1>3, <1>4, <2>1
<1>6. PICK f : f = st[Len(st)]
  OBVIOUS
<1>7. f \in FrameSet(t)
  BY <1>1, <1>3, <1>6
<1>8. f.from \in DOMAIN t.nodes
  BY <1>7 DEF FrameSet
<1>9. FrameRight(t, st, q, Len(st))
  BY <1>1, <1>3 DEF StackRight
<1>10. t.nodes[f.from].depth = m /\ (m = 0 => f.from = 1)
  BY <1>3, <1>6, <1>9 DEF FrameRight
<1>11. ASSUME m > 0
       PROVE  /\ FrameRight(t, st, q, m) /\ u[m] = st[m] /\ st[m] \in FrameSet(t)
              /\ Len(st[m].items) < Len(t.nodes[st[m].from].parts)
              /\ t.nodes[st[m].from].parts[Len(st[m].items) + 1] = f.from
  <2>1. m \in 1 .. Len(st) /\ m \in 1 .. m /\ m < Len(st) /\ m + 1 = Len(st)
    BY <1>3, <1>11
  <2>2. FrameRight(t, st, q, m)
    BY <2>1 DEF StackRight
  <2>3. /\ Len(st[m].items) < Len(t.nodes[st[m].from].parts)
        /\ t.nodes[st[m].from].parts[Len(st[m].items) + 1] = st[m + 1].from
    BY <2>1, <2>2 DEF FrameRight
  <2> QED
    BY <1>1, <1>5, <1>6, <2>1, <2>2, <2>3
<1>12. AtPart(t, u, f.from)
  <2>1. CASE m = 0
    BY <1>5, <1>8, <1>10, <2>1 DEF AtPart
  <2>2. CASE m > 0
    <3>1. u # <<>> /\ u[Len(u)] = st[m]
      BY <1>5, <1>11, <2>2
    <3> QED
      BY <1>5, <1>8, <1>10, <1>11, <2>2, <3>1 DEF AtPart
  <2> QED
    BY <1>3, <2>1, <2>2
<1>13. ASSUME NEW j \in 1 .. Len(u) PROVE FrameRight(t, u, f.from, j)
  <2>1. CASE j < m
    <3>1. j \in 1 .. Len(st) /\ j \in 1 .. m /\ j + 1 \in 1 .. m /\ j < Len(st) /\ j < Len(u)
      BY <1>3, <1>5, <2>1
    <3>2. FrameRight(t, st, q, j) /\ u[j] = st[j] /\ u[j + 1] = st[j + 1]
      BY <1>5, <3>1 DEF StackRight
    <3> QED
      BY <3>1, <3>2 DEF FrameRight
  <2>2. CASE j = m
    <3>1. m > 0 /\ ~ m < Len(u) /\ m < Len(st)
      BY <1>3, <1>5, <2>2
    <3>2. PICK g : g = st[m]
      OBVIOUS
    <3>3. PICK p : p = g.from
      OBVIOUS
    <3>4. PICK n : n = t.nodes[p]
      OBVIOUS
    <3>5. /\ p \in DOMAIN t.nodes /\ n.is = g.is /\ g.is \in {"list", "dict"} /\ Len(g.items) \in Nat
      BY <1>11, <3>1, <3>2, <3>3, <3>4, SMTT(40) DEF FrameRight, FrameSet
    <3>6. NestMade(t, p)
      BY <3>4, <3>5, NestOf
    <3>7. PICK k : k = Len(g.items) + 1
      OBVIOUS
    <3>8. k \in DOMAIN n.parts /\ k - 1 = Len(g.items)
      <4>1. DOMAIN n.parts = 1 .. Len(n.parts) /\ Len(n.parts) \in Nat
        BY <3>4, <3>5, NodeIs
      <4>2. Len(g.items) < Len(n.parts)
        BY <1>11, <3>1, <3>2, <3>3, <3>4
      <4> QED
        BY <3>5, <3>7, <4>1, <4>2
    <3>9. f.from = Edge(t, p, Len(g.items))
      BY <1>11, <3>1, <3>2, <3>3, <3>4, <3>6, <3>7, <3>8 DEF NestMade
    <3> QED
      BY <1>11, <2>2, <3>1, <3>2, <3>3, <3>9 DEF FrameRight
  <2> QED
    BY <1>3, <1>5, <2>1, <2>2
<1>14. u = <<>> => f.from = 1
  BY <1>5, <1>10
<1>15. StackRight(t, u, f.from)
  BY <1>5, <1>13, <1>14 DEF StackRight
<1> QED
  BY <1>2, <1>4, <1>6, <1>12, <1>15

(* A value that was read is the next part of what is open.                  *)
LEMMA Delivered ==
  ASSUME NEW t, LaidOut(t), NEW st, NEW q, StackRight(t, st, q), AtPart(t, st, q), st # <<>>
  PROVE  StackRight(t, Extended(st, Placed(t, q)), t.nodes[q].last + 1)
<1> DEFINE S == {Placed(t, p) : p \in DOMAIN t.nodes}
<1>1. st \in Seq(FrameSet(t)) /\ Len(st) \in Nat
  BY DEF StackRight
<1>2. PICK l : l = Len(st)
  OBVIOUS
<1>3. l \in 1 .. Len(st) /\ l \in Nat /\ l > 0 /\ l = Len(st)
  BY <1>1, <1>2
<1>4. PICK f : f = st[l]
  OBVIOUS
<1>5. f \in FrameSet(t)
  BY <1>1, <1>3, <1>4
<1>6. PICK x : x = Placed(t, q)
  OBVIOUS
<1>7. q \in DOMAIN t.nodes /\ x \in S
  BY <1>6 DEF AtPart
<1>8. PICK items : items = Append(f.items, x)
  OBVIOUS
<1>9. f.items \in Seq(S) /\ f.from \in DOMAIN t.nodes /\ f.is \in {"list", "dict"}
  BY <1>5 DEF FrameSet
<1>10. /\ items \in Seq(S) /\ Len(items) = Len(f.items) + 1 /\ items[Len(items)] = x
       /\ \A i \in 1 .. Len(f.items) : items[i] = f.items[i]
       /\ DOMAIN items = 1 .. Len(items) /\ Len(f.items) \in Nat /\ DOMAIN f.items = 1 .. Len(f.items)
  <2> HIDE DEF S
  <2> QED
    BY <1>7, <1>8, <1>9
<1>11. PICK g : g = [is |-> f.is, from |-> f.from, items |-> items]
  OBVIOUS
<1>12. g \in FrameSet(t) /\ g.is = f.is /\ g.from = f.from /\ g.items = items
  BY <1>9, <1>10, <1>11 DEF FrameSet
<1>13. PICK u : u = [j \in DOMAIN st |-> IF j = l THEN g ELSE st[j]]
  OBVIOUS
<1>14. u = Extended(st, Placed(t, q))
  BY <1>2, <1>4, <1>6, <1>8, <1>11, <1>13, Zenon DEF Extended
<1>15. DOMAIN st = 1 .. l
  BY <1>1, <1>3
<1>16. /\ u \in Seq(FrameSet(t)) /\ Len(u) = l /\ u[l] = g
       /\ \A j \in 1 .. l : j # l => u[j] = st[j]
  <2>1. u = [j \in 1 .. l |-> IF j = l THEN g ELSE st[j]]
    BY <1>13, <1>15
  <2>2. \A j \in 1 .. l : (IF j = l THEN g ELSE st[j]) \in FrameSet(t)
    BY <1>1, <1>3, <1>12
  <2>3. u \in [1 .. l -> FrameSet(t)]
    BY <2>1, <2>2
  <2>4. u \in Seq(FrameSet(t)) /\ Len(u) = l
    BY <1>3, <2>3
  <2> QED
    BY <1>3, <2>1, <2>4
<1>17. PICK p : p = f.from
  OBVIOUS
<1>18. PICK n : n = t.nodes[p]
  OBVIOUS
<1>19. FrameRight(t, st, q, l)
  BY <1>3 DEF StackRight
<1>20. /\ n.is = f.is /\ n.depth = l - 1 /\ (l = 1 => p = 1) /\ Len(f.items) <= Len(n.parts)
       /\ \A i \in DOMAIN f.items : f.items[i] = Placed(t, n.parts[i])
  BY <1>4, <1>17, <1>18, <1>19 DEF FrameRight
<1>21. Len(f.items) < Len(n.parts) /\ n.parts[Len(f.items) + 1] = q
  BY <1>2, <1>4, <1>17, <1>18 DEF AtPart
<1>22. ASSUME NEW j \in 1 .. Len(u) PROVE FrameRight(t, u, t.nodes[q].last + 1, j)
  <2>1. CASE j = l
    <3>1. ~ j < Len(u) /\ u[j] = g
      BY <1>3, <1>16, <2>1
    <3>2. Len(items) <= Len(n.parts)
      <4>1. Len(n.parts) \in Nat
        BY <1>9, <1>17, <1>18, NodeIs
      <4> QED
        BY <1>10, <1>21, <4>1
    <3>3. \A i \in DOMAIN items : items[i] = Placed(t, n.parts[i])
      <4>1. ASSUME NEW i \in DOMAIN items PROVE items[i] = Placed(t, n.parts[i])
        <5>1. CASE i \in 1 .. Len(f.items)
          BY <1>10, <1>20, <5>1
        <5>2. CASE i = Len(items)
          <6>1. n.parts[i] = q
            BY <1>10, <1>21, <5>2
          <6> QED
            BY <1>6, <1>10, <5>2, <6>1
        <5> QED
          BY <1>10, <4>1, <5>1, <5>2
      <4> QED
        BY <4>1
    <3>4. t.nodes[q].last + 1 = Edge(t, p, Len(items))
      <4>1. Len(items) # 0 /\ n.parts[Len(items)] = q
        BY <1>10, <1>21
      <4> QED
        BY <1>18, <4>1 DEF Edge
    <3> QED
      BY <1>12, <1>17, <1>18, <1>20, <2>1, <3>1, <3>2, <3>3, <3>4 DEF FrameRight
  <2>2. CASE j < l
    <3>1. j \in 1 .. Len(st) /\ j < Len(st) /\ j < Len(u) /\ u[j] = st[j] /\ j + 1 \in 1 .. l
      BY <1>3, <1>16, <2>2
    <3>2. u[j + 1].from = st[j + 1].from
      BY <1>4, <1>12, <1>16, <3>1
    <3>3. FrameRight(t, st, q, j)
      BY <3>1 DEF StackRight
    <3> QED
      BY <3>1, <3>2, <3>3 DEF FrameRight
  <2> QED
    BY <1>3, <1>16, <2>1, <2>2
<1>23. u # <<>>
  BY <1>3, <1>16
<1>24. StackRight(t, u, t.nodes[q].last + 1)
  BY <1>16, <1>22, <1>23 DEF StackRight
<1> QED
  BY <1>14, <1>24

(* Where a dictionary takes a key a string stands.                          *)
LEMMA KeyPlace ==
  ASSUME NEW t, LaidOut(t), NEW st, NEW q, StackRight(t, st, q), AtPart(t, st, q), InKeyPlace(st)
  PROVE  t.nodes[q].is = "str" /\ t.nodes[q].value.is = "str"
<1>1. st \in Seq(FrameSet(t)) /\ Len(st) \in Nat /\ st # <<>>
  BY DEF StackRight, InKeyPlace
<1>2. PICK f : f = st[Len(st)]
  OBVIOUS
<1>3. f \in FrameSet(t) /\ Len(st) \in 1 .. Len(st)
  BY <1>1, <1>2
<1>4. PICK p : p = f.from
  OBVIOUS
<1>5. PICK n : n = t.nodes[p]
  OBVIOUS
<1>6. FrameRight(t, st, q, Len(st))
  BY <1>3 DEF StackRight
<1>7. p \in DOMAIN t.nodes /\ n.is = f.is /\ f.is = "dict" /\ Len(f.items) \in Nat /\ Len(f.items) % 2 = 0
  <2>1. f.is = "dict" /\ Len(f.items) % 2 = 0
    BY <1>2 DEF InKeyPlace
  <2>2. n.is = f.is
    BY <1>2, <1>4, <1>5, <1>6 DEF FrameRight
  <2>3. p \in DOMAIN t.nodes /\ Len(f.items) \in Nat
    BY <1>3, <1>4 DEF FrameSet
  <2> QED
    BY <2>1, <2>2, <2>3
<1>8. Len(f.items) < Len(n.parts) /\ n.parts[Len(f.items) + 1] = q /\ q \in DOMAIN t.nodes
  BY <1>1, <1>2, <1>4, <1>5 DEF AtPart
<1>9. PICK k : k = Len(f.items) + 1
  OBVIOUS
<1>10. k \in DOMAIN n.parts /\ k % 2 = 1
  <2>1. Len(n.parts) \in Nat /\ DOMAIN n.parts = 1 .. Len(n.parts)
    BY <1>5, <1>7, NodeIs
  <2>2. PICK l : l = Len(f.items)
    OBVIOUS
  <2>3. l \in Nat /\ l % 2 = 0 /\ k = l + 1 /\ l < Len(n.parts)
    BY <1>7, <1>8, <1>9, <2>2
  <2>4. k % 2 = 1 /\ k \in 1 .. Len(n.parts)
    BY <2>1, <2>3
  <2> QED
    BY <2>1, <2>4
<1>11. DictMade(t, p)
  BY <1>5, <1>7 DEF LaidOut
<1>12. \A i \in {j \in DOMAIN n.parts : j % 2 = 1} : t.nodes[n.parts[i]].is = "str"
  BY <1>5, <1>11, Zenon DEF DictMade
<1>13. t.nodes[q].is = "str"
  BY <1>8, <1>9, <1>10, <1>12
<1>14. StrMade(t, q)
  BY <1>8, <1>13 DEF LaidOut
<1>15. t.nodes[q].value.is = "str"
  BY <1>14 DEF StrMade, Str_
<1> QED
  BY <1>13, <1>15

LEMMA PlacedIs ==
  ASSUME NEW t, NEW p
  PROVE  Placed(t, p).v = t.nodes[p].value /\ Placed(t, p).start = p /\ Placed(t, p).end = t.nodes[p].last + 1
BY DEF Placed

(* The items of a frame are entries of a dictionary as it was made.          *)
LEMMA EntriesMade ==
  ASSUME NEW t, LaidOut(t), NEW p \in DOMAIN t.nodes, t.nodes[p].is = "dict",
         NEW items, DOMAIN items = DOMAIN t.nodes[p].parts,
         \A i \in DOMAIN items : items[i] = Placed(t, t.nodes[p].parts[i])
  PROVE  Dict_(Entries(items)) = t.nodes[p].value
<1>1. DictMade(t, p)
  BY DEF LaidOut
<1> DEFINE parts == t.nodes[p].parts
           keys == {k \in DOMAIN parts : k % 2 = 1}
           name(k) == t.nodes[parts[k]].value.s
           made(s) == Placed(t, parts[1 + CHOOSE k \in keys : name(k) = s])
           odd == {i \in DOMAIN items : i % 2 = 1}
           read(s) == items[1 + CHOOSE i \in odd : /\ items[i].v.s = s
                                                  /\ \A j \in odd : items[j].v.s = s => j <= i]
<1>2. /\ Len(parts) % 2 = 0
      /\ \A j, k \in keys : name(j) = name(k) => j = k
      /\ t.nodes[p].value = Dict_([s \in {name(k) : k \in keys} |-> made(s)])
  BY <1>1, Zenon DEF DictMade
<1>3. Entries(items) = [s \in {items[i].v.s : i \in odd} |-> read(s)]
  BY Zenon DEF Entries
<1>4. Len(parts) \in Nat /\ DOMAIN parts = 1 .. Len(parts) /\ DOMAIN items = DOMAIN parts
  BY NodeIs
<1>5. ASSUME NEW k \in keys PROVE k \in DOMAIN items /\ 1 + k \in DOMAIN items /\ k <= k
  <2>1. k \in 1 .. Len(parts) /\ k % 2 = 1
    BY <1>4
  <2>2. PICK l : l = Len(parts)
    OBVIOUS
  <2>3. l % 2 = 0
    BY <1>2, <2>2, Zenon
  <2>4. k \in 1 .. l /\ l \in Nat /\ k % 2 = 1 /\ DOMAIN items = 1 .. l
    BY <1>4, <2>1, <2>2, Zenon
  <2>5. k \in 1 .. l /\ 1 + k \in 1 .. l /\ k <= k
    BY <2>3, <2>4
  <2> QED
    BY <2>4, <2>5, Zenon
<1>6. ASSUME NEW i \in DOMAIN items PROVE items[i].v.s = name(i)
  <2>1. items[i] = Placed(t, parts[i])
    OBVIOUS
  <2> QED
    BY <2>1, PlacedIs
<1>7. odd = keys
  BY <1>4
<1>8. \A i \in DOMAIN items : items[i] = Placed(t, parts[i])
  OBVIOUS
<1> HIDE DEF keys, odd, name
<1>9. {items[i].v.s : i \in odd} = {name(k) : k \in keys}
  BY <1>5, <1>6, <1>7, Zenon
<1>10. ASSUME NEW s \in {name(k) : k \in keys} PROVE read(s) = made(s)
  <2>1. PICK k \in keys : name(k) = s
    BY <1>10
  <2>2. \A j \in keys : name(j) = s => j = k
    BY <1>2, <2>1, Zenon
  <2>3. (CHOOSE i \in keys : name(i) = s) = k
    BY <2>1, <2>2, Zenon
  <2>4. \A j \in odd : items[j].v.s = name(j)
    BY <1>5, <1>6, <1>7, Zenon
  <2>5. \A j \in odd : items[j].v.s = s => j <= k
    BY <1>5, <1>7, <2>1, <2>2, <2>4, Zenon
  <2>6. \A i \in odd : (items[i].v.s = s /\ \A j \in odd : items[j].v.s = s => j <= i) => i = k
    BY <1>7, <2>2, <2>4, Zenon
  <2>7. k \in odd /\ (items[k].v.s = s /\ \A j \in odd : items[j].v.s = s => j <= k)
    BY <1>7, <2>1, <2>4, <2>5, Zenon
  <2>8. (CHOOSE i \in odd : items[i].v.s = s /\ \A j \in odd : items[j].v.s = s => j <= i) = k
    BY <2>6, <2>7, Zenon
  <2>9. items[1 + k] = Placed(t, parts[1 + k])
    BY <1>5, <1>8, <2>1, Zenon
  <2> QED
    BY <2>3, <2>8, <2>9, Zenon
<1> HIDE DEF made, read
<1>11. [s \in {items[i].v.s : i \in odd} |-> read(s)] = [s \in {name(k) : k \in keys} |-> made(s)]
  BY <1>9, <1>10, Zenon
<1> QED
  BY <1>2, <1>3, <1>11, Zenon

(* At the end of what is open its value is the one that was made.           *)
LEMMA FrameValue ==
  ASSUME NEW t, LaidOut(t), NEW st, NEW q, StackRight(t, st, q), AtEnd(t, st, q)
  PROVE  /\ st[Len(st)].from \in DOMAIN t.nodes
         /\ t.nodes[st[Len(st)].from].is = st[Len(st)].is /\ st[Len(st)].is \in {"list", "dict"}
         /\ t.nodes[st[Len(st)].from].last = q
         /\ ValueOfFrame(st[Len(st)]) = t.nodes[st[Len(st)].from].value
         /\ st[Len(st)].is = "dict" => Len(st[Len(st)].items) % 2 = 0
<1>1. st \in Seq(FrameSet(t)) /\ Len(st) \in Nat /\ st # <<>>
  BY DEF StackRight, AtEnd
<1>2. PICK f : f = st[Len(st)]
  OBVIOUS
<1>3. f \in FrameSet(t) /\ Len(st) \in 1 .. Len(st)
  BY <1>1, <1>2
<1>4. PICK p : p = f.from
  OBVIOUS
<1>5. PICK n : n = t.nodes[p]
  OBVIOUS
<1>6. FrameRight(t, st, q, Len(st))
  BY <1>3 DEF StackRight
<1>7. /\ p \in DOMAIN t.nodes /\ n.is = f.is /\ f.is \in {"list", "dict"} /\ Len(f.items) \in Nat
      /\ \A i \in DOMAIN f.items : f.items[i] = Placed(t, n.parts[i])
      /\ DOMAIN f.items = 1 .. Len(f.items)
  BY <1>2, <1>3, <1>4, <1>5, <1>6, SMTT(40) DEF FrameRight, FrameSet
<1>8. Len(f.items) = Len(n.parts) /\ n.last = q
  BY <1>2, <1>4, <1>5 DEF AtEnd
<1>9. DOMAIN f.items = DOMAIN n.parts
  BY <1>5, <1>7, <1>8, NodeIs
<1>10. CASE f.is = "list"
  <2>1. n.value = List_([k \in DOMAIN n.parts |-> t.nodes[n.parts[k]].value])
    BY <1>5, <1>7, <1>10, Zenon DEF LaidOut, ListMade
  <2>2. ASSUME NEW i \in DOMAIN f.items PROVE f.items[i].v = t.nodes[n.parts[i]].value
    <3>1. f.items[i] = Placed(t, n.parts[i])
      BY <1>7
    <3> QED
      BY <3>1, PlacedIs
  <2>3. [i \in DOMAIN f.items |-> f.items[i].v] = [k \in DOMAIN n.parts |-> t.nodes[n.parts[k]].value]
    BY <1>9, <2>2, Zenon
  <2>4. ValueOfFrame(f) = n.value
    BY <1>10, <2>1, <2>3, Zenon DEF ValueOfFrame
  <2> QED
    BY <1>2, <1>4, <1>5, <1>7, <1>8, <1>10, <2>4
<1>11. CASE f.is = "dict"
  <2>1. Dict_(Entries(f.items)) = n.value
    BY <1>5, <1>7, <1>9, <1>11, EntriesMade
  <2>2. f.is # "list"
    BY <1>11
  <2>3. ValueOfFrame(f) = n.value
    BY <2>1, <2>2, Zenon DEF ValueOfFrame
  <2>4. Len(n.parts) % 2 = 0
    BY <1>5, <1>7, <1>11, Zenon DEF LaidOut, DictMade
  <2> QED
    BY <1>2, <1>4, <1>5, <1>7, <1>8, <1>11, <2>3, <2>4
<1> QED
  BY <1>7, <1>10, <1>11

(* Files are laid out.                                                      *)
LEMMA MadeLaid == ASSUME NEW t \in Made PROVE LaidOut(t) /\ MadeWell(t)
<1>1. MadeWell(t)
  BY MadeAssumption
<1> QED
  BY <1>1, Zenon DEF MadeWell

(* The file being read, in plain facts.                                     *)
LEMMA Decoding ==
  ASSUME FileInv, parseStage = "decoding"
  PROVE  /\ torrent \in Made /\ LaidOut(torrent) /\ DataRight(torrent, data, whole)
         /\ meta = Unread /\ found = {} /\ StackRight(torrent, stack, pos)
<1>1. torrent \in Made /\ DataRight(torrent, data, whole) /\ meta = Unread /\ found = {} /\ StackRight(torrent, stack, pos)
  BY DEF FileInv
<1> QED
  BY <1>1, MadeLaid

(* What is read goes on under what is open, or is the whole file.           *)
LEMMA DeliverStep ==
  ASSUME NEW t, LaidOut(t), NEW st, NEW q, StackRight(t, st, q), AtPart(t, st, q),
         Deliver(st, Placed(t, q)), parseStage = "decoding"
  PROVE  \/ parseStage' = "decoding" /\ StackRight(t, stack', t.nodes[q].last + 1)
         \/ parseStage' = "parsing" /\ root' = RootOf(t) /\ q = 1
<1>1. CASE st = <<>>
  <2>1. q = 1
    BY <1>1 DEF AtPart
  <2>2. parseStage' = "parsing" /\ root' = Placed(t, q).v
    BY <1>1, Zenon DEF Deliver
  <2> QED
    BY <2>1, <2>2, PlacedIs DEF RootOf
<1>2. CASE st # <<>>
  <2>1. stack' = Extended(st, Placed(t, q)) /\ parseStage' = "decoding"
    BY <1>2, Zenon DEF Deliver
  <2>2. StackRight(t, Extended(st, Placed(t, q)), t.nodes[q].last + 1)
    BY <1>2, Delivered
  <2> QED
    BY <2>1, <2>2, Zenon
<1> QED
  BY <1>1, <1>2

(* A step that delivers a value keeps the invariant.                        *)
LEMMA ValueStep ==
  ASSUME FileInv, parseStage = "decoding", NEW st, NEW q, StackRight(torrent, st, q), AtPart(torrent, st, q),
         torrent.nodes[q].last <= Len(data),
         Deliver(st, Placed(torrent, q)), pos' = torrent.nodes[q].last + 1,
         UNCHANGED <<torrent, data, whole, pending, found, meta>>
  PROVE  FileInv'
<1>1. /\ torrent \in Made /\ LaidOut(torrent) /\ DataRight(torrent, data, whole)
      /\ meta = Unread /\ found = {}
  BY Decoding
<1>2. \/ parseStage' = "decoding" /\ StackRight(torrent, stack', torrent.nodes[q].last + 1)
      \/ parseStage' = "parsing" /\ root' = RootOf(torrent) /\ q = 1
  BY <1>1, DeliverStep
<1>3. torrent' \in Made /\ DataRight(torrent', data', whole') /\ meta' = Unread /\ found' = {}
  BY <1>1
<1>4. CASE parseStage' = "decoding" /\ StackRight(torrent, stack', torrent.nodes[q].last + 1)
  <2>1. StackRight(torrent', stack', pos')
    BY <1>4
  <2> QED
    BY <1>3, <1>4, <2>1 DEF FileInv
<1>5. CASE parseStage' = "parsing" /\ root' = RootOf(torrent) /\ q = 1
  <2>1. Len(torrent.bytes) <= Len(data) /\ Len(torrent.bytes) \in Nat /\ Len(data) \in Nat
    BY <1>1, <1>5 DEF LaidOut, DataRight
  <2>2. whole
    BY <1>1, <2>1 DEF DataRight
  <2>3. whole' = TRUE /\ root' = RootOf(torrent')
    BY <1>5, <2>2 DEF FileInv
  <2> QED
    BY <1>3, <1>5, <2>3 DEF FileInv
<1> QED
  BY <1>2, <1>4, <1>5

(* A value that is no list and no dictionary is read.                       *)
LEMMA AtomStep == ASSUME FileInv, decodeAtom PROVE FileInv'
<1>1. parseStage = "decoding" /\ AtomThere
  BY DEF decodeAtom
<1>2. /\ LaidOut(torrent) /\ DataRight(torrent, data, whole) /\ StackRight(torrent, stack, pos)
  BY <1>1, Decoding
<1>3. pos <= Len(data) /\ Atom(data, pos).ok
  BY <1>1 DEF AtomThere, Callable
<1>4. pos \in 1 .. Len(torrent.bytes) /\ (AtPart(torrent, stack, pos) \/ torrent.bytes[pos] = "e")
  BY <1>2, Standing
<1>5. AtPart(torrent, stack, pos)
  <2>1. ASSUME torrent.bytes[pos] = "e" PROVE FALSE
    <3>1. data[pos] = "e"
      BY <1>2, <1>3, <1>4, <2>1 DEF DataRight
    <3>2. Atom(data, pos) = Bad
      BY <3>1, MarksAreNoDigits DEF Atom
    <3> QED
      BY <1>3, <3>2 DEF Bad
  <2> QED
    BY <1>4, <2>1
<1>6. pos \in DOMAIN torrent.nodes
  BY <1>5 DEF AtPart
<1>7. /\ torrent.nodes[pos].last <= Len(data)
      /\ Atom(data, pos) = Got(torrent.nodes[pos].value, torrent.nodes[pos].last + 1)
  <2>1. Bad.ok = FALSE
    BY DEF Bad
  <2>2. Atom(data, pos) # Bad
    BY <1>3, <2>1
  <2> QED
    BY <1>2, <1>3, <1>6, <2>2, ValueRead
<1>8. PICK got : got = Atom(data, pos)
  OBVIOUS
<1>9. got.value = torrent.nodes[pos].value /\ got.end = torrent.nodes[pos].last + 1
  BY <1>7, <1>8 DEF Got
<1>10. /\ pos' = got.end /\ Deliver(stack, [v |-> got.value, start |-> pos, end |-> got.end])
       /\ UNCHANGED <<torrent, data, whole, pending, found, meta>>
  BY <1>8, Zenon DEF decodeAtom
<1>11. [v |-> got.value, start |-> pos, end |-> got.end] = Placed(torrent, pos)
  BY <1>9 DEF Placed
<1>12. Deliver(stack, Placed(torrent, pos)) /\ pos' = torrent.nodes[pos].last + 1
  BY <1>9, <1>10, <1>11, Zenon
<1> QED
  BY <1>1, <1>2, <1>5, <1>7, <1>10, <1>12, ValueStep

(* A list or a dictionary opens.                                            *)
LEMMA OpenStep == ASSUME FileInv, OpenNested PROVE FileInv'
<1>1. parseStage = "decoding" /\ NestThere
  BY DEF OpenNested
<1>2. /\ torrent \in Made /\ LaidOut(torrent) /\ DataRight(torrent, data, whole)
      /\ meta = Unread /\ found = {} /\ StackRight(torrent, stack, pos)
  BY <1>1, Decoding
<1>3. pos <= Len(data) /\ data[pos] \in {"l", "d"}
  BY <1>1 DEF NestThere, Callable
<1>4. pos \in 1 .. Len(torrent.bytes) /\ (AtPart(torrent, stack, pos) \/ torrent.bytes[pos] = "e")
  BY <1>2, Standing
<1>5. data[pos] = torrent.bytes[pos]
  BY <1>2, <1>3, <1>4 DEF DataRight
<1>6. AtPart(torrent, stack, pos)
  BY <1>3, <1>4, <1>5
<1>7. pos \in DOMAIN torrent.nodes
  BY <1>6 DEF AtPart
<1>8. /\ torrent.nodes[pos].is \in {"list", "dict"}
      /\ torrent.nodes[pos].is = IF data[pos] = "l" THEN "list" ELSE "dict"
  BY <1>2, <1>3, <1>7, ValueRead
<1>9. StackRight(torrent, Append(stack, [is |-> torrent.nodes[pos].is, from |-> pos, items |-> <<>>]), pos + 1)
  BY <1>2, <1>6, <1>8, Pushed
<1>10. /\ stack' = Append(stack, [is |-> torrent.nodes[pos].is, from |-> pos, items |-> <<>>])
       /\ pos' = pos + 1 /\ UNCHANGED <<torrent, data, whole, parseStage, root, pending, found, meta>>
  BY <1>8, Zenon DEF OpenNested
<1>11. StackRight(torrent', stack', pos')
  BY <1>9, <1>10, Zenon
<1>12. torrent' \in Made /\ DataRight(torrent', data', whole') /\ meta' = Unread /\ found' = {} /\ parseStage' = "decoding"
  BY <1>1, <1>2, <1>10
<1> QED
  BY <1>11, <1>12 DEF FileInv

(* It closes.                                                               *)
LEMMA CloseStep == ASSUME FileInv, CloseNested PROVE FileInv'
<1>1. parseStage = "decoding" /\ CloseThere
  BY DEF CloseNested
<1>2. /\ LaidOut(torrent) /\ DataRight(torrent, data, whole) /\ StackRight(torrent, stack, pos)
  BY <1>1, Decoding
<1>3. stack # <<>> /\ pos <= Len(data) /\ data[pos] = "e"
  BY <1>1 DEF CloseThere
<1>4. pos \in 1 .. Len(torrent.bytes) /\ (AtPart(torrent, stack, pos) \/ AtEnd(torrent, stack, pos))
  BY <1>2, Standing
<1>5. AtEnd(torrent, stack, pos)
  <2>1. ASSUME AtPart(torrent, stack, pos) PROVE FALSE
    <3>1. pos \in DOMAIN torrent.nodes
      BY <2>1 DEF AtPart
    <3> QED
      BY <1>2, <1>3, <3>1, ValueRead
  <2> QED
    BY <1>4, <2>1
<1>6. PICK f : f = stack[Len(stack)]
  OBVIOUS
<1>7. PICK q : q = f.from
  OBVIOUS
<1>8. /\ q \in DOMAIN torrent.nodes /\ torrent.nodes[q].last = pos
      /\ ValueOfFrame(f) = torrent.nodes[q].value
  BY <1>2, <1>5, <1>6, <1>7, FrameValue, ZenonT(60)
<1>9. StackRight(torrent, Under, q) /\ AtPart(torrent, Under, q)
  BY <1>2, <1>3, <1>6, <1>7, Popped DEF Under
<1>10. Top = f
  BY <1>6 DEF Top
<1>11. /\ pos' = pos + 1 /\ Deliver(Under, [v |-> ValueOfFrame(f), start |-> q, end |-> pos + 1])
       /\ UNCHANGED <<torrent, data, whole, pending, found, meta>>
  BY <1>7, <1>10, Zenon DEF CloseNested
<1>12. [v |-> ValueOfFrame(f), start |-> q, end |-> pos + 1] = Placed(torrent, q)
  BY <1>8, Zenon DEF Placed
<1>13. Deliver(Under, Placed(torrent, q)) /\ pos' = torrent.nodes[q].last + 1
  BY <1>8, <1>11, <1>12, Zenon
<1>14. torrent.nodes[q].last <= Len(data)
  BY <1>3, <1>8
<1> QED
  BY <1>1, <1>9, <1>11, <1>13, <1>14, ValueStep

(* A file that is refused is not whole.                                     *)
LEMMA RefuseStep == ASSUME FileInv, Refuse PROVE FileInv'
<1>1. /\ parseStage = "decoding" /\ ~ AtomThere /\ ~ NestThere /\ ~ CloseThere
      /\ parseStage' = "read" /\ meta' = Bad /\ UNCHANGED <<torrent, data, whole>>
  BY DEF Refuse, ParseEnds
<1>2. /\ torrent \in Made /\ LaidOut(torrent) /\ DataRight(torrent, data, whole)
      /\ StackRight(torrent, stack, pos)
  BY <1>1, Decoding
<1>3. ASSUME whole PROVE FALSE
  <2>1. /\ pos \in 1 .. Len(torrent.bytes)
        /\ AtPart(torrent, stack, pos) \/ (AtEnd(torrent, stack, pos) /\ torrent.bytes[pos] = "e")
    BY <1>2, Standing
  <2>2. /\ Len(torrent.bytes) <= Len(data) /\ Len(data) \in Nat /\ Len(torrent.bytes) \in Nat
        /\ pos <= Len(data) /\ data[pos] = torrent.bytes[pos]
    <3>1. Len(torrent.bytes) <= Len(data) /\ data \in Seq(STRING) /\ torrent.bytes \in Seq(STRING)
      BY <1>2, <1>3 DEF DataRight, LaidOut
    <3>2. pos <= Len(data) /\ pos \in 1 .. Len(data) /\ pos <= Len(torrent.bytes)
      BY <2>1, <3>1
    <3> QED
      BY <1>2, <3>1, <3>2 DEF DataRight
  <2>3. CASE AtPart(torrent, stack, pos)
    <3>1. pos \in DOMAIN torrent.nodes /\ torrent.nodes[pos].depth = Len(stack)
      BY <2>3 DEF AtPart
    <3>2. Callable
      <4>1. torrent.nodes[pos].depth \in 0 .. MaxDepth
        BY <1>2, <3>1, NodeIs
      <4> QED
        BY <2>2, <3>1, <4>1, MadeAssumption DEF Callable
    <3>3. /\ Atom(data, pos) = IF torrent.nodes[pos].is \in {"int", "str"} /\ torrent.nodes[pos].last <= Len(data)
                               THEN Got(torrent.nodes[pos].value, torrent.nodes[pos].last + 1) ELSE Bad
          /\ data[pos] \in {"l", "d"} <=> torrent.nodes[pos].is \in {"list", "dict"}
      BY <1>2, <2>2, <3>1, ValueRead
    <3>4. torrent.nodes[pos].is \notin {"list", "dict"}
      BY <1>1, <3>2, <3>3 DEF NestThere
    <3>5. torrent.nodes[pos].is \in {"int", "str"} /\ torrent.nodes[pos].last <= Len(data)
      BY <1>2, <2>2, <3>1, <3>4, NodeIs
    <3>6. Atom(data, pos) = Got(torrent.nodes[pos].value, torrent.nodes[pos].last + 1)
      BY <3>3, <3>5, Zenon
    <3>7. Atom(data, pos).ok /\ Atom(data, pos).value = torrent.nodes[pos].value
      BY <3>6 DEF Got
    <3>8. InKeyPlace(stack) => Atom(data, pos).value.is = "str"
      BY <1>2, <2>3, <3>7, KeyPlace
    <3> QED
      BY <1>1, <3>2, <3>7, <3>8, Zenon DEF AtomThere
  <2>4. CASE AtEnd(torrent, stack, pos) /\ torrent.bytes[pos] = "e"
    <3>1. PICK f : f = stack[Len(stack)]
      OBVIOUS
    <3>2. /\ torrent.nodes[f.from].is = f.is /\ f.is \in {"list", "dict"}
          /\ f.is = "dict" => Len(f.items) % 2 = 0
      BY <1>2, <2>4, <3>1, FrameValue
    <3>3. stack # <<>>
      BY <2>4 DEF AtEnd
    <3>4. ~ InKeyPlace(Under)
      <4>1. ASSUME InKeyPlace(Under) PROVE FALSE
        <5>1. StackRight(torrent, Under, f.from) /\ AtPart(torrent, Under, f.from)
          BY <1>2, <3>1, <3>3, Popped DEF Under
        <5>2. torrent.nodes[f.from].is = "str"
          BY <1>2, <4>1, <5>1, KeyPlace
        <5> QED
          BY <3>2, <5>2
      <4> QED
        BY <4>1
    <3>5. Top = f
      BY <3>1 DEF Top
    <3> QED
      BY <1>1, <2>2, <2>4, <3>2, <3>3, <3>4, <3>5, Zenon DEF CloseThere
  <2> QED
    BY <2>1, <2>3, <2>4
<1>4. torrent' \in Made /\ DataRight(torrent', data', whole') /\ ~ whole'
  BY <1>1, <1>2, <1>3
<1> QED
  BY <1>1, <1>4 DEF FileInv

(* The info dictionary is a part of the file.                               *)
LEMMA InfoPlaced ==
  ASSUME NEW t, LaidOut(t), IsTorrent_(RootOf(t))
  PROVE  \E p \in DOMAIN t.nodes : RootOf(t).d[Key("info")] = Placed(t, p)
<1>1. PICK s : s = Key("info")
  OBVIOUS
<1>2. t.nodes[1].value.is = "dict" /\ s \in DOMAIN t.nodes[1].value.d /\ 1 \in DOMAIN t.nodes
  BY <1>1, Zenon DEF IsTorrent_, HasKey_, RootOf, LaidOut
<1>3. t.nodes[1].is \in {"int", "str", "list", "dict"}
  BY <1>2, NodeIs
<1>4. t.nodes[1].is # "int"
  <2>1. ASSUME t.nodes[1].is = "int" PROVE FALSE
    <3>1. IntMade(t, 1)
      BY <1>2, <2>1 DEF LaidOut
    <3>2. PICK n : t.nodes[1].value = Int_(n)
      BY <3>1, Zenon DEF IntMade
    <3> QED
      BY <1>2, <3>2 DEF Int_
  <2> QED
    BY <2>1
<1>5. t.nodes[1].is # "str"
  <2>1. ASSUME t.nodes[1].is = "str" PROVE FALSE
    <3>1. StrMade(t, 1)
      BY <1>2, <2>1 DEF LaidOut
    <3>2. PICK n : t.nodes[1].value = Str_(n)
      BY <3>1, Zenon DEF StrMade
    <3> QED
      BY <1>2, <3>2 DEF Str_
  <2> QED
    BY <2>1
<1>6. t.nodes[1].is # "list"
  <2>1. ASSUME t.nodes[1].is = "list" PROVE FALSE
    <3>1. ListMade(t, 1)
      BY <1>2, <2>1 DEF LaidOut
    <3>2. PICK n : t.nodes[1].value = List_(n)
      BY <3>1, Zenon DEF ListMade
    <3> QED
      BY <1>2, <3>2 DEF List_
  <2> QED
    BY <2>1
<1>7. t.nodes[1].is = "dict"
  BY <1>3, <1>4, <1>5, <1>6
<1>8. DictMade(t, 1) /\ NestMade(t, 1)
  BY <1>2, <1>7, NestOf DEF LaidOut
<1> DEFINE parts == t.nodes[1].parts
           keys == {k \in DOMAIN parts : k % 2 = 1}
           name(k) == t.nodes[parts[k]].value.s
           made == [x \in {name(k) : k \in keys} |-> Placed(t, parts[1 + CHOOSE k \in keys : name(k) = x])]
<1>9. Len(parts) % 2 = 0 /\ t.nodes[1].value = Dict_(made)
  BY <1>8, Zenon DEF DictMade
<1>10. Len(parts) \in Nat /\ DOMAIN parts = 1 .. Len(parts)
  BY <1>2, NodeIs
<1>11. t.nodes[1].value.d = made
  <2> HIDE DEF made
  <2> QED
    BY <1>9 DEF Dict_
<1>12. s \in {name(k) : k \in keys}
  BY <1>2, <1>11
<1>13. PICK k : k = CHOOSE i \in keys : name(i) = s
  OBVIOUS
<1>14. k \in keys
  <2> HIDE DEF keys, name
  <2> QED
    BY <1>12, <1>13, Zenon
<1>15. made[s] = Placed(t, parts[1 + k])
  <2> HIDE DEF keys, name, parts
  <2> QED
    BY <1>12, <1>13, Zenon
<1>16. 1 + k \in DOMAIN parts
  <2>1. PICK l : l = Len(parts)
    OBVIOUS
  <2>2. l % 2 = 0
    BY <1>9, <2>1, Zenon
  <2>3. k \in 1 .. l /\ l \in Nat /\ k % 2 = 1 /\ DOMAIN parts = 1 .. l
    BY <1>10, <1>14, <2>1, Zenon
  <2>4. 1 + k \in 1 .. l
    BY <2>2, <2>3
  <2> QED
    BY <2>3, <2>4, Zenon
<1>17. parts[1 + k] \in DOMAIN t.nodes
  BY <1>8, <1>16, Zenon DEF NestMade
<1>18. RootOf(t).d[Key("info")] = Placed(t, parts[1 + k])
  BY <1>1, <1>11, <1>15, Zenon DEF RootOf
<1> QED
  BY <1>17, <1>18, Zenon

(* The info-hash of a torrent is that of its info dictionary.               *)
LEMMA MetaIs ==
  ASSUME NEW t \in Made, t.is # "other", DataRight(t, data, TRUE), root = RootOf(t), NEW files
  PROVE  TorrentMeta(files) = [ok |-> TRUE, infoHash |-> IF t.v1 THEN t.info ELSE <<>>, files |-> files]
<1> DEFINE info == RootOf(t).d[Key("info")]
<1>1. LaidOut(t) /\ MadeWell(t)
  BY MadeLaid
<1>2. /\ IsTorrent_(RootOf(t)) /\ t.info = SubSeq(t.bytes, info.start, info.end - 1)
      /\ t.v1 = HasKey_(info.v, "pieces")
  BY <1>1, Zenon DEF MadeWell
<1>3. PICK p \in DOMAIN t.nodes : info = Placed(t, p)
  BY <1>1, <1>2, InfoPlaced
<1>4. PICK last : last = t.nodes[p].last
  OBVIOUS
<1>5. info.start = p /\ info.end - 1 = last
  <2>1. info.start = p /\ info.end = last + 1 /\ last \in Nat
    BY <1>1, <1>3, <1>4, NodeIs, PlacedIs
  <2> QED
    BY <2>1
<1>6. SubSeq(data, p, last) = SubSeq(t.bytes, p, last)
  <2>1. /\ p \in Nat /\ p > 0 /\ last \in Nat /\ last <= Len(t.bytes) /\ p <= last + 1 /\ t.bytes \in Seq(STRING)
    BY <1>1, <1>4, NodeIs
  <2>2. /\ data \in Seq(STRING) /\ Len(t.bytes) <= Len(data)
        /\ \A i \in 1 .. Len(data) : i <= Len(t.bytes) => data[i] = t.bytes[i]
    BY DEF DataRight
  <2>3. last <= Len(data)
    BY <2>1, <2>2
  <2> QED
    BY <2>1, <2>2, <2>3, SamePart
<1>7. InfoBytes(data, root) = t.info
  BY <1>2, <1>5, <1>6, Zenon DEF InfoBytes
<1>8. HasKey_(At(root, "info"), "pieces") = t.v1
  BY <1>2, Zenon DEF At
<1> QED
  BY <1>7, <1>8, Zenon DEF TorrentMeta

(* A file of a torrent has the torrent's name and its own length.           *)
LEMMA FileIs ==
  ASSUME NEW info, NEW name, Has_(info, "name", Str_(name)), NEW names, NEW v, NEW n,
         \/ Has_(v, "length", Int_(n))
         \/ ~ HasKey_(v, "length") /\ n = 0
  PROVE  File(info, names, v) = [under |-> Reading(name, "utf"), names |-> names, size |-> n]
<1>1. NameOf(info) = Reading(name, "utf")
  <2>1. HasKey_(info, "name") /\ At(info, "name") = Str_(name)
    BY Zenon DEF Has_
  <2>2. Str_(name).is = "str" /\ Str_(name).s = name
    BY DEF Str_
  <2> QED
    BY <2>1, <2>2, Zenon DEF NameOf
<1>2. SizeOf(v) = n
  <2>1. Int_(n).is = "int" /\ Int_(n).n = n
    BY DEF Int_
  <2>2. CASE Has_(v, "length", Int_(n))
    BY <2>1, <2>2, Zenon DEF SizeOf, Has_
  <2>3. CASE ~ HasKey_(v, "length") /\ n = 0
    BY <2>3, Zenon DEF SizeOf
  <2> QED
    BY <2>2, <2>3
<1> QED
  BY <1>1, <1>2, Zenon DEF File

(* The files a torrent of many lists.                                       *)
LEMMA ListedIs ==
  ASSUME NEW t, NEW info, Has_(info, "name", Str_(t.name)), ManyMade(t, info)
  PROVE  /\ HasKey_(info, "files") /\ At(info, "files").is = "list"
         /\ ListedFiles(info) = FilesRead(t, "utf")
<1> DEFINE l == At(info, "files").l
           listed == {e \in ToSet(l) : HasKey_(e, "path") /\ At(e, "path").is = "list"}
           file(i) == [under |-> t.name, names |-> t.entries[i].names, size |-> t.entries[i].size]
           Read(i) == FileRead(file(i), "utf")
<1>1. /\ HasKey_(info, "files") /\ At(info, "files").is = "list" /\ DOMAIN l = DOMAIN t.entries
      /\ t.files = {file(i) : i \in DOMAIN t.entries}
  BY Zenon DEF ManyMade
<1>2. ASSUME NEW i \in DOMAIN t.entries
      PROVE  /\ HasKey_(l[i], "path") /\ At(l[i], "path").is = "list"
             /\ File(info, PathParts(l[i]), l[i]) = Read(i)
  <2>1. PICK e : e = l[i]
    OBVIOUS
  <2>2. PICK made : made = t.entries[i]
    OBVIOUS
  <2>3. /\ Has_(e, "path", List_([k \in DOMAIN made.names |-> Str_(made.names[k])]))
        /\ made.names \in Seq(Seq(STRING))
        /\ \/ Has_(e, "length", Int_(made.size))
           \/ ~ HasKey_(e, "length") /\ made.size = 0
    BY <2>1, <2>2, Zenon DEF ManyMade
  <2>4. PICK parts : parts = [k \in DOMAIN made.names |-> Str_(made.names[k])]
    OBVIOUS
  <2>5. HasKey_(e, "path") /\ At(e, "path") = List_(parts)
    BY <2>3, <2>4, Zenon DEF Has_
  <2>6. List_(parts).is = "list" /\ List_(parts).l = parts
    BY DEF List_
  <2>7. \A k \in DOMAIN made.names : parts[k].is = "str" /\ parts[k].s = made.names[k]
    BY <2>4 DEF Str_
  <2>8. DOMAIN parts = DOMAIN made.names
    BY <2>4
  <2>9. PathParts(e) = [k \in {j \in DOMAIN parts : parts[j].is = "str"} |-> Reading(parts[k].s, "utf")]
    BY <2>5, <2>6, Zenon DEF PathParts
  <2>10. {j \in DOMAIN parts : parts[j].is = "str"} = DOMAIN made.names
    BY <2>7, <2>8, Zenon
  <2>11. PathParts(e) = [k \in DOMAIN made.names |-> Reading(made.names[k], "utf")]
    BY <2>7, <2>9, <2>10, Zenon
  <2>12. File(info, PathParts(e), e) = [under |-> Reading(t.name, "utf"), names |-> PathParts(e), size |-> made.size]
    BY <2>3, FileIs
  <2>13. Read(i) = [under |-> Reading(t.name, "utf"), size |-> made.size,
                    names |-> [k \in DOMAIN made.names |-> Reading(made.names[k], "utf")]]
    <3>1. PICK f : f = [under |-> t.name, names |-> made.names, size |-> made.size]
      OBVIOUS
    <3>2. f.under = t.name /\ f.names = made.names /\ f.size = made.size
      BY <3>1
    <3>3. Read(i) = FileRead(f, "utf")
      BY <2>2, <3>1, Zenon
    <3>4. FileRead(f, "utf") = [under |-> Reading(t.name, "utf"), size |-> made.size,
                                 names |-> [k \in DOMAIN made.names |-> Reading(made.names[k], "utf")]]
      BY <3>2, Zenon DEF FileRead
    <3> QED
      BY <3>3, <3>4
  <2> QED
    BY <2>1, <2>2, <2>5, <2>6, <2>11, <2>12, <2>13
<1>3. ToSet(l) = {l[i] : i \in DOMAIN t.entries}
  BY <1>1, Zenon DEF ToSet
<1> HIDE DEF l, Read, file
<1>4. listed = {l[i] : i \in DOMAIN t.entries}
  BY <1>2, <1>3, Zenon
<1>5. {File(info, PathParts(e), e) : e \in listed} = {Read(i) : i \in DOMAIN t.entries}
  <2> HIDE DEF listed
  <2> QED
    BY <1>2, <1>4, Zenon
<1>6. ListedFiles(info) = {File(info, PathParts(e), e) : e \in listed}
  BY Zenon DEF ListedFiles, l
<1>7. FilesRead(t, "utf") = {Read(i) : i \in DOMAIN t.entries}
  BY <1>1, Zenon DEF FilesRead, Read
<1> QED
  BY <1>1, <1>5, <1>6, <1>7, Zenon

(* Sets of naturals have a least member.                                    *)
LEMMA LeastNat ==
  ASSUME NEW S \in SUBSET Nat, S # {}
  PROVE  \E n \in S : \A k \in S : n <= k
<1>1. PICK b \in S : TRUE
  OBVIOUS
<1>2. PICK F : F = {0..k : k \in S \cap (0..b)}
  OBVIOUS
<1>3. F \in SUBSET (SUBSET (0..b)) /\ 0..b \in F
  <2>1. ASSUME NEW k \in S \cap (0..b) PROVE 0..k \in SUBSET (0..b)
    OBVIOUS
  <2>2. b \in S \cap (0..b)
    BY <1>1
  <2>3. QED BY <1>2, <2>1, <2>2
<1>4. IsWellFoundedOn(StrictSubsetOrdering(0..b), SUBSET (0..b))
  <2>1. IsFiniteSet(0..b)
    BY <1>1, FS_Interval
  <2>2. QED BY <2>1, FS_StrictSubsetOrderingWellFounded, FS_FiniteSubsetsOfFinite
<1>5. PICK T \in F : \A U \in F : <<U, T>> \notin StrictSubsetOrdering(0..b)
  BY <1>3, <1>4, WFMin
<1>6. PICK n \in S \cap (0..b) : T = 0..n
  BY <1>2, <1>5
<1>7. ASSUME NEW k \in S, ~(n <= k) PROVE FALSE
  <2>1. k \in 0..b /\ k \in Nat /\ n \in Nat /\ k < n
    BY <1>6, <1>7
  <2>2. 0..k \in F
    BY <1>2, <2>1
  <2>3. 0..k \subseteq 0..n /\ n \in 0..n /\ n \notin 0..k
    BY <2>1
  <2>4. <<0..k, T>> \in StrictSubsetOrdering(0..b)
    BY <1>3, <1>6, <2>2, <2>3 DEF StrictSubsetOrdering
  <2>5. QED BY <1>5, <2>2, <2>4
<1>8. QED BY <1>6, <1>7

(* What a tree is made of, in plain facts.                                  *)
LEMMA TreeIs ==
  ASSUME NEW t, NEW info, TreeMade(t, info)
  PROVE  /\ <<>> \in DOMAIN t.trees
         /\ \A p \in DOMAIN t.trees : p \in Seq(Seq(STRING)) /\ Len(p) \in Nat
         /\ \A p \in DOMAIN t.trees : \A name \in DOMAIN t.trees[p].d \ {<<>>} :
              Named_(t.trees[p], name) =>
                /\ Append(p, name) \in DOMAIN t.trees
                /\ t.trees[Append(p, name)] = t.trees[p].d[name].v
         /\ \A q \in DOMAIN t.trees : q # <<>> =>
              \E p \in DOMAIN t.trees : \E name \in DOMAIN t.trees[p].d \ {<<>>} :
                Named_(t.trees[p], name) /\ q = Append(p, name)
<1>1. \A p \in DOMAIN t.trees : p \in Seq(Seq(STRING))
  BY Zenon DEF TreeMade
<1>2. \A p \in DOMAIN t.trees : Len(p) \in Nat
  BY <1>1
<1> QED
  BY <1>1, <1>2, Zenon DEF TreeMade

LEMMA OneLonger ==
  ASSUME NEW S, NEW p \in Seq(S), NEW x
  PROVE  Len(Append(p, x)) = Len(p) + 1
OBVIOUS

LEMMA NoneIsEmpty ==
  ASSUME NEW S, NEW p \in Seq(S)
  PROVE  Len(p) = 0 <=> p = <<>>
OBVIOUS

(* The walk starts at the root of the tree with no file.                    *)
LEMMA LevelStart ==
  ASSUME NEW t, NEW info, TreeMade(t, info)
  PROVE  /\ Level(t, 0) = {[names |-> <<>>, tree |-> t.trees[<<>>]]}
         /\ FilesAbove(t, 0) = {}
<1>1. /\ <<>> \in DOMAIN t.trees
      /\ \A p \in DOMAIN t.trees : p \in Seq(Seq(STRING)) /\ Len(p) \in Nat
  BY TreeIs
<1>2. {q \in DOMAIN t.trees : Len(q) = 0} = {<<>>}
  BY <1>1, NoneIsEmpty
<1>3. {q \in DOMAIN t.trees : Len(q) < 0 /\ Named_(t.trees[q], <<>>)} = {}
  BY <1>1
<1> QED
  BY <1>2, <1>3, Zenon DEF Level, FilesAbove

(* The directories in those of a level are those of the next.               *)
LEMMA LevelNext ==
  ASSUME NEW t, NEW info, TreeMade(t, info), NEW k \in Nat
  PROVE  UNION {DirsIn(dir) : dir \in Level(t, k)} = Level(t, k + 1)
<1> DEFINE D(p) == [names |-> p, tree |-> t.trees[p]]
<1>1. /\ \A p \in DOMAIN t.trees : p \in Seq(Seq(STRING)) /\ Len(p) \in Nat
      /\ \A p \in DOMAIN t.trees : \A name \in DOMAIN t.trees[p].d \ {<<>>} :
           Named_(t.trees[p], name) =>
             /\ Append(p, name) \in DOMAIN t.trees
             /\ t.trees[Append(p, name)] = t.trees[p].d[name].v
      /\ \A q \in DOMAIN t.trees : q # <<>> =>
           \E p \in DOMAIN t.trees : \E name \in DOMAIN t.trees[p].d \ {<<>>} :
             Named_(t.trees[p], name) /\ q = Append(p, name)
  BY TreeIs
<1>2. \A n : Level(t, n) = {D(p) : p \in {q \in DOMAIN t.trees : Len(q) = n}}
  BY Zenon DEF Level
<1>3. ASSUME NEW p \in DOMAIN t.trees
      PROVE  DirsIn(D(p)) = {[names |-> Append(p, name), tree |-> t.trees[p].d[name].v] :
                               name \in {x \in DOMAIN t.trees[p].d \ {<<>>} : Named_(t.trees[p], x)}}
  <2>1. D(p).names = p /\ D(p).tree = t.trees[p]
    OBVIOUS
  <2> HIDE DEF D
  <2> QED
    BY <2>1, Zenon DEF DirsIn
<1>4. ASSUME NEW p \in DOMAIN t.trees, NEW name \in DOMAIN t.trees[p].d \ {<<>>}, Named_(t.trees[p], name)
      PROVE  /\ Append(p, name) \in DOMAIN t.trees /\ Len(Append(p, name)) = Len(p) + 1
             /\ D(Append(p, name)) = [names |-> Append(p, name), tree |-> t.trees[p].d[name].v]
  <2>1. Append(p, name) \in DOMAIN t.trees /\ t.trees[Append(p, name)] = t.trees[p].d[name].v
    BY <1>1, <1>4, Zenon
  <2>2. Len(Append(p, name)) = Len(p) + 1
    BY <1>1, OneLonger
  <2> QED
    BY <2>1, <2>2, Zenon
<1> HIDE DEF D
<1>5. ASSUME NEW dir \in Level(t, k), NEW x \in DirsIn(dir) PROVE x \in Level(t, k + 1)
  <2>1. PICK p \in DOMAIN t.trees : Len(p) = k /\ dir = D(p)
    BY <1>2, <1>5, ZenonT(60)
  <2>2. PICK name \in DOMAIN t.trees[p].d \ {<<>>} :
          Named_(t.trees[p], name) /\ x = [names |-> Append(p, name), tree |-> t.trees[p].d[name].v]
    BY <1>3, <1>5, <2>1, Zenon
  <2>3. /\ Append(p, name) \in DOMAIN t.trees /\ Len(Append(p, name)) = k + 1
        /\ x = D(Append(p, name))
    BY <1>4, <2>1, <2>2, Zenon
  <2> QED
    BY <1>2, <2>3, Zenon
<1>6. ASSUME NEW x \in Level(t, k + 1) PROVE \E dir \in Level(t, k) : x \in DirsIn(dir)
  <2>1. PICK q \in DOMAIN t.trees : Len(q) = k + 1 /\ x = D(q)
    BY <1>2, <1>6, ZenonT(60)
  <2>2. q # <<>>
    <3>1. q \in Seq(Seq(STRING)) /\ Len(q) # 0
      BY <1>1, <2>1
    <3> QED
      BY <3>1, NoneIsEmpty
  <2>3. PICK p \in DOMAIN t.trees : \E name \in DOMAIN t.trees[p].d \ {<<>>} :
          Named_(t.trees[p], name) /\ q = Append(p, name)
    BY <1>1, <2>2, Zenon
  <2>4. PICK name \in DOMAIN t.trees[p].d \ {<<>>} : Named_(t.trees[p], name) /\ q = Append(p, name)
    BY <2>3, Zenon
  <2>5. Len(q) = Len(p) + 1 /\ x = [names |-> Append(p, name), tree |-> t.trees[p].d[name].v]
    BY <1>4, <2>1, <2>4, Zenon
  <2>6. Len(p) = k
    <3>1. Len(p) \in Nat
      BY <1>1
    <3> QED
      BY <2>1, <2>5, <3>1
  <2>7. D(p) \in Level(t, k)
    BY <1>2, <2>6, Zenon
  <2>8. x \in DirsIn(D(p))
    BY <1>3, <2>4, <2>5, Zenon
  <2> QED
    BY <2>7, <2>8, Zenon
<1> QED
  BY <1>5, <1>6, Zenon

(* The files found with a level are those above the next.                   *)
LEMMA FilesNext ==
  ASSUME NEW t, NEW info, TreeMade(t, info), Has_(info, "name", Str_(t.name)), NEW k \in Nat
  PROVE  FilesAbove(t, k) \cup {File(info, KeysRead(dir.names), dir.tree.d[<<>>].v) :
                                  dir \in {x \in Level(t, k) : Named_(x.tree, <<>>)}}
           = FilesAbove(t, k + 1)
<1> DEFINE D(p) == [names |-> p, tree |-> t.trees[p]]
           F(p) == FileRead([under |-> t.name, names |-> p, size |-> t.sizes[p]], "latin")
           G(dir) == File(info, KeysRead(dir.names), dir.tree.d[<<>>].v)
           leaves == {q \in DOMAIN t.trees : Named_(t.trees[q], <<>>)}
           here == {x \in Level(t, k) : Named_(x.tree, <<>>)}
<1>1. \A p \in DOMAIN t.trees : Len(p) \in Nat
  BY TreeIs
<1>2. \A n : FilesAbove(t, n) = {F(p) : p \in {q \in DOMAIN t.trees : Len(q) < n /\ Named_(t.trees[q], <<>>)}}
  BY Zenon DEF FilesAbove
<1>3. Level(t, k) = {D(p) : p \in {q \in DOMAIN t.trees : Len(q) = k}}
  BY Zenon DEF Level
<1>4. ASSUME NEW p \in DOMAIN t.trees PROVE D(p).names = p /\ D(p).tree = t.trees[p]
  OBVIOUS
<1>5. ASSUME NEW p \in leaves PROVE G(D(p)) = F(p)
  <2>1. Has_(t.trees[p].d[<<>>].v, "length", Int_(t.sizes[p]))
    BY <1>5, Zenon DEF TreeMade
  <2>2. File(info, KeysRead(p), t.trees[p].d[<<>>].v)
          = [under |-> Reading(t.name, "utf"), names |-> KeysRead(p), size |-> t.sizes[p]]
    BY <2>1, FileIs
  <2>3. F(p) = [under |-> Reading(t.name, "utf"), names |-> KeysRead(p), size |-> t.sizes[p]]
    <3>1. PICK f : f = [under |-> t.name, names |-> p, size |-> t.sizes[p]]
      OBVIOUS
    <3>2. f.under = t.name /\ f.names = p /\ f.size = t.sizes[p]
      BY <3>1
    <3>3. FileRead(f, "latin") = [under |-> Reading(t.name, "utf"), names |-> KeysRead(p), size |-> t.sizes[p]]
      BY <3>2, Zenon DEF FileRead, KeysRead
    <3> QED
      BY <3>1, <3>3, Zenon
  <2>4. G(D(p)) = File(info, KeysRead(p), t.trees[p].d[<<>>].v)
    BY <1>4
  <2> QED
    BY <2>2, <2>3, <2>4, Zenon
<1> HIDE DEF D, F, G
<1>6. {G(dir) : dir \in here} = {F(p) : p \in {q \in leaves : Len(q) = k}}
  <2>1. ASSUME NEW dir \in here PROVE \E p \in {q \in leaves : Len(q) = k} : G(dir) = F(p)
    <3>1. PICK p \in DOMAIN t.trees : Len(p) = k /\ dir = D(p)
      BY <1>3, <2>1, Zenon
    <3>2. Named_(t.trees[p], <<>>)
      BY <1>4, <2>1, <3>1, Zenon
    <3> QED
      BY <1>5, <3>1, <3>2, Zenon
  <2>2. ASSUME NEW p \in {q \in leaves : Len(q) = k} PROVE \E dir \in here : G(dir) = F(p)
    <3>1. p \in DOMAIN t.trees /\ Len(p) = k /\ Named_(t.trees[p], <<>>)
      OBVIOUS
    <3>2. D(p) \in here
      BY <1>3, <1>4, <3>1, Zenon
    <3> QED
      BY <1>5, <3>1, <3>2, Zenon
  <2> HIDE DEF here, leaves
  <2> QED
    BY <2>1, <2>2, Zenon
<1>7. ASSUME NEW q \in DOMAIN t.trees PROVE Len(q) < k + 1 <=> (Len(q) < k \/ Len(q) = k)
  BY <1>1
<1>8. {F(p) : p \in {q \in DOMAIN t.trees : Len(q) < k /\ Named_(t.trees[q], <<>>)}}
        \cup {F(p) : p \in {q \in leaves : Len(q) = k}}
        = {F(p) : p \in {q \in DOMAIN t.trees : Len(q) < k + 1 /\ Named_(t.trees[q], <<>>)}}
  BY <1>7, Zenon
<1>9. {G(dir) : dir \in here} = {File(info, KeysRead(dir.names), dir.tree.d[<<>>].v) : dir \in here}
  BY Zenon DEF G
<1> QED
  BY <1>2, <1>6, <1>8, <1>9, Zenon

(* Where a level is empty the walk has seen every directory.                *)
LEMMA LevelsEnd ==
  ASSUME NEW t, NEW info, TreeMade(t, info), NEW k \in Nat, Level(t, k) = {}
  PROVE  FilesAbove(t, k) = FilesRead(t, "latin")
<1>1. /\ \A p \in DOMAIN t.trees : p \in Seq(Seq(STRING)) /\ Len(p) \in Nat
      /\ \A q \in DOMAIN t.trees : q # <<>> =>
           \E p \in DOMAIN t.trees : \E name \in DOMAIN t.trees[p].d \ {<<>>} :
             Named_(t.trees[p], name) /\ q = Append(p, name)
  BY TreeIs
<1>2. \A p \in DOMAIN t.trees : Len(p) # k
  BY Zenon DEF Level
<1> DEFINE S == {Len(p) : p \in {q \in DOMAIN t.trees : k < Len(q)}}
<1>3. S = {}
  <2>1. SUFFICES ASSUME S # {} PROVE FALSE
    OBVIOUS
  <2>2. S \in SUBSET Nat
    BY <1>1
  <2>3. PICK n \in S : \A m \in S : n <= m
    BY <2>1, <2>2, LeastNat
  <2>4. PICK q \in DOMAIN t.trees : k < Len(q) /\ n = Len(q)
    BY <2>3
  <2>5. q # <<>>
    <3>1. q \in Seq(Seq(STRING)) /\ Len(q) # 0
      BY <1>1, <2>4
    <3> QED
      BY <3>1, NoneIsEmpty
  <2>6. PICK p \in DOMAIN t.trees : \E name \in DOMAIN t.trees[p].d \ {<<>>} : q = Append(p, name)
    BY <1>1, <2>5, Zenon
  <2>7. Len(q) = Len(p) + 1 /\ Len(p) \in Nat /\ Len(p) # k
    BY <1>1, <1>2, <2>6, OneLonger
  <2>8. k < Len(p) /\ Len(p) < n
    BY <2>4, <2>7
  <2>9. Len(p) \in S
    BY <2>8
  <2> HIDE DEF S
  <2> QED
    BY <2>3, <2>4, <2>7, <2>8, <2>9
<1>4. \A p \in DOMAIN t.trees : Len(p) < k
  <2>1. ASSUME NEW p \in DOMAIN t.trees PROVE ~ k < Len(p)
    BY <1>3
  <2> QED
    BY <1>1, <1>2, <2>1
<1>5. t.files = {[under |-> t.name, names |-> path, size |-> t.sizes[path]] :
                    path \in {q \in DOMAIN t.trees : Named_(t.trees[q], <<>>)}}
  BY Zenon DEF TreeMade
<1>6. {q \in DOMAIN t.trees : Len(q) < k /\ Named_(t.trees[q], <<>>)}
        = {q \in DOMAIN t.trees : Named_(t.trees[q], <<>>)}
  BY <1>4, Zenon
<1> QED
  BY <1>5, <1>6, Zenon DEF FilesAbove, FilesRead

(* A file that is decoded, in plain facts.                                  *)
LEMMA Parsing ==
  ASSUME FileInv, parseStage \in {"parsing", "walking"}
  PROVE  /\ torrent \in Made /\ MadeWell(torrent) /\ DataRight(torrent, data, TRUE) /\ whole = TRUE
         /\ meta = Unread /\ root = RootOf(torrent)
         /\ At(root, "info") = RootOf(torrent).d[Key("info")].v
         /\ parseStage = "parsing" => found = {}
<1>1. /\ torrent \in Made /\ DataRight(torrent, data, whole) /\ whole = TRUE
      /\ meta = Unread /\ root = RootOf(torrent) /\ (parseStage = "parsing" => found = {})
  BY DEF FileInv
<1> QED
  BY <1>1, MadeLaid, Zenon DEF At

(* What stands in a torrent is of one of the kinds.                         *)
LEMMA InfoIs ==
  ASSUME NEW t, MadeWell(t), t.is # "other", NEW info, info = RootOf(t).d[Key("info")].v
  PROVE  /\ IsTorrent_(RootOf(t)) /\ Has_(info, "name", Str_(t.name))
         /\ \/ t.is = "one" /\ OneMade(t, info)
            \/ t.is = "many" /\ ManyMade(t, info)
            \/ t.is = "tree" /\ TreeMade(t, info)
            \/ /\ t.is = "bare" /\ t.files = {}
               /\ ~ HasKey_(info, "files") /\ ~ HasKey_(info, "length") /\ ~ HasKey_(info, "file tree")
BY Zenon DEF MadeWell

(* What is made of the files of a torrent is right.                         *)
LEMMA ReadRight ==
  ASSUME torrent \in Made, DataRight(torrent, data, TRUE), whole = TRUE, torrent.is # "other",
         root = RootOf(torrent), NEW files, files = FilesOf(torrent),
         ParseEnds(TorrentMeta(files)), UNCHANGED <<torrent, data, whole>>
  PROVE  FileInv'
<1>1. TorrentMeta(files) = MetaRight(torrent)
  BY MetaIs, Zenon DEF MetaRight
<1>2. parseStage' = "read" /\ meta' = MetaRight(torrent')
  BY <1>1 DEF ParseEnds
<1>3. torrent' \in Made /\ DataRight(torrent', data', whole') /\ whole' = TRUE /\ torrent'.is # "other"
  OBVIOUS
<1> QED
  BY <1>2, <1>3, Zenon DEF FileInv

(* A decoded file is read, or the walk of its tree starts.                  *)
LEMMA ParseStep == ASSUME FileInv, parseTorrent PROVE FileInv'
<1>1. parseStage = "parsing" /\ UNCHANGED <<torrent, data, whole, root>>
  BY DEF parseTorrent
<1>2. PICK info : info = At(root, "info")
  OBVIOUS
<1>3. /\ torrent \in Made /\ MadeWell(torrent) /\ DataRight(torrent, data, TRUE) /\ whole = TRUE
      /\ meta = Unread /\ root = RootOf(torrent) /\ found = {}
      /\ info = RootOf(torrent).d[Key("info")].v
  BY <1>1, <1>2, Parsing
<1>4. CASE torrent.is = "other"
  <2>1. ~ IsTorrent_(root)
    BY <1>3, <1>4, Zenon DEF MadeWell
  <2>2. parseStage' = "read" /\ meta' = Bad
    BY <2>1, Zenon DEF parseTorrent, ParseEnds
  <2>3. torrent' \in Made /\ DataRight(torrent', data', whole') /\ torrent'.is = "other"
    BY <1>1, <1>3, <1>4
  <2> QED
    BY <2>2, <2>3, Zenon DEF FileInv
<1>5. CASE torrent.is # "other"
  <2>1. /\ IsTorrent_(root) /\ Has_(info, "name", Str_(torrent.name))
        /\ \/ torrent.is = "one" /\ OneMade(torrent, info)
           \/ torrent.is = "many" /\ ManyMade(torrent, info)
           \/ torrent.is = "tree" /\ TreeMade(torrent, info)
           \/ /\ torrent.is = "bare" /\ torrent.files = {}
              /\ ~ HasKey_(info, "files") /\ ~ HasKey_(info, "length") /\ ~ HasKey_(info, "file tree")
    BY <1>3, <1>5, InfoIs
  <2>2. CASE torrent.is = "one" /\ OneMade(torrent, info)
    <3>1. /\ ~ HasKey_(info, "files") /\ Has_(info, "length", Int_(torrent.size))
          /\ torrent.files = {[under |-> torrent.name, names |-> <<>>, size |-> torrent.size]}
      BY <2>2, Zenon DEF OneMade
    <3>2. HasKey_(info, "length") /\ At(info, "length").is = "int"
      BY <3>1 DEF Has_, Int_
    <3>3. File(info, <<>>, info) = FileRead([under |-> torrent.name, names |-> <<>>, size |-> torrent.size], "utf")
      <4>1. PICK names : names = <<>>
        OBVIOUS
      <4>2. Has_(info, "name", Str_(torrent.name)) /\ Has_(info, "length", Int_(torrent.size))
        BY <2>1, <3>1
      <4>3. File(info, names, info) = [under |-> Reading(torrent.name, "utf"), names |-> names, size |-> torrent.size]
        BY <4>2, FileIs
      <4>4. PICK f : f = [under |-> torrent.name, names |-> names, size |-> torrent.size]
        OBVIOUS
      <4>5. f.under = torrent.name /\ f.names = names /\ f.size = torrent.size
        BY <4>4
      <4>6. FileRead(f, "utf") = [under |-> Reading(torrent.name, "utf"), size |-> torrent.size,
                                   names |-> [j \in DOMAIN names |-> Reading(names[j], "utf")]]
        BY <4>5, Zenon DEF FileRead
      <4>7. [j \in DOMAIN names |-> Reading(names[j], "utf")] = names
        BY <4>1
      <4> QED
        BY <4>1, <4>3, <4>4, <4>6, <4>7
    <3>4. ParseEnds(TorrentMeta({File(info, <<>>, info)}))
      BY <1>2, <2>1, <3>1, <3>2, Zenon DEF parseTorrent
    <3>5. {File(info, <<>>, info)} = FilesOf(torrent)
      <4>1. torrent.is # "tree"
        BY <2>2
      <4>2. FilesOf(torrent) = FilesRead(torrent, "utf")
        BY <4>1, Zenon DEF FilesOf
      <4> QED
        BY <3>1, <3>3, <4>2, Zenon DEF FilesRead
    <3> QED
      BY <1>1, <1>3, <1>5, <3>4, <3>5, ReadRight
  <2>3. CASE torrent.is = "many" /\ ManyMade(torrent, info)
    <3>1. /\ HasKey_(info, "files") /\ At(info, "files").is = "list"
          /\ ListedFiles(info) = FilesRead(torrent, "utf")
      BY <2>1, <2>3, ListedIs
    <3>2. ParseEnds(TorrentMeta(ListedFiles(info)))
      BY <1>2, <2>1, <3>1, Zenon DEF parseTorrent
    <3>3. torrent.is # "tree"
      BY <2>3
    <3>4. ListedFiles(info) = FilesOf(torrent)
      BY <3>1, <3>3, Zenon DEF FilesOf
    <3> QED
      BY <1>1, <1>3, <1>5, <3>2, <3>4, ReadRight
  <2>4. CASE torrent.is = "tree" /\ TreeMade(torrent, info)
    <3>1. /\ ~ HasKey_(info, "files") /\ ~ HasKey_(info, "length")
          /\ HasKey_(info, "file tree") /\ At(info, "file tree") = torrent.trees[<<>>]
          /\ torrent.trees[<<>>].is = "dict"
      BY <2>4, Zenon DEF TreeMade, Has_
    <3>2. /\ parseStage' = "walking" /\ pending' = {[names |-> <<>>, tree |-> At(info, "file tree")]}
          /\ UNCHANGED <<found, meta>>
      BY <1>2, <2>1, <3>1, Zenon DEF parseTorrent
    <3>3. pending' = Level(torrent, 0) /\ found' = FilesAbove(torrent, 0)
      BY <1>3, <2>4, <3>1, <3>2, LevelStart
    <3>4. /\ torrent' \in Made /\ DataRight(torrent', data', whole') /\ whole' = TRUE
          /\ root' = RootOf(torrent') /\ torrent'.is = "tree" /\ meta' = Unread
      BY <1>1, <1>3, <2>4, <3>2
    <3>5. \E k \in Nat : pending' = Level(torrent', k) /\ found' = FilesAbove(torrent', k)
      BY <1>1, <3>3
    <3> QED
      BY <3>2, <3>4, <3>5, Zenon DEF FileInv
  <2>5. CASE /\ torrent.files = {}
             /\ ~ HasKey_(info, "files") /\ ~ HasKey_(info, "length") /\ ~ HasKey_(info, "file tree")
    <3>1. ParseEnds(TorrentMeta({}))
      BY <1>2, <2>1, <2>5, Zenon DEF parseTorrent
    <3>2. FilesOf(torrent) = {}
      BY <2>5, Zenon DEF FilesOf, FilesRead
    <3> QED
      BY <1>1, <1>3, <1>5, <3>1, <3>2, ReadRight
  <2> QED
    BY <2>1, <2>2, <2>3, <2>4, <2>5
<1> QED
  BY <1>4, <1>5

(* The tree of which the walk is at a level.                                *)
LEMMA Walking ==
  ASSUME FileInv, parseStage = "walking"
  PROVE  /\ torrent \in Made /\ DataRight(torrent, data, TRUE) /\ whole = TRUE /\ meta = Unread
         /\ root = RootOf(torrent) /\ torrent.is = "tree"
         /\ TreeMade(torrent, At(root, "info")) /\ Has_(At(root, "info"), "name", Str_(torrent.name))
         /\ \E k \in Nat : pending = Level(torrent, k) /\ found = FilesAbove(torrent, k)
<1>1. /\ torrent.is = "tree"
      /\ \E k \in Nat : pending = Level(torrent, k) /\ found = FilesAbove(torrent, k)
  BY DEF FileInv
<1>2. /\ torrent \in Made /\ MadeWell(torrent) /\ DataRight(torrent, data, TRUE) /\ whole = TRUE
      /\ meta = Unread /\ root = RootOf(torrent)
      /\ At(root, "info") = RootOf(torrent).d[Key("info")].v
  BY Parsing
<1>3. TreeMade(torrent, At(root, "info")) /\ Has_(At(root, "info"), "name", Str_(torrent.name))
  BY <1>1, <1>2, InfoIs
<1> QED
  BY <1>1, <1>2, <1>3

LEMMA WalkStep == ASSUME FileInv, walkV2Tree PROVE FileInv'
<1> DEFINE info == At(root, "info")
<1>1. /\ parseStage = "walking" /\ UNCHANGED <<torrent, data, whole, parseStage, root, meta>>
      /\ found' = found \cup {File(info, KeysRead(dir.names), dir.tree.d[<<>>].v) :
                                dir \in {x \in pending : Named_(x.tree, <<>>)}}
      /\ pending' = UNION {DirsIn(dir) : dir \in pending}
  BY DEF walkV2Tree
<1>2. /\ torrent \in Made /\ DataRight(torrent, data, TRUE) /\ whole = TRUE /\ meta = Unread
      /\ root = RootOf(torrent) /\ torrent.is = "tree"
      /\ TreeMade(torrent, info) /\ Has_(info, "name", Str_(torrent.name))
  BY <1>1, Walking
<1>3. PICK k \in Nat : pending = Level(torrent, k) /\ found = FilesAbove(torrent, k)
  BY <1>1, Walking
<1> HIDE DEF info
<1>4. pending' = Level(torrent, k + 1)
  BY <1>1, <1>2, <1>3, LevelNext, Zenon
<1>5. found' = FilesAbove(torrent, k + 1)
  BY <1>1, <1>2, <1>3, FilesNext, Zenon
<1>6. \E n \in Nat : pending' = Level(torrent', n) /\ found' = FilesAbove(torrent', n)
  <2>1. k + 1 \in Nat
    BY <1>3
  <2> QED
    BY <1>1, <1>4, <1>5, <2>1
<1>7. /\ torrent' \in Made /\ DataRight(torrent', data', whole') /\ whole' = TRUE
      /\ root' = RootOf(torrent') /\ torrent'.is = "tree" /\ meta' = Unread /\ parseStage' = "walking"
  BY <1>1, <1>2
<1> QED
  BY <1>6, <1>7, Zenon DEF FileInv

LEMMA WalkedStep == ASSUME FileInv, TreeWalked PROVE FileInv'
<1>1. /\ parseStage = "walking" /\ pending = {} /\ ParseEnds(TorrentMeta(found))
      /\ UNCHANGED <<torrent, data, whole>>
  BY DEF TreeWalked
<1>2. /\ torrent \in Made /\ DataRight(torrent, data, TRUE) /\ whole = TRUE
      /\ root = RootOf(torrent) /\ torrent.is = "tree" /\ TreeMade(torrent, At(root, "info"))
  BY <1>1, Walking
<1>3. PICK k \in Nat : pending = Level(torrent, k) /\ found = FilesAbove(torrent, k)
  BY <1>1, Walking
<1>4. found = FilesOf(torrent)
  <2>1. FilesAbove(torrent, k) = FilesRead(torrent, "latin")
    BY <1>1, <1>2, <1>3, LevelsEnd, Zenon
  <2> QED
    BY <1>2, <1>3, <2>1, Zenon DEF FilesOf
<1>5. torrent.is # "other"
  BY <1>2
<1> QED
  BY <1>1, <1>2, <1>4, <1>5, ReadRight

(* The integers of the decoder keep the bits that count.                    *)
LEMMA LowBits ==
  ASSUME NEW s \in Nat, NEW x, x = s % IntModulus
  PROVE  \E r \in Nat : x = s - 4096 * r /\ x \in Nat
<1>1. PICK m : m = IntModulus \div 4096
  OBVIOUS
<1>2. IntModulus \in Nat /\ IntModulus > 0 /\ IntModulus = 4096 * m /\ m \in Nat
  BY <1>1, LinkAssumption
<1>3. PICK q : q = s \div IntModulus
  OBVIOUS
<1>4. q \in Nat /\ x \in Nat /\ s = IntModulus * q + x
  BY <1>2, <1>3
<1>5. PICK r : r = m * q
  OBVIOUS
<1>6. r \in Nat /\ IntModulus * q = 4096 * r
  BY <1>2, <1>4, <1>5
<1>7. x = s - 4096 * r
  BY <1>4, <1>6
<1> QED
  BY <1>4, <1>6, <1>7

(* The character after k: five bits of the bytes of its group.              *)
LEMMA Character ==
  ASSUME NEW h \in [1 .. 5 * HashGroups -> 0 .. 255], NEW k \in Nat, k < 8 * HashGroups,
         NEW g, g = 5 * (k \div 8)
  PROVE  /\ Base32(h)[k + 1] = Quintet(h[g + 1], h[g + 2], h[g + 3], h[g + 4], h[g + 5], k % 8)
         /\ \A j \in 1 .. 5 : h[g + j] \in 0 .. 255
         /\ g \in Nat /\ g + 5 <= 5 * HashGroups
<1>1. HashGroups \in Nat
  BY LinkAssumption
<1>2. k + 1 \in 1 .. 8 * HashGroups /\ (k + 1) - 1 = k
  BY <1>1
<1>3. Base32(h)[k + 1] = Quintet(h[g + 1], h[g + 2], h[g + 3], h[g + 4], h[g + 5], k % 8)
  BY <1>2, Zenon DEF Base32
<1>4. g \in Nat /\ g + 5 <= 5 * HashGroups
  BY <1>1
<1>5. ASSUME NEW j \in 1 .. 5 PROVE h[g + j] \in 0 .. 255
  <2>1. g + j \in 1 .. 5 * HashGroups
    BY <1>1, <1>4
  <2> QED
    BY <2>1
<1> QED
  BY <1>3, <1>4, <1>5

(* A byte behind the right ones.                                            *)
LEMMA ByteMore ==
  ASSUME NEW h, NEW out \in Seq(Nat), NEW n \in Nat, Len(out) = n,
         \A j \in 1 .. Len(out) : out[j] = h[j], NEW y \in Nat, y = h[n + 1]
  PROVE  /\ Append(out, y) \in Seq(Nat) /\ Len(Append(out, y)) = n + 1
         /\ \A j \in 1 .. Len(Append(out, y)) : Append(out, y)[j] = h[j]
OBVIOUS

(* A character that fills no byte waits.                                    *)
LEMMA Waits ==
  ASSUME NEW h, NEW g \in Nat, NEW a, NEW c, NEW x \in Nat, x = (a.bits * 32 + c) % IntModulus,
         NEW i \in {0, 2, 5}, AccIn(h, g, i, a), FirstBits(h, g, i + 1, x)
  PROVE  AccIn(h, g, i + 1, base32Decode(a, c))
<1>1. /\ a.out \in Seq(Nat) /\ Len(a.out) = g + Fulls[i + 1] /\ a.width = Widths[i + 1]
      /\ \A j \in 1 .. Len(a.out) : a.out[j] = h[j]
  BY Zenon DEF AccIn
<1>2. a.width < 3 /\ a.width + 5 = Widths[i + 2] /\ Fulls[i + 1] = Fulls[i + 2]
  BY <1>1, SMTT(40) DEF Widths, Fulls
<1>3. base32Decode(a, c) = [bits |-> x, width |-> a.width + 5, out |-> a.out]
  BY <1>2, Zenon DEF base32Decode
<1>4. PICK n : n = base32Decode(a, c)
  OBVIOUS
<1>5. n.bits = x /\ n.width = a.width + 5 /\ n.out = a.out
  BY <1>3, <1>4
<1>6. (i + 1) + 1 = i + 2
  OBVIOUS
<1>7. AccIn(h, g, i + 1, n)
  BY <1>1, <1>2, <1>5, <1>6, Zenon DEF AccIn
<1> QED
  BY <1>4, <1>7, Zenon

(* The characters that fill a byte.                                        *)
Filling == {1, 3, 4, 6, 7}

(* A character is a number.                                                 *)
LEMMA QuintetIs ==
  ASSUME NEW b1 \in 0 .. 255, NEW b2 \in 0 .. 255, NEW b3 \in 0 .. 255, NEW b4 \in 0 .. 255,
         NEW b5 \in 0 .. 255, NEW i \in 0 .. 7
  PROVE  Quintet(b1, b2, b3, b4, b5, i) \in Nat
<1>1. CASE i = 0
  <2>1. Quintet(b1, b2, b3, b4, b5, i) = b1 \div 8
    BY <1>1 DEF Quintet
  <2>2. b1 \div 8 \in Nat
    OBVIOUS
  <2> QED
    BY <2>1, <2>2, Zenon
<1>2. CASE i = 1
  <2>1. Quintet(b1, b2, b3, b4, b5, i) = (b1 % 8) * 4 + b2 \div 64
    BY <1>2 DEF Quintet
  <2>2. (b1 % 8) * 4 + b2 \div 64 \in Nat
    OBVIOUS
  <2> QED
    BY <2>1, <2>2, Zenon
<1>3. CASE i = 2
  <2>1. Quintet(b1, b2, b3, b4, b5, i) = (b2 \div 2) % 32
    BY <1>3 DEF Quintet
  <2>2. (b2 \div 2) % 32 \in Nat
    OBVIOUS
  <2> QED
    BY <2>1, <2>2, Zenon
<1>4. CASE i = 3
  <2>1. Quintet(b1, b2, b3, b4, b5, i) = (b2 % 2) * 16 + b3 \div 16
    BY <1>4 DEF Quintet
  <2>2. (b2 % 2) * 16 + b3 \div 16 \in Nat
    OBVIOUS
  <2> QED
    BY <2>1, <2>2, Zenon
<1>5. CASE i = 4
  <2>1. Quintet(b1, b2, b3, b4, b5, i) = (b3 % 16) * 2 + b4 \div 128
    BY <1>5 DEF Quintet
  <2>2. (b3 % 16) * 2 + b4 \div 128 \in Nat
    OBVIOUS
  <2> QED
    BY <2>1, <2>2, Zenon
<1>6. CASE i = 5
  <2>1. Quintet(b1, b2, b3, b4, b5, i) = (b4 \div 4) % 32
    BY <1>6 DEF Quintet
  <2>2. (b4 \div 4) % 32 \in Nat
    OBVIOUS
  <2> QED
    BY <2>1, <2>2, Zenon
<1>7. CASE i = 6
  <2>1. Quintet(b1, b2, b3, b4, b5, i) = (b4 % 4) * 8 + b5 \div 32
    BY <1>7 DEF Quintet
  <2>2. (b4 % 4) * 8 + b5 \div 32 \in Nat
    OBVIOUS
  <2> QED
    BY <2>1, <2>2, Zenon
<1>8. CASE i = 7
  <2>1. Quintet(b1, b2, b3, b4, b5, i) = b5 % 32
    BY <1>8 DEF Quintet
  <2>2. b5 % 32 \in Nat
    OBVIOUS
  <2> QED
    BY <2>1, <2>2, Zenon
<1> QED
  BY <1>1, <1>2, <1>3, <1>4, <1>5, <1>6, <1>7, <1>8

(* The next of the characters of a group.                                   *)
CharacterIn(h, g, i, c) ==
  /\ \A j \in 1 .. 5 : h[g + j] \in 0 .. 255
  /\ c = Quintet(h[g + 1], h[g + 2], h[g + 3], h[g + 4], h[g + 5], i)

LEMMA TakenIn ==
  ASSUME NEW h, NEW g \in Nat, NEW i \in 0 .. 7, NEW a, AccIn(h, g, i, a),
         NEW c, CharacterIn(h, g, i, c)
  PROVE  /\ i # 7 => AccIn(h, g, i + 1, base32Decode(a, c))
         /\ i = 7 => AccIn(h, g + 5, 0, base32Decode(a, c))
<1>1. PICK b1, b2, b3, b4, b5 :
        b1 = h[g + 1] /\ b2 = h[g + 2] /\ b3 = h[g + 3] /\ b4 = h[g + 4] /\ b5 = h[g + 5]
  OBVIOUS
<1>2. b1 \in 0 .. 255 /\ b2 \in 0 .. 255 /\ b3 \in 0 .. 255 /\ b4 \in 0 .. 255 /\ b5 \in 0 .. 255
  BY <1>1 DEF CharacterIn
<1>3. c = Quintet(b1, b2, b3, b4, b5, i)
  BY <1>1, Zenon DEF CharacterIn
<1>4. PICK b : b = a.bits
  OBVIOUS
<1>5. b \in Nat
  BY <1>4, Zenon DEF AccIn
<1>6. FirstBits(h, g, i, b)
  BY <1>4, Zenon DEF AccIn
<1>7. c \in Nat
  <2>1. Quintet(b1, b2, b3, b4, b5, i) \in Nat
    BY <1>2, QuintetIs
  <2> QED
    BY <1>3, <2>1, Zenon
<1>8. PICK s \in Nat : s = b * 32 + c
  BY <1>5, <1>7
<1>9. PICK x : x = s % IntModulus
  OBVIOUS
<1>10. PICK r \in Nat : x = s - 4096 * r /\ x \in Nat
  BY <1>8, <1>9, LowBits
<1>11. x \in Nat /\ x = b * 32 + c - 4096 * r /\ r \in Int
  BY <1>5, <1>7, <1>8, <1>10
<1>12. x = (a.bits * 32 + c) % IntModulus
  BY <1>4, <1>8, <1>9, Zenon
<1>13. x \in Nat
  BY <1>11
<1>14. ASSUME i \in Filling, NEW w, w = Widths[i + 1] - 3, NEW y \in Nat, y = Shifted(x, w) % 256,
              y = h[(g + Fulls[i + 1]) + 1], NEW d, d = base32Decode(a, c)
       PROVE  /\ d.bits = x /\ d.width = w /\ d.out \in Seq(Nat) /\ Len(d.out) = (g + Fulls[i + 1]) + 1
              /\ \A j \in 1 .. Len(d.out) : d.out[j] = h[j]
  <2>1. /\ a.out \in Seq(Nat) /\ Len(a.out) = g + Fulls[i + 1] /\ a.width = Widths[i + 1]
        /\ \A j \in 1 .. Len(a.out) : a.out[j] = h[j]
    BY Zenon DEF AccIn
  <2>2. PICK n : n = a.width
    OBVIOUS
  <2>3. n \in {5, 7, 4, 6, 3}
    BY <1>14, <2>1, <2>2 DEF Widths, Filling
  <2>4. ~ n < 3 /\ n - 3 = w
    BY <1>14, <2>1, <2>2, <2>3
  <2>5. PICK m \in Nat : m = g + Fulls[i + 1]
    BY <1>14 DEF Fulls, Filling
  <2>6. base32Decode(a, c) = [bits |-> x, width |-> w, out |-> Append(a.out, y)]
    BY <1>12, <1>14, <2>2, <2>4, Zenon DEF base32Decode
  <2>7. d.bits = x /\ d.width = w /\ d.out = Append(a.out, y)
    BY <1>14, <2>6
  <2>8. PICK out : out = a.out
    OBVIOUS
  <2>9. out \in Seq(Nat) /\ Len(out) = m /\ \A j \in 1 .. Len(out) : out[j] = h[j]
    BY <2>1, <2>5, <2>8, Zenon
  <2>10. y \in Nat /\ y = h[m + 1]
    BY <1>14, <2>5, Zenon
  <2>11. /\ Append(out, y) \in Seq(Nat) /\ Len(Append(out, y)) = m + 1
         /\ \A j \in 1 .. Len(Append(out, y)) : Append(out, y)[j] = h[j]
    BY <2>5, <2>9, <2>10, ByteMore
  <2> QED
    BY <2>5, <2>7, <2>8, <2>11, Zenon
<1>15. CASE i = 0
  <2>1. c = b1 \div 8
    BY <1>3, <1>15 DEF Quintet
  <2>3. x % 32 = b1 \div 8
    BY <1>2, <1>5, <1>11, <2>1
  <2>4. FirstBits(h, g, 1, x)
    BY <1>1, <2>3 DEF FirstBits
  <2>5. AccIn(h, g, i + 1, base32Decode(a, c))
    BY <1>12, <1>13, <1>15, <2>4, Waits
  <2> QED
    BY <1>15, <2>5
<1>16. CASE i = 1
  <2>1. c = (b1 % 8) * 4 + b2 \div 64
    BY <1>3, <1>16 DEF Quintet
  <2>2. b % 32 = b1 \div 8
    BY <1>1, <1>6, <1>16 DEF FirstBits
  <2>3. (x \div 4) % 256 = b1 /\ x % 4 = b2 \div 64
    BY <1>2, <1>5, <1>11, <2>1, <2>2, SMTT(30)
  <2>4. FirstBits(h, g, 2, x)
    BY <1>1, <2>3 DEF FirstBits
  <2>5. PICK w, y : w = 2 /\ y = Shifted(x, w) % 256
    OBVIOUS
  <2>6. y = b1 /\ y \in Nat
    BY <1>2, <1>13, <2>3, <2>5 DEF Shifted
  <2>7. w = Widths[i + 1] - 3 /\ Fulls[i + 1] = 0
    BY <1>16, <2>5 DEF Widths, Fulls
  <2>8. y = h[(g + Fulls[i + 1]) + 1]
    BY <1>1, <2>6, <2>7
  <2>9. PICK d : d = base32Decode(a, c)
    OBVIOUS
  <2>10. i \in Filling /\ y = Shifted(x, w) % 256 /\ y \in Nat
    BY <1>16, <2>5, <2>6 DEF Filling
  <2>11. /\ d.bits = x /\ d.width = w /\ d.out \in Seq(Nat) /\ Len(d.out) = (g + Fulls[i + 1]) + 1
         /\ \A j \in 1 .. Len(d.out) : d.out[j] = h[j]
    BY <1>14, <2>7, <2>8, <2>9, <2>10
  <2>12. Len(d.out) = g + Fulls[2 + 1] /\ d.width = Widths[2 + 1]
    BY <2>5, <2>7, <2>11 DEF Fulls, Widths
  <2>13. FirstBits(h, g, 2, d.bits) /\ d.bits \in Nat
    BY <1>13, <2>4, <2>11, Zenon
  <2>14. d.out \in Seq(Nat) /\ \A j \in 1 .. Len(d.out) : d.out[j] = h[j]
    BY <2>11
  <2>15. AccIn(h, g, 2, d)
    BY <2>12, <2>13, <2>14, Zenon DEF AccIn
  <2> QED
    BY <1>16, <2>9, <2>15
<1>17. CASE i = 2
  <2>1. c = (b2 \div 2) % 32
    BY <1>3, <1>17 DEF Quintet
  <2>2. b % 4 = b2 \div 64
    BY <1>1, <1>6, <1>17 DEF FirstBits
  <2>3. x % 128 = b2 \div 2
    BY <1>2, <1>5, <1>11, <2>1, <2>2
  <2>4. FirstBits(h, g, 3, x)
    BY <1>1, <2>3 DEF FirstBits
  <2>5. AccIn(h, g, i + 1, base32Decode(a, c))
    BY <1>12, <1>13, <1>17, <2>4, Waits
  <2> QED
    BY <1>17, <2>5
<1>18. CASE i = 3
  <2>1. c = (b2 % 2) * 16 + b3 \div 16
    BY <1>3, <1>18 DEF Quintet
  <2>2. b % 128 = b2 \div 2
    BY <1>1, <1>6, <1>18 DEF FirstBits
  <2>3. (x \div 16) % 256 = b2 /\ x % 16 = b3 \div 16
    <3>1. PICK q \in Nat : b = 128 * q + b2 \div 2
      BY <1>2, <1>5, <2>2
    <3>2. PICK e \in Nat : e = b3 \div 16 /\ e < 16
      BY <1>2
    <3>3. PICK d \in Int : d = q - r
      BY <1>11, <3>1
    <3>4. x = 4096 * d + 16 * b2 + e
      BY <1>2, <1>11, <2>1, <3>1, <3>2, <3>3
    <3>5. x = 16 * (256 * d + b2) + e
      BY <1>2, <3>3, <3>4
    <3>6. x \div 16 = 256 * d + b2 /\ x % 16 = e
      BY <1>2, <3>2, <3>3, <3>5
    <3> QED
      BY <1>2, <3>2, <3>4, <3>6
  <2>4. FirstBits(h, g, 4, x)
    BY <1>1, <2>3 DEF FirstBits
  <2>5. PICK w, y : w = 4 /\ y = Shifted(x, w) % 256
    OBVIOUS
  <2>6. y = b2 /\ y \in Nat
    BY <1>2, <1>13, <2>3, <2>5 DEF Shifted
  <2>7. w = Widths[i + 1] - 3 /\ Fulls[i + 1] = 1
    BY <1>18, <2>5 DEF Widths, Fulls
  <2>8. y = h[(g + Fulls[i + 1]) + 1]
    BY <1>1, <2>6, <2>7
  <2>9. PICK d : d = base32Decode(a, c)
    OBVIOUS
  <2>10. i \in Filling /\ y = Shifted(x, w) % 256 /\ y \in Nat
    BY <1>18, <2>5, <2>6 DEF Filling
  <2>11. /\ d.bits = x /\ d.width = w /\ d.out \in Seq(Nat) /\ Len(d.out) = (g + Fulls[i + 1]) + 1
         /\ \A j \in 1 .. Len(d.out) : d.out[j] = h[j]
    BY <1>14, <2>7, <2>8, <2>9, <2>10
  <2>12. Len(d.out) = g + Fulls[4 + 1] /\ d.width = Widths[4 + 1]
    BY <2>5, <2>7, <2>11 DEF Fulls, Widths
  <2>13. FirstBits(h, g, 4, d.bits) /\ d.bits \in Nat
    BY <1>13, <2>4, <2>11, Zenon
  <2>14. d.out \in Seq(Nat) /\ \A j \in 1 .. Len(d.out) : d.out[j] = h[j]
    BY <2>11
  <2>15. AccIn(h, g, 4, d)
    BY <2>12, <2>13, <2>14, Zenon DEF AccIn
  <2> QED
    BY <1>18, <2>9, <2>15
<1>19. CASE i = 4
  <2>1. c = (b3 % 16) * 2 + b4 \div 128
    BY <1>3, <1>19 DEF Quintet
  <2>2. b % 16 = b3 \div 16
    BY <1>1, <1>6, <1>19 DEF FirstBits
  <2>3. (x \div 2) % 256 = b3 /\ x % 2 = b4 \div 128
    BY <1>2, <1>5, <1>11, <2>1, <2>2
  <2>4. FirstBits(h, g, 5, x)
    BY <1>1, <2>3 DEF FirstBits
  <2>5. PICK w, y : w = 1 /\ y = Shifted(x, w) % 256
    OBVIOUS
  <2>6. y = b3 /\ y \in Nat
    BY <1>2, <1>13, <2>3, <2>5 DEF Shifted
  <2>7. w = Widths[i + 1] - 3 /\ Fulls[i + 1] = 2
    BY <1>19, <2>5 DEF Widths, Fulls
  <2>8. y = h[(g + Fulls[i + 1]) + 1]
    BY <1>1, <2>6, <2>7
  <2>9. PICK d : d = base32Decode(a, c)
    OBVIOUS
  <2>10. i \in Filling /\ y = Shifted(x, w) % 256 /\ y \in Nat
    BY <1>19, <2>5, <2>6 DEF Filling
  <2>11. /\ d.bits = x /\ d.width = w /\ d.out \in Seq(Nat) /\ Len(d.out) = (g + Fulls[i + 1]) + 1
         /\ \A j \in 1 .. Len(d.out) : d.out[j] = h[j]
    BY <1>14, <2>7, <2>8, <2>9, <2>10
  <2>12. Len(d.out) = g + Fulls[5 + 1] /\ d.width = Widths[5 + 1]
    BY <2>5, <2>7, <2>11 DEF Fulls, Widths
  <2>13. FirstBits(h, g, 5, d.bits) /\ d.bits \in Nat
    BY <1>13, <2>4, <2>11, Zenon
  <2>14. d.out \in Seq(Nat) /\ \A j \in 1 .. Len(d.out) : d.out[j] = h[j]
    BY <2>11
  <2>15. AccIn(h, g, 5, d)
    BY <2>12, <2>13, <2>14, Zenon DEF AccIn
  <2> QED
    BY <1>19, <2>9, <2>15
<1>20. CASE i = 5
  <2>1. c = (b4 \div 4) % 32
    BY <1>3, <1>20 DEF Quintet
  <2>2. b % 2 = b4 \div 128
    BY <1>1, <1>6, <1>20 DEF FirstBits
  <2>3. x % 64 = b4 \div 4
    BY <1>2, <1>5, <1>11, <2>1, <2>2
  <2>4. FirstBits(h, g, 6, x)
    BY <1>1, <2>3 DEF FirstBits
  <2>5. AccIn(h, g, i + 1, base32Decode(a, c))
    BY <1>12, <1>13, <1>20, <2>4, Waits
  <2> QED
    BY <1>20, <2>5
<1>21. CASE i = 6
  <2>1. c = (b4 % 4) * 8 + b5 \div 32
    BY <1>3, <1>21 DEF Quintet
  <2>2. b % 64 = b4 \div 4
    BY <1>1, <1>6, <1>21 DEF FirstBits
  <2>3. (x \div 8) % 256 = b4 /\ x % 8 = b5 \div 32
    <3>1. PICK q \in Nat : b = 64 * q + b4 \div 4
      BY <1>2, <1>5, <2>2
    <3>2. PICK e \in Nat : e = b5 \div 32 /\ e < 8
      BY <1>2
    <3>3. PICK d \in Int : d = q - 2 * r
      BY <1>11, <3>1
    <3>4. x = 2048 * d + 8 * b4 + e
      BY <1>2, <1>11, <2>1, <3>1, <3>2, <3>3
    <3>5. x = 8 * (256 * d + b4) + e
      BY <1>2, <3>3, <3>4
    <3>6. x \div 8 = 256 * d + b4 /\ x % 8 = e
      BY <1>2, <3>2, <3>3, <3>5
    <3> QED
      BY <1>2, <3>2, <3>4, <3>6
  <2>4. FirstBits(h, g, 7, x)
    BY <1>1, <2>3 DEF FirstBits
  <2>5. PICK w, y : w = 3 /\ y = Shifted(x, w) % 256
    OBVIOUS
  <2>6. y = b4 /\ y \in Nat
    BY <1>2, <1>13, <2>3, <2>5 DEF Shifted
  <2>7. w = Widths[i + 1] - 3 /\ Fulls[i + 1] = 3
    BY <1>21, <2>5 DEF Widths, Fulls
  <2>8. y = h[(g + Fulls[i + 1]) + 1]
    BY <1>1, <2>6, <2>7
  <2>9. PICK d : d = base32Decode(a, c)
    OBVIOUS
  <2>10. i \in Filling /\ y = Shifted(x, w) % 256 /\ y \in Nat
    BY <1>21, <2>5, <2>6 DEF Filling
  <2>11. /\ d.bits = x /\ d.width = w /\ d.out \in Seq(Nat) /\ Len(d.out) = (g + Fulls[i + 1]) + 1
         /\ \A j \in 1 .. Len(d.out) : d.out[j] = h[j]
    BY <1>14, <2>7, <2>8, <2>9, <2>10
  <2>12. Len(d.out) = g + Fulls[7 + 1] /\ d.width = Widths[7 + 1]
    BY <2>5, <2>7, <2>11 DEF Fulls, Widths
  <2>13. FirstBits(h, g, 7, d.bits) /\ d.bits \in Nat
    BY <1>13, <2>4, <2>11, Zenon
  <2>14. d.out \in Seq(Nat) /\ \A j \in 1 .. Len(d.out) : d.out[j] = h[j]
    BY <2>11
  <2>15. AccIn(h, g, 7, d)
    BY <2>12, <2>13, <2>14, Zenon DEF AccIn
  <2> QED
    BY <1>21, <2>9, <2>15
<1>22. CASE i = 7
  <2>1. c = b5 % 32
    BY <1>3, <1>22 DEF Quintet
  <2>2. b % 8 = b5 \div 32
    BY <1>1, <1>6, <1>22 DEF FirstBits
  <2>3. x % 256 = b5
    BY <1>2, <1>5, <1>11, <2>1, <2>2
  <2>5. PICK w, y : w = 0 /\ y = Shifted(x, w) % 256
    OBVIOUS
  <2>6. y = b5 /\ y \in Nat
    BY <1>2, <1>13, <2>3, <2>5 DEF Shifted
  <2>7. w = Widths[i + 1] - 3 /\ Fulls[i + 1] = 4
    BY <1>22, <2>5 DEF Widths, Fulls
  <2>8. y = h[(g + Fulls[i + 1]) + 1]
    BY <1>1, <2>6, <2>7
  <2>9. PICK d : d = base32Decode(a, c)
    OBVIOUS
  <2>10. i \in Filling /\ y = Shifted(x, w) % 256 /\ y \in Nat
    BY <1>22, <2>5, <2>6 DEF Filling
  <2>11. /\ d.bits = x /\ d.width = w /\ d.out \in Seq(Nat) /\ Len(d.out) = (g + Fulls[i + 1]) + 1
         /\ \A j \in 1 .. Len(d.out) : d.out[j] = h[j]
    BY <1>14, <2>7, <2>8, <2>9, <2>10
  <2>4. FirstBits(h, g + 5, 0, x)
    BY DEF FirstBits
  <2>12. Len(d.out) = (g + 5) + Fulls[0 + 1] /\ d.width = Widths[0 + 1]
    BY <2>5, <2>7, <2>11 DEF Fulls, Widths
  <2>13. FirstBits(h, g + 5, 0, d.bits) /\ d.bits \in Nat
    BY <1>13, <2>4, <2>11, Zenon
  <2>14. d.out \in Seq(Nat) /\ \A j \in 1 .. Len(d.out) : d.out[j] = h[j]
    BY <2>11
  <2>15. AccIn(h, g + 5, 0, d)
    BY <2>12, <2>13, <2>14, Zenon DEF AccIn
  <2> QED
    BY <1>22, <2>9, <2>15
<1> QED
  BY <1>15, <1>16, <1>17, <1>18, <1>19, <1>20, <1>21, <1>22

(* The next character keeps what the decoder holds right.                   *)
LEMMA CharacterTaken ==
  ASSUME NEW h \in [1 .. 5 * HashGroups -> 0 .. 255], NEW k \in Nat, k < 8 * HashGroups,
         NEW a, AccRight(h, k, a)
  PROVE  AccRight(h, k + 1, base32Decode(a, Base32(h)[k + 1]))
<1>1. PICK g, i, c, n : g = 5 * (k \div 8) /\ i = k % 8 /\ c = Base32(h)[k + 1] /\ n = base32Decode(a, c)
  OBVIOUS
<1>2. g \in Nat /\ i \in 0 .. 7
  BY <1>1
<1>3. /\ c = Quintet(h[g + 1], h[g + 2], h[g + 3], h[g + 4], h[g + 5], i)
      /\ \A j \in 1 .. 5 : h[g + j] \in 0 .. 255
  BY <1>1, Character
<1>4. CharacterIn(h, g, i, c) /\ AccIn(h, g, i, a)
  BY <1>1, <1>3, Zenon DEF CharacterIn, AccRight
<1>5. /\ i # 7 => AccIn(h, g, i + 1, n)
      /\ i = 7 => AccIn(h, g + 5, 0, n)
  BY <1>1, <1>2, <1>4, TakenIn
<1>6. CASE i # 7
  <2>1. 5 * ((k + 1) \div 8) = g /\ (k + 1) % 8 = i + 1
    BY <1>1, <1>2, <1>6
  <2>2. AccRight(h, k + 1, n)
    BY <1>5, <1>6, <2>1, Zenon DEF AccRight
  <2> QED
    BY <1>1, <2>2, Zenon
<1>7. CASE i = 7
  <2>1. 5 * ((k + 1) \div 8) = g + 5 /\ (k + 1) % 8 = 0
    BY <1>1, <1>2, <1>7
  <2>2. AccRight(h, k + 1, n)
    BY <1>5, <1>7, <2>1, Zenon DEF AccRight
  <2> QED
    BY <1>1, <2>2, Zenon
<1> QED
  BY <1>6, <1>7

(* All characters taken are the whole hash.                                 *)
LEMMA HashWhole ==
  ASSUME NEW h \in [1 .. 5 * HashGroups -> 0 .. 255], NEW a, AccRight(h, 8 * HashGroups, a)
  PROVE  a.out = h
<1>1. HashGroups \in Nat
  BY LinkAssumption
<1>2. PICK k : k = 8 * HashGroups
  OBVIOUS
<1>3. 5 * (k \div 8) = 5 * HashGroups /\ k % 8 = 0
  BY <1>1, <1>2
<1>4. AccIn(h, 5 * HashGroups, 0, a)
  BY <1>2, <1>3, Zenon DEF AccRight
<1>5. /\ a.out \in Seq(Nat) /\ Len(a.out) = 5 * HashGroups + Fulls[0 + 1]
      /\ \A j \in 1 .. Len(a.out) : a.out[j] = h[j]
  BY <1>4, Zenon DEF AccIn
<1>6. Len(a.out) = 5 * HashGroups
  BY <1>1, <1>5 DEF Fulls
<1>7. PICK m : m = 5 * HashGroups
  OBVIOUS
<1>8. PICK out : out = a.out
  OBVIOUS
<1>9. out \in [1 .. m -> Nat] /\ \A j \in 1 .. m : out[j] = h[j]
  BY <1>5, <1>6, <1>7, <1>8
<1>10. h \in [1 .. m -> 0 .. 255]
  BY <1>7, Zenon
<1>11. out = [j \in 1 .. m |-> out[j]] /\ h = [j \in 1 .. m |-> h[j]]
  BY <1>9, <1>10
<1>12. [j \in 1 .. m |-> out[j]] = [j \in 1 .. m |-> h[j]]
  BY <1>9
<1> QED
  BY <1>8, <1>11, <1>12, Zenon

(* A spelling of a hash is a v1 topic.                                      *)
LEMMA SpeltIs ==
  ASSUME NEW h, NEW is \in {"hex", "base32"}, NEW upper
  PROVE  /\ IsV1(Spelt_(h, is, upper)) /\ Spelt_(h, is, upper).text.is = is
         /\ is = "hex" => Spelt_(h, is, upper).text.digits = Nibbles(h)
         /\ is = "base32" => Spelt_(h, is, upper).text.digits = Base32(h)
<1>1. PICK digits : digits = IF is = "hex" THEN Nibbles(h) ELSE Base32(h)
  OBVIOUS
<1>2. Spelt_(h, is, upper) = [urn |-> "btih", text |-> [is |-> is, digits |-> digits, upper |-> upper]]
  BY <1>1, Zenon DEF Spelt_, Topic
<1>3. PICK s : s = Spelt_(h, is, upper)
  OBVIOUS
<1>4. s.urn = "btih" /\ s.text.is = is /\ s.text.digits = digits
  BY <1>2, <1>3
<1>5. IsV1(s)
  BY <1>4 DEF IsV1
<1> QED
  BY <1>1, <1>3, <1>4, <1>5

(* A link that is looked at, in plain facts.                                *)
LEMMA LookedAt ==
  ASSUME LinkInv, Looking
  PROVE  LinkMade /\ contentKey = NoKey
BY DEF LinkInv, Looking

(* Where the look at a link meets a v1 topic, it is the link's hash.        *)
LEMMA HashMet ==
  ASSUME LinkMade, topic <= Len(link.xts), IsV1(link.xts[topic])
  PROVE  /\ link.is = "hash"
         /\ \E is \in {"hex", "base32"}, upper \in BOOLEAN : link.xts[topic] = Spelt_(link.hash, is, upper)
<1>1. Len(link.xts) \in Nat
  BY DEF LinkMade
<1>2. ASSUME link.is = "other" PROVE FALSE
  <2>1. topic \in 1 .. Len(link.xts) + 1 /\ \A i \in 1 .. Len(link.xts) : ~ IsV1(link.xts[i])
    BY <1>2 DEF LinkMade
  <2> QED
    BY <1>1, <2>1
<1>3. link.is = "hash" /\ topic \in 1 .. Len(link.xts)
  BY <1>2 DEF LinkMade
<1>4. PICK n \in topic .. Len(link.xts) :
             /\ \A i \in 1 .. n - 1 : ~ IsV1(link.xts[i])
             /\ \E is \in {"hex", "base32"}, upper \in BOOLEAN : link.xts[n] = Spelt_(link.hash, is, upper)
  BY <1>3 DEF LinkMade
<1>5. n = topic
  <2>1. ASSUME n # topic PROVE FALSE
    <3>1. topic \in 1 .. n - 1
      BY <1>1, <1>3, <1>4, <2>1
    <3> QED
      BY <1>4, <3>1
  <2> QED
    BY <2>1
<1> QED
  BY <1>3, <1>4, <1>5

(* The decoder's part of a link that has a hash.                            *)
LEMMA HashKept ==
  ASSUME LinkMade, link.is = "hash"
  PROVE  /\ link.hash \in [1 .. 5 * HashGroups -> 0 .. 255]
         /\ taken \in 0 .. 8 * HashGroups /\ AccRight(link.hash, taken, acc)
BY DEF LinkMade

(* A link whose key is found.                                               *)
LEMMA KeyFound ==
  ASSUME LinkMade, UNCHANGED <<link, topic, taken, acc>>,
         contentKey' = IF link.is = "hash" THEN HashKey(Nibbles(link.hash)) ELSE Keyless
  PROVE  LinkInv'
<1>1. LinkMade'
  BY Zenon DEF LinkMade
<1> QED
  BY <1>1, Zenon DEF LinkInv

LEMMA SkipStep == ASSUME LinkInv, SkipTopic PROVE LinkInv'
<1>1. /\ Looking /\ topic <= Len(link.xts) /\ ~ IsV1(link.xts[topic]) /\ topic' = topic + 1
      /\ UNCHANGED <<link, taken, acc, contentKey>>
  BY Zenon DEF SkipTopic
<1>2. LinkMade /\ contentKey = NoKey
  BY <1>1, LookedAt
<1>3. Len(link.xts) \in Nat
  BY <1>2 DEF LinkMade
<1>4. CASE link.is = "hash"
  <2>1. /\ link.hash \in [1 .. 5 * HashGroups -> 0 .. 255]
        /\ topic \in 1 .. Len(link.xts)
        /\ taken \in 0 .. 8 * HashGroups /\ AccRight(link.hash, taken, acc)
    BY <1>2, <1>4 DEF LinkMade
  <2>2. PICK n \in topic .. Len(link.xts) :
             /\ \A i \in 1 .. n - 1 : ~ IsV1(link.xts[i])
             /\ \E is \in {"hex", "base32"}, upper \in BOOLEAN : link.xts[n] = Spelt_(link.hash, is, upper)
    BY <1>2, <1>4 DEF LinkMade
  <2>3. IsV1(link.xts[n])
    BY <2>2, SpeltIs
  <2>4. n # topic
    BY <1>1, <2>3
  <2>5. n \in topic' .. Len(link'.xts) /\ topic' \in 1 .. Len(link'.xts)
    BY <1>1, <1>3, <2>1, <2>2, <2>4
  <2>6. LinkMade'
    BY <1>1, <1>3, <1>4, <2>1, <2>2, <2>5, Zenon DEF LinkMade
  <2> QED
    BY <1>1, <1>2, <2>6 DEF LinkInv
<1>5. CASE link.is = "other"
  <2>1. topic \in 1 .. Len(link.xts) + 1 /\ \A i \in 1 .. Len(link.xts) : ~ IsV1(link.xts[i])
    BY <1>2, <1>5 DEF LinkMade
  <2>2. topic' \in 1 .. Len(link'.xts) + 1
    BY <1>1, <1>3, <2>1
  <2>3. LinkMade'
    BY <1>1, <1>3, <1>5, <2>1, <2>2, Zenon DEF LinkMade
  <2> QED
    BY <1>1, <1>2, <2>3 DEF LinkInv
<1> QED
  BY <1>2, <1>4, <1>5 DEF LinkMade

LEMMA HexStep == ASSUME LinkInv, TakeHex PROVE LinkInv'
<1>1. /\ Looking /\ AtHash("hex") /\ contentKey' = HashKey(Characters)
      /\ UNCHANGED <<link, topic, taken, acc>>
  BY Zenon DEF TakeHex
<1>2. LinkMade
  BY <1>1, LookedAt
<1>3. topic <= Len(link.xts) /\ IsV1(link.xts[topic]) /\ link.xts[topic].text.is = "hex"
  BY <1>1 DEF AtHash
<1>4. /\ link.is = "hash"
      /\ \E is \in {"hex", "base32"}, upper \in BOOLEAN : link.xts[topic] = Spelt_(link.hash, is, upper)
  BY <1>2, <1>3, HashMet
<1>5. Characters = Nibbles(link.hash)
  <2>1. PICK is \in {"hex", "base32"}, upper \in BOOLEAN : link.xts[topic] = Spelt_(link.hash, is, upper)
    BY <1>4
  <2>2. is = "hex"
    <3>1. Spelt_(link.hash, is, upper).text.is = is
      BY SpeltIs
    <3> QED
      BY <1>3, <2>1, <3>1, Zenon
  <2>3. Spelt_(link.hash, is, upper).text.digits = Nibbles(link.hash)
    BY <2>2, SpeltIs
  <2> QED
    BY <2>1, <2>3, Zenon DEF Characters
<1> QED
  BY <1>1, <1>2, <1>4, <1>5, KeyFound

LEMMA CharacterStep == ASSUME LinkInv, TakeCharacter PROVE LinkInv'
<1>1. /\ Looking /\ AtHash("base32") /\ taken < Len(Characters)
      /\ acc' = base32Decode(acc, Characters[taken + 1]) /\ taken' = taken + 1
      /\ UNCHANGED <<link, topic, contentKey>>
  BY Zenon DEF TakeCharacter
<1>2. LinkMade /\ contentKey = NoKey
  BY <1>1, LookedAt
<1>3. topic <= Len(link.xts) /\ IsV1(link.xts[topic]) /\ link.xts[topic].text.is = "base32"
  BY <1>1 DEF AtHash
<1>4. /\ link.is = "hash"
      /\ \E is \in {"hex", "base32"}, upper \in BOOLEAN : link.xts[topic] = Spelt_(link.hash, is, upper)
  BY <1>2, <1>3, HashMet
<1>5. Characters = Base32(link.hash)
  <2>1. PICK is \in {"hex", "base32"}, upper \in BOOLEAN : link.xts[topic] = Spelt_(link.hash, is, upper)
    BY <1>4
  <2>2. is = "base32"
    <3>1. Spelt_(link.hash, is, upper).text.is = is
      BY SpeltIs
    <3> QED
      BY <1>3, <2>1, <3>1, Zenon
  <2>3. Spelt_(link.hash, is, upper).text.digits = Base32(link.hash)
    BY <2>2, SpeltIs
  <2> QED
    BY <2>1, <2>3, Zenon DEF Characters
<1>6. HashGroups \in Nat /\ Len(Base32(link.hash)) = 8 * HashGroups
  BY LinkAssumption DEF Base32
<1>7. /\ link.hash \in [1 .. 5 * HashGroups -> 0 .. 255]
      /\ taken \in 0 .. 8 * HashGroups /\ AccRight(link.hash, taken, acc)
  BY <1>2, <1>4, HashKept
<1>8. taken \in Nat /\ taken < 8 * HashGroups /\ taken + 1 \in 0 .. 8 * HashGroups
  BY <1>1, <1>5, <1>6, <1>7
<1>9. AccRight(link.hash, taken + 1, base32Decode(acc, Base32(link.hash)[taken + 1]))
  BY <1>7, <1>8, CharacterTaken
<1>10. AccRight(link'.hash, taken', acc') /\ taken' \in 0 .. 8 * HashGroups
  BY <1>1, <1>5, <1>8, <1>9, Zenon
<1>11. LinkMade'
  BY <1>1, <1>2, <1>4, <1>10 DEF LinkMade
<1> QED
  BY <1>1, <1>2, <1>11 DEF LinkInv

LEMMA Base32Step == ASSUME LinkInv, TakeBase32 PROVE LinkInv'
<1>1. /\ Looking /\ AtHash("base32") /\ taken = Len(Characters)
      /\ contentKey' = HashKey(Nibbles(acc.out))
      /\ UNCHANGED <<link, topic, taken, acc>>
  BY Zenon DEF TakeBase32
<1>2. LinkMade
  BY <1>1, LookedAt
<1>3. topic <= Len(link.xts) /\ IsV1(link.xts[topic]) /\ link.xts[topic].text.is = "base32"
  BY <1>1 DEF AtHash
<1>4. /\ link.is = "hash"
      /\ \E is \in {"hex", "base32"}, upper \in BOOLEAN : link.xts[topic] = Spelt_(link.hash, is, upper)
  BY <1>2, <1>3, HashMet
<1>5. Characters = Base32(link.hash)
  <2>1. PICK is \in {"hex", "base32"}, upper \in BOOLEAN : link.xts[topic] = Spelt_(link.hash, is, upper)
    BY <1>4
  <2>2. is = "base32"
    <3>1. Spelt_(link.hash, is, upper).text.is = is
      BY SpeltIs
    <3> QED
      BY <1>3, <2>1, <3>1, Zenon
  <2>3. Spelt_(link.hash, is, upper).text.digits = Base32(link.hash)
    BY <2>2, SpeltIs
  <2> QED
    BY <2>1, <2>3, Zenon DEF Characters
<1>6. HashGroups \in Nat /\ Len(Base32(link.hash)) = 8 * HashGroups
  BY LinkAssumption DEF Base32
<1>7. /\ link.hash \in [1 .. 5 * HashGroups -> 0 .. 255] /\ AccRight(link.hash, taken, acc)
  BY <1>2, <1>4, HashKept
<1>8. AccRight(link.hash, 8 * HashGroups, acc)
  BY <1>1, <1>5, <1>6, <1>7, Zenon
<1>9. acc.out = link.hash
  BY <1>7, <1>8, HashWhole
<1>10. contentKey' = HashKey(Nibbles(link.hash))
  BY <1>1, <1>9, Zenon
<1> QED
  BY <1>1, <1>2, <1>4, <1>10, KeyFound

LEMMA NoHashStep == ASSUME LinkInv, NoHash PROVE LinkInv'
<1>1. /\ Looking /\ topic > Len(link.xts) /\ contentKey' = Keyless
      /\ UNCHANGED <<link, topic, taken, acc>>
  BY Zenon DEF NoHash
<1>2. LinkMade
  BY <1>1, LookedAt
<1>3. link.is # "hash"
  <2>1. ASSUME link.is = "hash" PROVE FALSE
    <3>1. topic \in 1 .. Len(link.xts) /\ Len(link.xts) \in Nat
      BY <1>2, <2>1 DEF LinkMade
    <3> QED
      BY <1>1, <3>1
  <2> QED
    BY <2>1
<1> QED
  BY <1>1, <1>2, <1>3, KeyFound

-----------------------------------------------------------------------------
LEMMA FileStep ==
  ASSUME TorrentInv, UNCHANGED linkVars,
         decodeAtom \/ OpenNested \/ CloseNested \/ Refuse \/ parseTorrent \/ walkV2Tree \/ TreeWalked
  PROVE  TorrentInv'
<1>1. FileInv /\ LinkInv
  BY DEF TorrentInv
<1>2. UNCHANGED <<link, topic, taken, acc, contentKey>>
  BY DEF linkVars
<1>3. LinkInv'
  BY <1>1, <1>2, Zenon DEF LinkInv, LinkMade
<1>4. FileInv'
  BY <1>1, AtomStep, OpenStep, CloseStep, RefuseStep, ParseStep, WalkStep, WalkedStep, Zenon
<1> QED
  BY <1>3, <1>4 DEF TorrentInv

LEMMA LinkStep ==
  ASSUME TorrentInv, UNCHANGED fileVars,
         SkipTopic \/ TakeHex \/ TakeCharacter \/ TakeBase32 \/ NoHash
  PROVE  TorrentInv'
<1>1. FileInv /\ LinkInv
  BY DEF TorrentInv
<1>2. UNCHANGED <<torrent, data, whole, parseStage, pos, stack, root, pending, found, meta>>
  BY DEF fileVars
<1>3. FileInv'
  BY <1>1, <1>2, Zenon DEF FileInv
<1>4. LinkInv'
  BY <1>1, SkipStep, HexStep, CharacterStep, Base32Step, NoHashStep, Zenon
<1> QED
  BY <1>3, <1>4 DEF TorrentInv

LEMMA TorrentStep == TorrentInv /\ [TorrentNext]_torrentVars => TorrentInv'
<1> SUFFICES ASSUME TorrentInv, [TorrentNext]_torrentVars PROVE TorrentInv'
  OBVIOUS
<1>1. CASE decodeAtom \/ OpenNested \/ CloseNested \/ Refuse \/ parseTorrent \/ walkV2Tree \/ TreeWalked
  <2>1. UNCHANGED linkVars
    BY <1>1, Zenon DEF decodeAtom, OpenNested, CloseNested, Refuse, parseTorrent, walkV2Tree, TreeWalked
  <2> QED
    BY <1>1, <2>1, FileStep
<1>2. CASE SkipTopic \/ TakeHex \/ TakeCharacter \/ TakeBase32 \/ NoHash
  <2>1. UNCHANGED fileVars
    BY <1>2, Zenon DEF SkipTopic, TakeHex, TakeCharacter, TakeBase32, NoHash
  <2> QED
    BY <1>2, <2>1, LinkStep
<1>3. CASE UNCHANGED torrentVars
  <2>1. /\ UNCHANGED <<torrent, data, whole, parseStage, pos, stack, root, pending, found, meta>>
        /\ UNCHANGED <<link, topic, taken, acc, contentKey>>
    BY <1>3 DEF torrentVars, fileVars, linkVars
  <2>2. FileInv'
    BY <2>1, Zenon DEF TorrentInv, FileInv
  <2>3. LinkInv'
    BY <2>1, Zenon DEF TorrentInv, LinkInv, LinkMade
  <2> QED
    BY <2>2, <2>3 DEF TorrentInv
<1> QED
  BY <1>1, <1>2, <1>3, Zenon DEF TorrentNext

-----------------------------------------------------------------------------
(* A file before any of it is read.                                         *)
LEMMA FileStarts == TorrentInit => TorrentInv
<1> SUFFICES ASSUME TorrentInit PROVE TorrentInv
  OBVIOUS
<1>1. /\ torrent \in Made /\ parseStage = "decoding" /\ pos = 1 /\ stack = <<>>
      /\ found = {} /\ meta = Unread /\ link = NoLink /\ contentKey = NoKey
  BY Zenon DEF TorrentInit, LinkIdle
<1>2. torrent.bytes \in Seq(STRING)
  BY <1>1, MadeLaid DEF LaidOut
<1>3. PICK made : made = torrent.bytes
  OBVIOUS
<1>4. ASSUME  whole = TRUE /\ data \in {torrent.bytes \o bytes : bytes \in Trailing}
      PROVE  DataRight(torrent, data, whole)
  <2>1. PICK more \in Trailing : data = made \o more
    BY <1>3, <1>4
  <2>2. more \in Seq(STRING)
    BY MadeAssumption
  <2>3. /\ made \o more \in Seq(STRING)
        /\ \A i \in 1 .. Len(made \o more) : i <= Len(made) => (made \o more)[i] = made[i]
        /\ Len(made) <= Len(made \o more)
    BY <1>2, <1>3, <2>2
  <2>4. DataRight(torrent, made \o more, TRUE)
    BY <1>3, <2>3, Zenon DEF DataRight
  <2> QED
    BY <1>4, <2>1, <2>4, Zenon
<1>5. ASSUME  whole = FALSE /\ data \in {SubSeq(torrent.bytes, 1, n) : n \in 0 .. Len(torrent.bytes) - 1}
      PROVE  DataRight(torrent, data, whole)
  <2>1. PICK n \in 0 .. Len(made) - 1 : data = SubSeq(made, 1, n)
    BY <1>3, <1>5
  <2>2. /\ SubSeq(made, 1, n) \in Seq(STRING)
        /\ \A i \in 1 .. Len(SubSeq(made, 1, n)) : i <= Len(made) => SubSeq(made, 1, n)[i] = made[i]
        /\ Len(SubSeq(made, 1, n)) < Len(made)
    BY <1>2, <1>3, <2>1
  <2>3. DataRight(torrent, SubSeq(made, 1, n), FALSE)
    BY <1>3, <2>2, Zenon DEF DataRight
  <2> QED
    BY <1>5, <2>1, <2>3, Zenon
<1>6. DataRight(torrent, data, whole)
  <2>1. \/ whole = TRUE /\ data \in {torrent.bytes \o bytes : bytes \in Trailing}
        \/ whole = FALSE /\ data \in {SubSeq(torrent.bytes, 1, n) : n \in 0 .. Len(torrent.bytes) - 1}
    BY DEF TorrentInit
  <2> QED
    BY <1>4, <1>5, <2>1
<1>7. StackRight(torrent, stack, pos)
  BY <1>1 DEF StackRight
<1>8. FileInv
  BY <1>1, <1>6, <1>7, Zenon DEF FileInv
<1>9. LinkInv
  BY <1>1, Zenon DEF LinkInv
<1> QED
  BY <1>8, <1>9 DEF TorrentInv

(* Topics one behind the other.                                             *)
LEMMA TopicsJoined ==
  ASSUME NEW S, NEW xs \in Seq(S), NEW s \in S, NEW ys \in Seq(S)
  PROVE  /\ Len((xs \o <<s>>) \o ys) \in Nat /\ Len(xs) \in Nat
         /\ Len(xs) + 1 <= Len((xs \o <<s>>) \o ys)
         /\ \A i \in 1 .. Len(xs) : ((xs \o <<s>>) \o ys)[i] = xs[i]
         /\ ((xs \o <<s>>) \o ys)[Len(xs) + 1] = s
OBVIOUS

(* A link before any of it is looked at.                                    *)
LEMMA LinkStarts == LinkInit => TorrentInv
<1> SUFFICES ASSUME LinkInit PROVE TorrentInv
  OBVIOUS
<1>1. /\ FileIdle /\ topic = 1 /\ taken = 0 /\ acc = NoBits /\ contentKey = NoKey
  BY Zenon DEF LinkInit
<1>2. FileInv
  BY <1>1, Zenon DEF FileIdle, FileInv
<1>3. ASSUME NEW hash \in [1 .. 5 * HashGroups -> HashBytes], NEW is \in {"hex", "base32"}, NEW upper \in BOOLEAN,
             NEW xts \in Before, NEW more \in Behind,
             link = [is |-> "hash", hash |-> hash, xts |-> xts \o <<Spelt_(hash, is, upper)>> \o more]
      PROVE  LinkMade
  <2>1. PICK s : s = Spelt_(hash, is, upper)
    OBVIOUS
  <2>2. PICK all : all = (xts \o <<s>>) \o more
    OBVIOUS
  <2>3. link.is = "hash" /\ link.hash = hash /\ link.xts = all
    BY <1>3, <2>1, <2>2
  <2>4. /\ xts \in Seq(Topics) /\ more \in Seq(Topics)
        /\ \A i \in DOMAIN xts : ~ IsV1(xts[i])
    BY LinkAssumption
  <2>5. xts \in Seq(Topics \cup {s}) /\ more \in Seq(Topics \cup {s}) /\ s \in Topics \cup {s}
    BY <2>4
  <2>6. /\ Len(all) \in Nat /\ Len(xts) \in Nat /\ Len(xts) + 1 <= Len(all)
        /\ \A i \in 1 .. Len(xts) : all[i] = xts[i]
        /\ all[Len(xts) + 1] = s
    BY <2>2, <2>5, TopicsJoined
  <2>7. PICK n : n = Len(xts) + 1
    OBVIOUS
  <2>8. n \in 1 .. Len(all) /\ 1 \in 1 .. Len(all) /\ n - 1 = Len(xts)
    BY <2>6, <2>7
  <2>9. \A i \in 1 .. n - 1 : ~ IsV1(all[i])
    <3>1. ASSUME NEW i \in 1 .. n - 1 PROVE ~ IsV1(all[i])
      <4>1. i \in 1 .. Len(xts) /\ i \in DOMAIN xts
        BY <2>4, <2>8, <3>1
      <4>2. all[i] = xts[i] /\ ~ IsV1(xts[i])
        BY <2>4, <2>6, <4>1
      <4> QED
        BY <4>2, Zenon
    <3> QED
      BY <3>1
  <2>10. all[n] = Spelt_(hash, is, upper)
    BY <2>1, <2>6, <2>7, Zenon
  <2>11. hash \in [1 .. 5 * HashGroups -> 0 .. 255] /\ HashGroups \in Nat
    <3>1. PICK positions, bytes : positions = 1 .. 5 * HashGroups /\ bytes = 0 .. 255
      OBVIOUS
    <3>2. HashBytes \subseteq bytes /\ HashGroups \in Nat
      BY <3>1, LinkAssumption
    <3>3. hash \in [positions -> bytes]
      BY <3>1, <3>2
    <3> QED
      BY <3>1, <3>2, <3>3, Zenon
  <2>12. AccRight(hash, 0, acc)
    <3>1. 5 * (0 \div 8) = 0 /\ 0 % 8 = 0
      OBVIOUS
    <3>2. AccIn(hash, 0, 0, acc)
      <4>1. FirstBits(hash, 0, 0, 0)
        BY DEF FirstBits
      <4>2. acc.bits = 0 /\ acc.width = 0 /\ acc.out = <<>>
        BY <1>1 DEF NoBits
      <4>3. Widths[0 + 1] = 0 /\ Fulls[0 + 1] = 0
        BY DEF Widths, Fulls
      <4>4. acc.out \in Seq(Nat) /\ Len(acc.out) = 0 + Fulls[0 + 1]
        BY <4>2, <4>3
      <4>5. \A j \in 1 .. Len(acc.out) : acc.out[j] = hash[j]
        BY <4>2
      <4>6. acc.bits \in Nat /\ acc.width = Widths[0 + 1] /\ FirstBits(hash, 0, 0, acc.bits)
        BY <4>1, <4>2, <4>3
      <4> QED
        BY <4>4, <4>5, <4>6, Zenon DEF AccIn
    <3> QED
      BY <3>1, <3>2, Zenon DEF AccRight
  <2>13. taken \in 0 .. 8 * HashGroups
    BY <1>1, <2>11
  <2>14. n \in topic .. Len(link.xts) /\ topic \in 1 .. Len(link.xts) /\ Len(link.xts) \in Nat
    BY <1>1, <2>3, <2>6, <2>8
  <2>15. /\ \A i \in 1 .. n - 1 : ~ IsV1(link.xts[i])
         /\ link.xts[n] = Spelt_(link.hash, is, upper)
    BY <2>3, <2>9, <2>10, Zenon
  <2>16. link.hash \in [1 .. 5 * HashGroups -> 0 .. 255] /\ AccRight(link.hash, taken, acc)
    BY <1>1, <2>3, <2>11, <2>12, Zenon
  <2> QED
    BY <2>3, <2>13, <2>14, <2>15, <2>16, Zenon DEF LinkMade
<1>4. ASSUME NEW xts \in Before, link = [is |-> "other", xts |-> xts]
      PROVE  LinkMade
  <2>1. link.is = "other" /\ link.xts = xts
    BY <1>4
  <2>2. xts \in Seq(Topics) /\ \A i \in DOMAIN xts : ~ IsV1(xts[i])
    BY LinkAssumption
  <2>3. Len(link.xts) \in Nat /\ topic \in 1 .. Len(link.xts) + 1 /\ \A i \in 1 .. Len(link.xts) : ~ IsV1(link.xts[i])
    BY <1>1, <2>1, <2>2
  <2> QED
    BY <2>1, <2>3, Zenon DEF LinkMade
<1>5. LinkMade
  BY <1>3, <1>4, Zenon DEF LinkInit
<1>6. LinkInv
  BY <1>1, <1>5, Zenon DEF LinkInv
<1> QED
  BY <1>2, <1>6 DEF TorrentInv

(* Where the names are ASCII, the charsets agree.                           *)
LEMMA AsciiRead ==
  ASSUME NEW t, InAscii(t)
  PROVE  FilesRead(t, "latin") = FilesRead(t, "utf")
<1>1. ASSUME NEW s, \A i \in DOMAIN s : s[i] \notin Foreign
      PROVE  Reading(s, "latin") = Reading(s, "utf")
  BY <1>1, Zenon DEF Reading
<1>2. ASSUME NEW f \in t.files PROVE FileRead(f, "latin") = FileRead(f, "utf")
  <2>1. \A k \in DOMAIN f.names : Reading(f.names[k], "latin") = Reading(f.names[k], "utf")
    BY <1>1, Zenon DEF InAscii
  <2>2. [k \in DOMAIN f.names |-> Reading(f.names[k], "latin")]
          = [k \in DOMAIN f.names |-> Reading(f.names[k], "utf")]
    BY <2>1, Zenon
  <2> QED
    BY <2>2, Zenon DEF FileRead
<1> QED
  BY <1>2, Zenon DEF FilesRead

(* What is read and found is right.                                         *)
LEMMA TorrentRight == TorrentInv => ParsedAsMade
<1> SUFFICES ASSUME TorrentInv PROVE ParsedAsMade
  OBVIOUS
<1>1. ASSUME meta # Unread
      PROVE  IF whole /\ torrent.is # "other" THEN meta = MetaRight(torrent) ELSE ~ meta.ok
  <2>1. IF whole /\ torrent.is # "other" THEN meta = MetaRight(torrent) ELSE meta = Bad
    BY <1>1, Zenon DEF TorrentInv, FileInv
  <2>2. Bad.ok = FALSE
    BY DEF Bad
  <2> QED
    BY <2>1, <2>2
<1>2. ASSUME contentKey # NoKey
      PROVE  contentKey = IF link.is = "hash" THEN HashKey(Nibbles(link.hash)) ELSE Keyless
  BY <1>2, Zenon DEF TorrentInv, LinkInv
<1>3. ASSUME meta # Unread, whole /\ torrent.is # "other", InAscii(torrent)
      PROVE  meta.files = FilesRead(torrent, "utf")
  <2>1. meta.files = FilesOf(torrent)
    BY <1>1, <1>3 DEF MetaRight
  <2>2. FilesRead(torrent, "latin") = FilesRead(torrent, "utf")
    BY <1>3, AsciiRead
  <2> QED
    BY <2>1, <2>2, Zenon DEF FilesOf
<1>4. MetaRight(torrent) = [ok |-> TRUE, infoHash |-> IF torrent.v1 THEN torrent.info ELSE <<>>,
                            files |-> FilesRead(torrent, IF torrent.is = "tree" THEN "latin" ELSE "utf")]
  BY Zenon DEF MetaRight, FilesOf
<1> QED
  BY <1>1, <1>2, <1>3, <1>4, Zenon DEF ParsedAsMade

(* Every bencoded file, whole or cut, is read as it was made, but that the    *)
(* paths of a version 2 tree are read as latin1, and all links of a hash have *)
(* one key.                                                                *)
THEOREM TorrentsParsed == TorrentSpec => []ParsedAsMade
<1>1. TorrentInit \/ LinkInit => TorrentInv
  BY FileStarts, LinkStarts
<1>2. TorrentInv /\ [TorrentNext]_torrentVars => TorrentInv'
  BY TorrentStep
<1>3. TorrentInv => ParsedAsMade
  BY TorrentRight
<1> QED
  BY <1>1, <1>2, <1>3, PTL DEF TorrentSpec

=============================================================================
