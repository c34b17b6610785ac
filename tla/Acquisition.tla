------------------------------ MODULE Acquisition ------------------------------
(***************************************************************************)
(* Acquisition of downloads (dsh-tool-acquisition): AcquireService over    *)
(* its handle store and the torrent backends.                              *)
(*                                                                         *)
(* A caller is one activation of submit, of the read-back hook checkSubmit *)
(* or of status.  A submit makes at most one record, named after it.  The  *)
(* states "queued" and "downloading" of a record and of a torrent differ   *)
(* in nothing the code asks, and are "live" here.                          *)
(***************************************************************************)
EXTENDS Naturals, Sequences, FiniteSets

CONSTANTS
  Sources,   \* what a submit can name: magnets and links
  Contents,  \* what is downloaded: the infohash of a torrent
  LeadsTo,   \* source -> how it resolves, and to which content
  Backends,  \* torrent clients
  Order,     \* the configured ones, in the order they are tried
  Callers,   \* activations
  MaxPolls,  \* bound on the polls of a submit before its deadline
  Move,      \* whether finished files are moved instead of linked
  None       \* undefined

Ways == {"magnet", "page", "torrent", "file"}
ASSUME LeadsAssumption == LeadsTo \in [Sources -> [via : Ways, content : Contents]]
ASSUME OrderAssumption == Order \in Seq(Backends) /\ Len(Order) > 0
ASSUME BoundAssumption == MaxPolls \in Nat \ {0} /\ Move \in BOOLEAN

VARIABLES
  store,     \* handle -> its record in the file
  lock,      \* the store's mutex: the head is inside
  base,      \* caller -> the file as its put loaded it
  pc,        \* caller -> the await it stands at
  my,        \* caller -> its local variables
  seen,      \* caller -> the backend's answer it has not handled yet
  remote,    \* backend -> content -> the torrent's state there
  late,      \* torrents on their way to a backend after their caller gave up
  queuedBy,  \* history: caller -> the torrents backends took from it in time
  unsaved,   \* history: callers a put failed for
  contested, \* history: contents two activations worked on at once
  past       \* history: callers of earlier processes

storeVars == <<store, lock, base>>
callVars == <<pc, my, seen>>
worldVars == <<remote, late, queuedBy>>
historyVars == <<unsaved, contested, past>>
vars == <<storeVars, callVars, worldVars, historyVars>>

Record == [backend : Backends \cup {"direct"}, content : Contents,
           link : Sources \cup {None}, state : {"live", "completed", "failed", "missing"}]
ASSUME NoneAssumption == None \notin Sources \cup Callers \cup Record
ASSUME DirectAssumption == "direct" \notin Backends

(* Locals: the operation, its source, the identity looked up, the handle it *)
(* works on, its copy of the record, what a put is for, the backend tried,  *)
(* the polls made.                                                          *)
Locals == [op : {"submit", "check", "status"}, src : Sources \cup {None},
           stage : {"link", "torrent"}, id : Callers \cup {None}, rec : Record \cup {None},
           after : {"status", "first", "poll", "uncertain"}, at : 1..Len(Order), polls : 0..MaxPolls]
Blank == [op |-> "submit", src |-> None, stage |-> "link", id |-> None, rec |-> None,
          after |-> "status", at |-> 1, polls |-> 0]

PcValues == {"idle", "find", "get", "fetching", "trying", "probing", "asking",
             "importing", "putting", "returned", "threw", "lost"}

Ended(c) == pc[c] \in {"returned", "threw"}
Active(c) == pc[c] # "idle" /\ ~Ended(c) /\ pc[c] # "lost"
Lead(c) == LeadsTo[my[c].src]
(* The content an activation works on.                                      *)
Content(c) == IF my[c].op = "status" THEN store[my[c].id].content ELSE Lead(c).content

TypeOK ==
  /\ store \in [Callers -> Record \cup {None}]
  /\ lock \in Seq(Callers)
  /\ base \in [Callers -> [Callers -> Record \cup {None}] \cup {None}]
  /\ pc \in [Callers -> PcValues]
  /\ my \in [Callers -> Locals]
  /\ seen \in [Callers -> {"nothing", "live", "completed", "failed", "missing"}]
  /\ remote \in [Backends -> [Contents -> {"absent", "live", "completed", "moved", "failed"}]]
  /\ late \in SUBSET (Backends \X Contents)
  /\ queuedBy \in [Callers -> SUBSET (Backends \X Contents)]
  /\ unsaved \in SUBSET Callers
  /\ contested \in SUBSET Contents
  /\ past \in SUBSET Callers

Init ==
  /\ store = [i \in Callers |-> None]
  /\ lock = <<>>
  /\ base = [c \in Callers |-> None]
  /\ pc = [c \in Callers |-> "idle"]
  /\ my = [c \in Callers |-> Blank]
  /\ seen = [c \in Callers |-> "nothing"]
  /\ remote = [b \in Backends |-> [m \in Contents |-> "absent"]]
  /\ late = {}
  /\ queuedBy = [c \in Callers |-> {}]
  /\ unsaved = {}
  /\ contested = {}
  /\ past = {}

-----------------------------------------------------------------------------
(* Where an activation goes on.                                             *)

To(c, where) == pc' = [pc EXCEPT ![c] = where]
Ends(c, how) == To(c, how) /\ my' = [my EXCEPT ![c] = Blank]
(* The read-back hook does not throw: it cannot tell.                       *)
Fails(c) == Ends(c, IF my[c].op = "check" THEN "returned" ELSE "threw")

(* Put record r under handle i: wait for the store's mutex.                 *)
Put(c, i, r, why) ==
  /\ To(c, "putting")
  /\ lock' = Append(lock, c)
  /\ my' = [my EXCEPT ![c].id = i, ![c].rec = r, ![c].after = why]

(* Nothing to resolve to: the hook cannot tell, a submit starts fresh.      *)
Fresh(c) ==
  \/ my[c].op = "check" /\ Ends(c, "returned")
  \/ /\ my[c].op = "submit"
     /\ To(c, IF my[c].stage = "link" THEN "fetching" ELSE "trying")
     /\ my' = [my EXCEPT ![c].id = None, ![c].rec = None]

(* What status says, to its caller or to resolveExisting.                   *)
Resolved(c, r) ==
  \/ (my[c].op = "status" \/ r.state # "missing") /\ Ends(c, "returned")
  \/ my[c].op # "status" /\ r.state = "missing" /\ Fresh(c)

Enters(c, m) ==
  /\ pc[c] = "idle"
  /\ contested' = IF \E d \in Callers : Active(d) /\ Content(d) = m
                  THEN contested \cup {m} ELSE contested
  /\ UNCHANGED <<storeVars, seen, worldVars, unsaved, past>>

Calls(c, o, s) ==
  /\ Enters(c, LeadsTo[s].content)
  /\ my' = [my EXCEPT ![c].op = o, ![c].src = s,
                      ![c].stage = IF LeadsTo[s].via = "magnet" THEN "torrent" ELSE "link"]
  /\ To(c, "find")

Submit(c, s) == Calls(c, "submit", s)
CheckSubmit(c, s) == Calls(c, "check", s)

Status(c, i) ==
  /\ store[i] # None
  /\ Enters(c, store[i].content)
  /\ my' = [my EXCEPT ![c].op = "status", ![c].id = i]
  /\ To(c, "get")

-----------------------------------------------------------------------------
(* findByContentKey: a live record of the identity, else a completed one.   *)

(* Mutant: a torrent is looked for at the first backend only.               *)
MatchesFirstBackend(c, r) ==
  /\ r # None
  /\ IF my[c].stage = "link" THEN r.link = my[c].src
     ELSE r.backend = Order[1] /\ r.content = Content(c)

Matches(c, r) ==
  /\ r # None
  /\ IF my[c].stage = "link" THEN r.link = my[c].src
     ELSE r.backend # "direct" /\ r.content = Content(c)
Found(c, state) == {i \in Callers : Matches(c, store[i]) /\ store[i].state = state}

(* Which of several is a matter of their order in the file, left open here. *)
Find(c) ==
  /\ pc[c] = "find"
  /\ \/ \E i \in Found(c, "live") : To(c, "get") /\ my' = [my EXCEPT ![c].id = i]
     \/ Found(c, "live") = {} /\ \E i \in Found(c, "completed") : Ends(c, "returned")
     \/ Found(c, "live") = {} /\ Found(c, "completed") = {} /\ Fresh(c)
  /\ UNCHANGED <<storeVars, seen, worldVars, historyVars>>

(* Mutant: status asks about a torrent whatever the state of its record.    *)
GetAsks(c) ==
  LET r == store[my[c].id] IN
  /\ pc[c] = "get"
  /\ \/ r.backend = "direct" /\ Resolved(c, r)
     \/ /\ r.backend # "direct"
        /\ To(c, "asking")
        /\ my' = [my EXCEPT ![c].rec = r, ![c].after = "status"]
  /\ UNCHANGED <<storeVars, seen, worldVars, historyVars>>

(* status: the record as the file has it.                                   *)
Get(c) ==
  LET r == store[my[c].id] IN
  /\ pc[c] = "get"
  /\ \/ r.state # "live" /\ Resolved(c, r)
     \/ /\ r.state = "live"
        /\ To(c, "asking")
        /\ my' = [my EXCEPT ![c].rec = r, ![c].after = "status"]
  /\ UNCHANGED <<storeVars, seen, worldVars, historyVars>>

-----------------------------------------------------------------------------
(* submit of a link: fetchDirect or Prowlarr's resolve.                     *)

FetchFile(c) ==
  /\ pc[c] = "fetching" /\ Lead(c).via = "file"
  /\ Put(c, c, [backend |-> "direct", content |-> Content(c), link |-> my[c].src,
                state |-> "completed"], "poll")
  /\ UNCHANGED <<store, base, seen, worldVars, historyVars>>

FetchTorrent(c) ==
  /\ pc[c] = "fetching" /\ Lead(c).via \in {"page", "torrent"}
  /\ To(c, "find")
  /\ my' = [my EXCEPT ![c].stage = "torrent"]
  /\ UNCHANGED <<storeVars, seen, worldVars, historyVars>>

FetchFails(c) ==
  /\ pc[c] = "fetching"
  /\ Fails(c)
  /\ UNCHANGED <<storeVars, seen, worldVars, historyVars>>

-----------------------------------------------------------------------------
(* submitTorrent: the backends in order.  Backends know a torrent by its    *)
(* infohash and take it once.                                               *)

Trying(c) == Order[my[c].at]
Added(b, m) == IF remote[b][m] = "absent" THEN [remote EXCEPT ![b][m] = "live"] ELSE remote

(* The record of a torrent; only a magnet link keeps the link as an alias.  *)
NewRecord(c) ==
  [backend |-> Trying(c), content |-> Content(c), state |-> "live",
   link |-> IF Lead(c).via = "page" THEN my[c].src ELSE None]

NextBackend(c) ==
  \/ /\ my[c].at < Len(Order)
     /\ To(c, "trying")
     /\ my' = [my EXCEPT ![c].at = @ + 1]
  \/ my[c].at = Len(Order) /\ Fails(c)

Arrives(c) ==
  /\ remote' = Added(Trying(c), Content(c))
  /\ queuedBy' = [queuedBy EXCEPT ![c] = @ \cup {<<Trying(c), Content(c)>>}]

Accepted(c) ==
  /\ pc[c] = "trying"
  /\ Arrives(c)
  /\ Put(c, c, NewRecord(c), "first")
  /\ UNCHANGED <<store, base, seen, late, historyVars>>

(* The payload is refused for good.                                         *)
Refused(c) ==
  /\ pc[c] = "trying"
  /\ Fails(c)
  /\ UNCHANGED <<storeVars, seen, worldVars, historyVars>>

(* The request provably never arrived (isDefinitePreQueue).                 *)
NotReached(c) ==
  /\ pc[c] = "trying"
  /\ NextBackend(c)
  /\ UNCHANGED <<storeVars, seen, worldVars, historyVars>>

(* Mutant: an ambiguous failure fails over at once.                         *)
InterruptedBlind(c) ==
  /\ pc[c] = "trying"
  /\ NextBackend(c)
  /\ Arrives(c)
  /\ UNCHANGED <<storeVars, seen, late, historyVars>>

(* Anything else is ambiguous: the request arrived, or may yet.             *)
Interrupted(c) ==
  /\ pc[c] = "trying"
  /\ To(c, "probing")
  /\ \/ Arrives(c) /\ UNCHANGED late
     \/ late' = late \cup {<<Trying(c), Content(c)>>} /\ UNCHANGED <<remote, queuedBy>>
  /\ UNCHANGED <<storeVars, my, seen, historyVars>>

-----------------------------------------------------------------------------
(* A backend answers a question about a torrent; the answer is handled      *)
(* some time later.                                                         *)

Says(t) == CASE t = "absent" -> "missing" [] t = "moved" -> "completed" [] OTHER -> t

Answers(c) ==
  LET b == IF pc[c] = "probing" THEN Trying(c) ELSE my[c].rec.backend
      m == IF pc[c] = "probing" THEN Content(c) ELSE my[c].rec.content
  IN
  /\ pc[c] \in {"probing", "asking"} /\ seen[c] = "nothing"
  /\ seen' = [seen EXCEPT ![c] = Says(remote[b][m])]
  /\ UNCHANGED <<storeVars, pc, my, worldVars, historyVars>>

Handles(c, where) ==
  /\ pc[c] = where /\ seen[c] # "nothing"
  /\ seen' = [seen EXCEPT ![c] = "nothing"]
  /\ UNCHANGED <<store, base, worldVars, historyVars>>

NoAnswer(c, where) ==
  /\ pc[c] = where /\ seen[c] = "nothing"
  /\ UNCHANGED <<store, base, seen, worldVars, historyVars>>

ProbeFound(c) ==
  /\ Handles(c, "probing") /\ seen[c] # "missing"
  /\ Put(c, c, NewRecord(c), "first")

ProbeAbsent(c) ==
  /\ Handles(c, "probing") /\ seen[c] = "missing"
  /\ NextBackend(c)
  /\ UNCHANGED lock

(* Mutant: the submit throws and leaves no record of what may be queued.    *)
ProbeFailsUnrecorded(c) ==
  /\ NoAnswer(c, "probing")
  /\ Fails(c)
  /\ UNCHANGED lock

(* The backend cannot answer either: an uncertain record.                   *)
ProbeFails(c) ==
  /\ NoAnswer(c, "probing")
  /\ Put(c, c, NewRecord(c), "uncertain")

(* The answer to status, and to a poll of a submit.                         *)
Keeps(c, state) == Put(c, my[c].id, [my[c].rec EXCEPT !.state = state], my[c].after)

AskFails(c) ==
  /\ NoAnswer(c, "asking")
  /\ Fails(c)
  /\ UNCHANGED lock

AskGone(c) ==
  /\ Handles(c, "asking") /\ seen[c] \in {"failed", "missing"}
  /\ Keeps(c, seen[c])

AskLive(c) ==
  /\ Handles(c, "asking") /\ seen[c] = "live"
  /\ Keeps(c, "live")

Present(c) == remote[my[c].rec.backend][my[c].rec.content] = "completed"

(* finalize: select the files; none there, none that match.                 *)
Selects(c) ==
  /\ Handles(c, "asking") /\ seen[c] = "completed"
  /\ \/ Present(c) /\ To(c, "importing") /\ UNCHANGED <<lock, my>>
     \/ ~Present(c) /\ Keeps(c, "failed")

(* After the stat: bring the selected files in.                             *)
Imports(c) ==
  /\ pc[c] = "importing" /\ Present(c)
  /\ Keeps(c, "completed")
  /\ remote' = IF Move THEN [remote EXCEPT ![my[c].rec.backend][my[c].rec.content] = "moved"]
               ELSE remote
  /\ UNCHANGED <<store, base, seen, late, queuedBy, historyVars>>

ImportFails(c) ==
  /\ pc[c] = "importing" /\ ~Present(c)
  /\ Fails(c)
  /\ UNCHANGED <<storeVars, seen, worldVars, historyVars>>

-----------------------------------------------------------------------------
(* HandleStore.put: load, change and save the file inside the mutex.        *)

(* Mutant: nobody waits for the mutex.                                      *)
InsideUnlocked(c) == pc[c] = "putting"

Inside(c) == pc[c] = "putting" /\ lock # <<>> /\ Head(lock) = c

Loads(c) ==
  /\ Inside(c) /\ base[c] = None
  /\ base' = [base EXCEPT ![c] = store]
  /\ UNCHANGED <<store, lock, callVars, worldVars, historyVars>>

Leaves(c) ==
  /\ base' = [base EXCEPT ![c] = None]
  /\ lock' = Tail(lock)

(* After the put: render, poll on until the deadline, or throw.             *)
AfterPut(c) ==
  LET r == my[c].rec IN
  \/ my[c].after = "status" /\ Resolved(c, r)
  \/ my[c].after = "poll" /\ Ends(c, "returned")
  \/ my[c].after = "uncertain" /\ Fails(c)
  \/ /\ my[c].after = "first" \/ (my[c].after = "poll" /\ r.state = "live")
     /\ my[c].polls < MaxPolls
     /\ To(c, "asking")
     /\ my' = [my EXCEPT ![c].after = "poll", ![c].polls = @ + 1]

Saves(c) ==
  /\ Inside(c) /\ base[c] # None
  /\ store' = [base[c] EXCEPT ![my[c].id] = my[c].rec]
  /\ Leaves(c)
  /\ AfterPut(c)
  /\ UNCHANGED <<seen, worldVars, historyVars>>

PutFails(c) ==
  /\ Inside(c)
  /\ Leaves(c)
  /\ unsaved' = unsaved \cup {c}
  /\ Fails(c)
  /\ UNCHANGED <<store, seen, worldVars, contested, past>>

-----------------------------------------------------------------------------
(* The backends, the network and the process.                               *)

LateArrives ==
  \E x \in late :
    /\ late' = late \ {x}
    /\ remote' = Added(x[1], x[2])
    /\ UNCHANGED <<storeVars, callVars, queuedBy, historyVars>>

Progress(b, m) ==
  /\ remote[b][m] = "live"
  /\ \E t \in {"completed", "failed"} : remote' = [remote EXCEPT ![b][m] = t]
  /\ UNCHANGED <<storeVars, callVars, late, queuedBy, historyVars>>

(* Someone removes the torrent, and what it downloaded, at the backend.     *)
RemoveTorrent(b, m) ==
  /\ remote[b][m] # "absent"
  /\ remote' = [remote EXCEPT ![b][m] = "absent"]
  /\ queuedBy' = [c \in Callers |-> queuedBy[c] \ {<<b, m>>}]
  /\ UNCHANGED <<storeVars, callVars, late, historyVars>>

Restart ==
  /\ \E c \in Callers \ past : pc[c] # "idle"
  /\ lock' = <<>>
  /\ base' = [c \in Callers |-> None]
  /\ pc' = [c \in Callers |-> IF pc[c] = "idle" THEN "idle" ELSE "lost"]
  /\ my' = [c \in Callers |-> Blank]
  /\ seen' = [c \in Callers |-> "nothing"]
  /\ queuedBy' = [c \in Callers |-> {}]
  /\ past' = {c \in Callers : pc[c] # "idle"}
  /\ late' = {}
  /\ UNCHANGED <<store, remote, unsaved, contested>>

-----------------------------------------------------------------------------
Fetch(c) == FetchFile(c) \/ FetchTorrent(c) \/ FetchFails(c)
Try(c) == Accepted(c) \/ Refused(c) \/ NotReached(c) \/ Interrupted(c)
Probed(c) == ProbeFound(c) \/ ProbeAbsent(c) \/ ProbeFails(c)
Asked(c) == AskFails(c) \/ AskGone(c) \/ AskLive(c) \/ Selects(c)
Step(c) ==
  \/ Find(c) \/ Get(c) \/ Fetch(c) \/ Try(c) \/ Answers(c) \/ Probed(c) \/ Asked(c)
  \/ Imports(c) \/ ImportFails(c) \/ Loads(c) \/ Saves(c)

Next ==
  \/ \E c \in Callers, s \in Sources : Submit(c, s) \/ CheckSubmit(c, s)
  \/ \E c, i \in Callers : Status(c, i)
  \/ \E c \in Callers : Step(c) \/ PutFails(c)
  \/ \E b \in Backends, m \in Contents : Progress(b, m) \/ RemoveTorrent(b, m)
  \/ LateArrives
  \/ Restart

Spec == Init /\ [][Next]_vars

-----------------------------------------------------------------------------
(* Properties.                                                              *)

(* "a blind failover would queue the same torrent twice" (acquire.ts:522):  *)
(* no submission is taken in time by two backends, however requests and     *)
(* answers are lost, refused or late.                                       *)
QueuedByOne == \A c \in Callers : Cardinality(queuedBy[c]) <= 1

(* Whatever a submit answers or throws, a torrent that a backend took in    *)
(* time can be followed: a record under its handle names that backend,      *)
(* unless the file could not be written (acquire.ts:530-537).               *)
FollowedUp ==
  \A c \in Callers \ (past \cup unsaved) :
    Ended(c) => \A q \in queuedBy[c] : store[c] # None /\ store[c].backend = q[1]

(* Puts of different records never undo one another, and a record keeps     *)
(* what it was made for (store.ts put).                                     *)
RecordKept ==
  [][\A i \in Callers : store[i] # None =>
       /\ store'[i] # None
       /\ [store'[i] EXCEPT !.state = store[i].state] = store[i]]_vars

LiveRecords(m) ==
  {i \in Callers : store[i] # None /\ store[i].content = m /\ store[i].state = "live"}

(* "the same torrent resolves to its record (refreshed from the backend)    *)
(* instead of queueing twice" (acquire.ts:477-478): by whatever sources it  *)
(* is named, over restarts, uncertain submits and removals, a content that  *)
(* is worked on by one activation at a time never has two live records.     *)
LoneSubmitsShare == \A m \in Contents \ contested : Cardinality(LiveRecords(m)) <= 1

(* Worked on by one activation at a time, a record that is completed,       *)
(* failed or missing is never written again ("terminal", types.ts:26).      *)
LoneTerminalStays ==
  [][\A i \in Callers :
       store[i] # None /\ store[i].state # "live" /\ store[i].content \notin contested' =>
         store'[i] = store[i]]_vars

(* Whoever holds or awaits the store's mutex is in its put: no write that   *)
(* fails and no early end leaves the others waiting (store.ts withLock).    *)
MutexIsLeft ==
  /\ \A k \in DOMAIN lock : pc[lock[k]] = "putting"
  /\ \A c \in Callers : pc[c] = "putting" => \E k \in DOMAIN lock : lock[k] = c

(* Claim of types.ts:26, "`completed`/`failed`/`missing` are terminal": the *)
(* state of such a record never changes.                                    *)
(* (It does not hold: README, Divergences.)                                 *)
TerminalStays ==
  [][\A i \in Callers :
       store[i] # None /\ store[i].state # "live" => store'[i].state = store[i].state]_vars
================================================================================
