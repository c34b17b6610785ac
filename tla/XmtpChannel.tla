------------------------------ MODULE XmtpChannel ------------------------------
(***************************************************************************)
(* The XMTP channel (dsh-channel-xmtp): messages of a user enter an agent's *)
(* inbox, and what the agent's session log then says goes back to the user. *)
(*                                                                         *)
(* The code keeps its chains, maps and buffers per conversation; this is    *)
(* one conversation.  The harness (agent, session log and its store), the   *)
(* network and the file system are the environment.  A stream reports one   *)
(* error at most, so there is one connect loop.  Log positions count from   *)
(* 1: cursor c says that the events 1..c are handled.                       *)
(***************************************************************************)
EXTENDS Integers, Sequences, FiniteSets

CONSTANTS
  Modes,        \* configurations (busyInbound, replyMode), each with the messages
                \* of its user, the agent's messages, the turns that no message starts,
                \* what may go wrong, and how often
  MaxMsgs,      \* bound on the messages of a user
  MaxTurns,     \* bound on the turns of the agent
  MaxOuts,      \* bound on the assistant messages with content
  MaxAttempts   \* maxReconnectAttempts

FaultKinds == {"crash", "truncate", "stop", "agent", "flush", "save", "stream", "dial",
               "send", "unsure", "timeout", "unknown", "image", "query", "replace", "overtake"}

ASSUME BoundsAssumption == {MaxMsgs, MaxTurns, MaxOuts, MaxAttempts} \subseteq Nat
ASSUME ModesAssumption ==
  Modes \subseteq [busy : {"queue", "steer", "drop", "coalesce"}, reply : {"turn", "message"},
                   msgs : 0..MaxMsgs, outs : 0..MaxOuts, wakes : Nat, faults : SUBSET FaultKinds, budget : Nat]

VARIABLES
  mode,       \* the configuration
  file,       \* the outbox file
  log,        \* the session log
  flushed,    \* length of its durable part
  delivered,  \* output -> how often the user received it
  agent,      \* the live agent: "none", "idle", "running"
  inbox,      \* what it has been handed and not claimed
  turn,       \* its open turn, or 0
  turns,      \* number of turns begun
  outs,       \* number of outputs produced
  conn,       \* where the connect loop is
  attempts,   \* reconnectAttempts
  handle,     \* the promise of the agent's handle
  resuming,   \* a resume waits for that promise
  outbox,     \* message -> 0, Accepted, or the output that answers it
  cursor,     \* last position handled
  seen,       \* message ids seen by this process
  turnInbound,\* turn -> the message it answers, or 0
  acked,      \* the busy ack of this running interval is sent
  coalesced,  \* messages buffered until the agent is idle
  live,       \* observed session: first position seen, and how much is pruned
  admits,     \* admission chain
  stage,      \* where its head is
  tail,       \* send tail behind the running task
  task,       \* the running task and an abandoned one
  pending,    \* persistPending
  writing,    \* the state being written, or Nothing
  faults,     \* history: number of things gone wrong
  entered,    \* history: message -> how often it entered the inbox
  redo,       \* history: message -> processes that ended without a record of it
  unlogged,   \* history: messages recorded without a durable log entry
  dropped,    \* history: outputs given up
  doubts      \* history: what may make a send go out once more

worldVars == <<mode, log, flushed, delivered>>
agentVars == <<agent, inbox, turn, turns, outs>>
connVars == <<conn, attempts, handle, resuming>>
inVars == <<seen, turnInbound, acked, coalesced, admits, stage>>
outVars == <<live, tail, task>>
saveVars == <<file, pending, writing>>
histVars == <<faults, entered, redo, unlogged, dropped, doubts>>
vars == <<worldVars, agentVars, connVars, inVars, outVars, saveVars, histVars, outbox, cursor>>

Msgs == 1..MaxMsgs
Turns == 1..MaxTurns
Outs == 1..MaxOuts
Accepted == MaxOuts + 1
NoCursor == -1  \* undefined
NoSteps == {}
NoTask == [kind |-> "none", stage |-> "none", gap |-> 0, steps |-> NoSteps]
Nothing == [entries |-> [m \in Msgs |-> 0], cursor |-> NoCursor, written |-> FALSE]
Slots == {"run", "late"}

(* Events of the session log.  A start or a join names what it claims.      *)
Event(type, t, o, ms) == [type |-> type, turn |-> t, out |-> o, msgs |-> ms]
Step == [at : Nat, turn : Turns, out : 0..MaxOuts]

Online == conn \in {"opening", "up", "ending"}  \* this.client is set
Stopped == conn = "stopping"
Served == handle \in {"save", "write", "live"}  \* conversationsBySession has it

(* Something that goes wrong, once more.                                    *)
Fault(kind) == kind \in mode.faults /\ faults < mode.budget /\ faults' = faults + 1

-----------------------------------------------------------------------------
(* Positions and what flush makes of them.                                  *)

InOrder(S) == {q \in [1..Cardinality(S) -> S] : \A i, j \in DOMAIN q : i < j => q[i] < q[j]}
MaxOf(S) == CHOOSE p \in S : \A q \in S : q <= p

(* The output of the turn that ends at p, among the events S: its last      *)
(* non-empty text since the buffer was last reset.                          *)
ClosingOutput(S, p) ==
  LET resets == {q \in S : q < p /\ log[q].type \in {"start", "end"}}
      since == IF resets = {} THEN 0 ELSE MaxOf(resets)
      texts == {q \in S : since < q /\ q < p /\ log[q].out # 0 /\ log[q].turn = log[p].turn}
  IN  IF texts = {} THEN 0 ELSE log[MaxOf(texts)].out

(* The boundaries at which flush moves the cursor, and what it sends there. *)
StepsOf(S) ==
  LET boundary == IF mode.reply = "message" THEN {"say", "end"} ELSE {"end"}
      output(p) == IF mode.reply = "message" THEN log[p].out ELSE ClosingOutput(S, p)
  IN  {[at |-> p, turn |-> log[p].turn, out |-> output(p)] : p \in {q \in S : log[q].type \in boundary}}

(* Pushed events of the observed session after c.                           *)
Buffered(c) == {p \in 1..Len(log) : p > c /\ p > live.cut /\ live.from # 0 /\ p >= live.from}
Observed(p) == [live EXCEPT !.from = IF @ = 0 THEN p ELSE @]
PrunedTo(c) == [live EXCEPT !.cut = IF c > @ THEN c ELSE @]

(* Outputs up to c that nobody has received.                                *)
Unsent(c) ==
  {log[p].out : p \in {q \in 1..Len(log) : q <= c}} \ ({0} \cup {o \in Outs : delivered[o] > 0})

(* persist: a write begins, or one more will follow the one under way; who  *)
(* awaits it waits for "write", the one under way, or to "save", the next.   *)
Snapshot(o, c) == [entries |-> o, cursor |-> c, written |-> TRUE]
Persists(o, c) ==
  /\ writing' = IF writing = Nothing THEN Snapshot(o, c) ELSE writing
  /\ pending' = (writing # Nothing)
  /\ UNCHANGED file
Waits == IF writing = Nothing THEN "write" ELSE "save"

(* Waiting for the handle, and the queue of a flush.                        *)
WantsHandle == handle' = IF handle = "none" THEN "creating" ELSE handle
Queued(kinds) == tail' = tail \o kinds
FlushDue == IF Stopped \/ \E i \in DOMAIN tail : tail[i] = "flush" THEN <<>> ELSE <<"flush">>

-----------------------------------------------------------------------------
Init ==
  /\ mode \in Modes
  /\ file = Nothing /\ log = <<>> /\ flushed = 0
  /\ delivered = [o \in Outs |-> 0]
  /\ agent = "none" /\ inbox = <<>> /\ turn = 0 /\ turns = 0 /\ outs = 0
  /\ conn = "dialing" /\ attempts = 0 /\ handle = "none" /\ resuming = FALSE
  /\ outbox = Nothing.entries /\ cursor = NoCursor
  /\ seen = {} /\ turnInbound = [t \in Turns |-> 0] /\ acked = FALSE
  /\ coalesced = <<>> /\ admits = <<>> /\ stage = "none"
  /\ live = [from |-> 0, cut |-> 0] /\ tail = <<>> /\ task = [w \in Slots |-> NoTask]
  /\ pending = FALSE /\ writing = Nothing
  /\ faults = 0 /\ entered = [m \in Msgs |-> 0] /\ redo = [m \in Msgs |-> 0]
  /\ unlogged = {} /\ dropped = {} /\ doubts = 0

-----------------------------------------------------------------------------
(* The connect loop.  The wallet, the client and the first sweep are one    *)
(* dial; opening is the await of the stream.                                *)

Dialed ==
  /\ conn = "dialing"
  /\ conn' = "opening"
  /\ UNCHANGED <<worldVars, agentVars, attempts, handle, resuming, inVars, outVars, saveVars,
                 histVars, outbox, cursor>>

(* Connected: conversations with a cursor are resumed and flushed.          *)
Opened ==
  /\ conn = "opening"
  /\ conn' = "up" /\ attempts' = 0
  /\ IF cursor = NoCursor
     THEN UNCHANGED <<handle, resuming, tail>>
     ELSE IF handle = "live"
     THEN Queued(FlushDue) /\ UNCHANGED <<handle, resuming>>
     ELSE WantsHandle /\ resuming' = TRUE /\ UNCHANGED tail
  /\ UNCHANGED <<worldVars, agentVars, inVars, live, task, saveVars, histVars, outbox, cursor>>

(* A failed attempt or a stream error: the client goes, a timer is set      *)
(* unless the attempts are exhausted.                                       *)
Reconnect ==
  /\ attempts' = attempts + 1
  /\ conn' = IF attempts' > MaxAttempts THEN "down" ELSE "waiting"
  /\ UNCHANGED <<worldVars, agentVars, handle, resuming, inVars, outVars, saveVars, entered, redo,
                 unlogged, dropped, doubts, outbox, cursor>>

DialFails == conn \in {"dialing", "opening"} /\ Fault("dial") /\ Reconnect

StreamFails ==
  /\ conn = "up" /\ Fault("stream")
  /\ conn' = "ending"
  /\ UNCHANGED <<worldVars, agentVars, attempts, handle, resuming, inVars, outVars, saveVars,
                 entered, redo, unlogged, dropped, doubts, outbox, cursor>>

StreamEnds == conn = "ending" /\ Reconnect /\ UNCHANGED faults

TimerFires ==
  /\ conn = "waiting"
  /\ conn' = "dialing"
  /\ UNCHANGED <<worldVars, agentVars, attempts, handle, resuming, inVars, outVars, saveVars,
                 histVars, outbox, cursor>>

(* The interval of the sweep, set by the first connection, retries what     *)
(* could not be sent.                                                       *)
Sweep ==
  /\ conn \in {"up", "waiting", "down"} /\ Served /\ FlushDue # <<>>
  /\ task["run"] = NoTask /\ cursor # Len(log)
  /\ Queued(FlushDue)
  /\ UNCHANGED <<worldVars, agentVars, connVars, inVars, live, task, saveVars, histVars, outbox,
                 cursor>>

-----------------------------------------------------------------------------
(* Inbound.                                                                 *)

(* Mutant: only this process's memory tells what has been seen.             *)
ReceiveAgain(m) ==
  /\ Online /\ m <= mode.msgs /\ m \notin seen
  /\ seen' = seen \cup {m}
  /\ admits' = Append(admits, m)
  /\ UNCHANGED <<worldVars, agentVars, connVars, turnInbound, acked, coalesced, stage, outVars,
                 saveVars, histVars, outbox, cursor>>

(* onMessage: the stream, its replay after a reconnect, or a backfill of    *)
(* the sweep hands over a message; what is new joins the admission chain.   *)
Receive(m) ==
  /\ Online /\ m <= mode.msgs
  /\ outbox[m] = 0 /\ m \notin seen
  /\ seen' = seen \cup {m}
  /\ admits' = Append(admits, m)
  /\ UNCHANGED <<worldVars, agentVars, connVars, turnInbound, acked, coalesced, stage, outVars,
                 saveVars, histVars, outbox, cursor>>

(* The head of the chain asks for the agent of the conversation.            *)
AdmitStarts ==
  /\ admits # <<>> /\ stage = "none" /\ ~Stopped
  /\ stage' = "agent" /\ WantsHandle
  /\ UNCHANGED <<worldVars, agentVars, conn, attempts, resuming, seen, turnInbound, acked,
                 coalesced, admits, outVars, saveVars, histVars, outbox, cursor>>

(* agentFor: created, or resumed with what its log still holds, observed    *)
(* from here on; a first cursor is the end of the log, and is saved.        *)
Unclaimed(i) ==
  LET same(j, types) == log[j].type \in types /\ log[j].msgs = log[i].msgs
  IN  /\ log[i].type = "in"
      /\ Cardinality({j \in 1..Len(log) : same(j, {"start", "join"})})
           < Cardinality({j \in 1..i : same(j, {"in"})})

AgentAttached ==
  /\ handle = "creating" /\ ~Stopped
  /\ IF agent # "none" THEN UNCHANGED <<agent, inbox>>
     ELSE /\ agent' = "idle"
          /\ \E ps \in InOrder({i \in 1..Len(log) : Unclaimed(i)}) :
               inbox' = [i \in DOMAIN ps |-> [msgs |-> log[ps[i]].msgs, reply |-> 0, joins |-> FALSE]]
  /\ live' = [from |-> Len(log) + 1, cut |-> 0]
  /\ IF cursor = NoCursor
     THEN /\ cursor' = Len(log) /\ handle' = Waits /\ Persists(outbox, Len(log))
          /\ dropped' = dropped \cup Unsent(Len(log))
          /\ UNCHANGED <<resuming, tail>>
     ELSE /\ handle' = "live" /\ resuming' = FALSE
          /\ Queued(IF resuming THEN FlushDue ELSE <<>>)
          /\ UNCHANGED <<cursor, saveVars, dropped>>
  /\ UNCHANGED <<worldVars, turn, turns, outs, conn, attempts, inVars, task, faults,
                 entered, redo, unlogged, doubts, outbox>>

(* Creation fails: whoever waits gives up; the message stays seen.          *)
AgentFails ==
  /\ handle = "creating" /\ Fault("agent")
  /\ handle' = "none" /\ resuming' = FALSE
  /\ IF stage = "agent" THEN stage' = "none" /\ admits' = Tail(admits) ELSE UNCHANGED <<stage, admits>>
  /\ UNCHANGED <<worldVars, agentVars, conn, attempts, seen, turnInbound, acked, coalesced,
                 outVars, saveVars, entered, redo, unlogged, dropped, doubts, outbox, cursor>>

Admitting(m) == stage = "agent" /\ handle = "live" /\ ~Stopped /\ m = Head(admits)
BusyAck ==
  IF agent = "running" /\ ~acked THEN Queued(<<"ack">>) /\ acked' = TRUE ELSE UNCHANGED <<tail, acked>>
Marked(m) == [outbox EXCEPT ![m] = IF @ = 0 THEN Accepted ELSE @]

(* A line that arrives mid-turn is buffered and at once marked handled.     *)
AdmitCoalesces(m) ==
  /\ Admitting(m) /\ agent = "running" /\ mode.busy = "coalesce"
  /\ BusyAck
  /\ coalesced' = Append(coalesced, m)
  /\ outbox' = Marked(m) /\ unlogged' = unlogged \cup {m}
  /\ stage' = Waits /\ Persists(outbox', cursor)
  /\ UNCHANGED <<worldVars, agentVars, connVars, seen, turnInbound, admits, live, task, faults, entered, redo, dropped, doubts, cursor>>

Enters(ms, joins) ==
  /\ inbox' = Append(inbox, [msgs |-> ms, reply |-> ms[Len(ms)], joins |-> joins])
  /\ log' = Append(log, Event("in", 0, 0, ms))
  /\ entered' = [m \in Msgs |-> entered[m] + IF \E i \in DOMAIN ms : ms[i] = m THEN 1 ELSE 0]

(* Anything else enters the inbox, unless it is dropped; then the session   *)
(* is flushed.                                                              *)
AdmitEnters(m) ==
  LET busy == agent = "running" IN
  /\ Admitting(m) /\ ~(busy /\ mode.busy = "coalesce")
  /\ BusyAck
  /\ IF busy /\ mode.busy = "drop"
     THEN unlogged' = unlogged \cup {m} /\ UNCHANGED <<inbox, log, entered>>
     ELSE Enters(<<m>>, busy /\ mode.busy = "steer") /\ UNCHANGED unlogged
  /\ stage' = "flush"
  /\ UNCHANGED <<mode, flushed, delivered, agent, turn, turns, outs, connVars, seen,
                 turnInbound, coalesced, admits, live, task, saveVars, faults, redo, dropped,
                 doubts, outbox, cursor>>

(* Mutant: a message is marked handled without the flush of the session.    *)
AdmitMarks ==
  /\ stage = "flush"
  /\ outbox' = Marked(Head(admits))
  /\ stage' = Waits /\ Persists(outbox', cursor)
  /\ UNCHANGED <<worldVars, agentVars, connVars, seen, turnInbound, acked, coalesced, admits,
                 outVars, histVars, cursor>>

(* The session is flushed, or that failed; the message is marked handled.   *)
AdmitFlushes ==
  LET m == Head(admits) IN
  /\ stage = "flush"
  /\ \/ flushed' = Len(log) /\ UNCHANGED <<faults, unlogged>>
     \/ Fault("flush") /\ unlogged' = unlogged \cup {m} /\ UNCHANGED flushed
  /\ outbox' = Marked(m)
  /\ stage' = Waits /\ Persists(outbox', cursor)
  /\ UNCHANGED <<mode, log, delivered, agentVars, connVars, seen, turnInbound, acked,
                 coalesced, admits, outVars, entered, redo, dropped, doubts, cursor>>

-----------------------------------------------------------------------------
(* The agent, and what the channel does on its events.                      *)

Logs(e) == log' = Append(log, e) /\ UNCHANGED <<mode, flushed, delivered>>
(* An output event of the observed session, one that makes a flush due.     *)
Pushes(relevant) ==
  /\ live' = IF Served /\ ~Stopped THEN Observed(Len(log) + 1) ELSE live
  /\ Queued(IF relevant /\ Served THEN FlushDue ELSE <<>>)

(* History: what is said while a cursor of a longer, lost log is ahead of   *)
(* this one is not going to be sent.                                        *)
Stale == \E c \in {cursor, file.cursor, writing.cursor} \ {NoCursor} : c > Len(log)

TurnStarts ==
  /\ agent # "none" /\ turn = 0 /\ turns < MaxTurns
  /\ \/ /\ inbox # <<>>
        /\ Logs(Event("start", turns + 1, 0, Head(inbox).msgs))
        /\ inbox' = Tail(inbox)
        /\ turnInbound' = [turnInbound EXCEPT ![turns + 1] = Head(inbox).reply]
     \/ /\ Cardinality({p \in 1..Len(log) : log[p].type = "start" /\ log[p].msgs = <<>>}) < mode.wakes
        /\ Logs(Event("start", turns + 1, 0, <<>>))
        /\ UNCHANGED <<inbox, turnInbound>>
  /\ turns' = turns + 1 /\ turn' = turns + 1 /\ agent' = "running"
  /\ Pushes(FALSE)
  /\ UNCHANGED <<outs, connVars, seen, acked, coalesced, admits, stage, task, saveVars, histVars,
                 outbox, cursor>>

(* A steered message joins the running turn.                                *)
TurnJoined ==
  \E i \in DOMAIN inbox :
    /\ turn # 0 /\ inbox[i].joins
    /\ Logs(Event("join", turn, 0, inbox[i].msgs))
    /\ inbox' = [j \in 1..(Len(inbox) - 1) |-> inbox[IF j < i THEN j ELSE j + 1]]
    /\ turnInbound' = [turnInbound EXCEPT ![turn] = IF inbox[i].reply = 0 THEN @ ELSE inbox[i].reply]
    /\ UNCHANGED <<agent, turn, turns, outs, connVars, seen, acked, coalesced, admits, stage,
                   outVars, saveVars, histVars, outbox, cursor>>

AgentSays ==
  /\ turn # 0 /\ outs < mode.outs
  /\ outs' = outs + 1
  /\ dropped' = IF Stale THEN dropped \cup {outs + 1} ELSE dropped
  /\ Logs(Event("say", turn, outs + 1, <<>>))
  /\ Pushes(mode.reply = "message")
  /\ UNCHANGED <<agent, inbox, turn, turns, connVars, inVars, task, saveVars, faults, entered, redo,
                 unlogged, doubts, outbox, cursor>>

TurnEnds ==
  /\ turn # 0
  /\ turn' = 0
  /\ Logs(Event("end", turn, 0, <<>>))
  /\ Pushes(TRUE)
  /\ UNCHANGED <<agent, inbox, turns, outs, connVars, inVars, task, saveVars, histVars, outbox, cursor>>

(* Idle: the lines buffered meanwhile become one message.                   *)
GoesIdle ==
  /\ agent = "running" /\ turn = 0 /\ inbox = <<>>
  /\ agent' = "idle"
  /\ IF ~Served
     THEN UNCHANGED <<acked, coalesced, tail, inbox, log, entered>>
     ELSE /\ acked' = FALSE /\ coalesced' = <<>> /\ Queued(FlushDue)
          /\ IF coalesced = <<>> THEN UNCHANGED <<inbox, log, entered>> ELSE Enters(coalesced, FALSE)
  /\ UNCHANGED <<mode, flushed, delivered, turn, turns, outs, connVars, seen, turnInbound,
                 admits, stage, live, task, saveVars, faults, redo, unlogged, dropped, doubts,
                 outbox, cursor>>

(* The harness replaces the agent: same id, a new session.  It may overtake *)
(* a task that still works on the old one.                                  *)
Replaced ==
  /\ agent = "idle" /\ Served
  /\ Fault(IF \A w \in Slots : task[w] = NoTask THEN "replace" ELSE "overtake")
  /\ log' = <<>> /\ flushed' = 0 /\ inbox' = <<>> /\ live' = [from |-> 0, cut |-> 0]
  /\ dropped' = dropped \cup Unsent(Len(log))
  /\ unlogged' = Msgs
  /\ UNCHANGED <<mode, delivered, agent, turn, turns, outs, connVars, inVars, tail, task,
                 saveVars, entered, redo, doubts, outbox, cursor>>

-----------------------------------------------------------------------------
(* Outbound: the send tail and the tasks on it.                             *)

Becomes(w, t) == task' = [task EXCEPT ![w] = t]
AtStage(w, s) == Becomes(w, [task[w] EXCEPT !.stage = s])
(* Mutant: the file is written, the cursor stays.                           *)
SavesOnly(w, t, c) ==
  /\ live' = PrunedTo(c) /\ UNCHANGED <<cursor, doubts>>
  /\ Becomes(w, [t EXCEPT !.stage = Waits])

(* The cursor moves, what it passed is pruned, and the file is written.     *)
(* History: an abandoned task that goes on may take the cursor back over    *)
(* what was sent since.                                                     *)
Advances(w, t, c) ==
  /\ cursor' = c /\ live' = PrunedTo(c)
  /\ doubts' = IF c < cursor /\ c < Len(log) THEN doubts + 1 ELSE doubts
  /\ Becomes(w, [t EXCEPT !.stage = Waits])

(* The next task of the tail begins.                                        *)
TailStarts(kind) ==
  /\ task["run"] = NoTask /\ tail # <<>> /\ Head(tail) = kind
  /\ tail' = Tail(tail)

(* An ack goes out if there is a client to send it.                         *)
Acks ==
  /\ TailStarts("ack")
  /\ UNCHANGED <<worldVars, agentVars, connVars, inVars, live, task, saveVars, histVars, outbox, cursor>>

(* Nothing to flush, or nobody to flush for.                                *)
FlushSkips ==
  /\ TailStarts("flush")
  /\ Stopped \/ ~Served \/ cursor = Len(log)
  /\ UNCHANGED <<worldVars, agentVars, connVars, inVars, live, task, saveVars, histVars, outbox, cursor>>

Flushes == TailStarts("flush") /\ ~Stopped /\ Served
Flush == [NoTask EXCEPT !.kind = "flush"]

(* A cursor beyond the log: the session was replaced, start from now.       *)
FlushResets ==
  /\ Flushes /\ cursor > Len(log)
  /\ dropped' = dropped \cup Unsent(Len(log))
  /\ Advances("run", Flush, Len(log)) /\ Persists(outbox, Len(log))
  /\ UNCHANGED <<worldVars, agentVars, connVars, inVars, faults, entered, redo, unlogged, outbox>>

(* The events after the cursor; a query gets those that are older than what *)
(* this process observed, which are a gap up to where that begins.          *)
FlushReads ==
  LET first == Observed(Len(log) + 1).from
      missed == {p \in 1..Len(log) : cursor < p /\ p < first}
      t == [Flush EXCEPT !.steps = StepsOf(missed \cup Buffered(cursor))]
  IN
  /\ Flushes /\ cursor < Len(log)
  /\ live' = Observed(Len(log) + 1)
  /\ Becomes("run", IF cursor + 1 >= first
                    THEN [t EXCEPT !.stage = "next"]
                    ELSE [t EXCEPT !.stage = "query", !.gap = first - 1])
  /\ UNCHANGED <<worldVars, agentVars, connVars, inVars, saveVars, histVars, outbox, cursor>>

QueryAnswers(w) ==
  /\ task[w].stage = "query"
  /\ Becomes(w, [task[w] EXCEPT !.stage = "next", !.gap = 0])
  /\ UNCHANGED <<worldVars, agentVars, connVars, inVars, live, tail, saveVars, histVars, outbox, cursor>>

(* No answer: the gap is skipped.                                           *)
QueryFails(w) ==
  LET gap == task[w].gap IN
  /\ task[w].stage = "query" /\ Fault("query")
  /\ dropped' = dropped \cup Unsent(gap)
  /\ Advances(w, Flush, gap) /\ Persists(outbox, gap)
  /\ UNCHANGED <<worldVars, agentVars, connVars, inVars, tail, entered, redo, unlogged, outbox>>

FlushEnds(w) ==
  /\ task[w].stage = "next" /\ task[w].steps = {}
  /\ Becomes(w, NoTask)
  /\ UNCHANGED <<worldVars, agentVars, connVars, inVars, live, tail, saveVars, histVars, outbox, cursor>>

Now(w) == CHOOSE s \in task[w].steps : \A q \in task[w].steps : s.at <= q.at
Later(w) == [task[w] EXCEPT !.steps = @ \ {Now(w)}]
Settles(w) == turnInbound' = IF mode.reply = "turn" \/ Now(w).out = 0
                             THEN [turnInbound EXCEPT ![Now(w).turn] = 0] ELSE turnInbound

(* A silent turn is settled; so is one whose conversation the client does   *)
(* not know.                                                                *)
StepPasses(w) ==
  /\ task[w].stage = "next" /\ task[w].steps # {}
  /\ \/ Now(w).out = 0 /\ UNCHANGED <<faults, dropped>>
     \/ /\ Now(w).out # 0 /\ Online /\ Fault("unknown")
        /\ dropped' = dropped \cup {Now(w).out}
  /\ Settles(w) /\ Advances(w, Later(w), Now(w).at) /\ Persists(outbox, Now(w).at)
  /\ UNCHANGED <<worldVars, agentVars, connVars, seen, acked, coalesced, admits, stage, tail,
                 entered, redo, unlogged, outbox>>

StepSends(w) ==
  /\ task[w].stage = "next" /\ task[w].steps # {} /\ Now(w).out # 0 /\ Online
  /\ AtStage(w, "send")
  /\ UNCHANGED <<worldVars, agentVars, connVars, inVars, live, tail, saveVars, histVars, outbox, cursor>>

(* Mutant: without a client the turn is passed over.                        *)
StepOfflinePasses(w) ==
  /\ task[w].stage = "next" /\ task[w].steps # {} /\ Now(w).out # 0 /\ ~Online
  /\ Settles(w) /\ Advances(w, Later(w), Now(w).at) /\ Persists(outbox, Now(w).at)
  /\ UNCHANGED <<worldVars, agentVars, connVars, seen, acked, coalesced, admits, stage, tail,
                 faults, entered, redo, unlogged, dropped, outbox>>

(* Without a client the task fails and the cursor holds.                    *)
StepOffline(w) ==
  /\ task[w].stage = "next" /\ task[w].steps # {} /\ Now(w).out # 0 /\ ~Online
  /\ Becomes(w, NoTask)
  /\ UNCHANGED <<worldVars, agentVars, connVars, inVars, live, tail, saveVars, histVars, outbox, cursor>>

Delivers(o) == delivered' = [delivered EXCEPT ![o] = @ + 1] /\ UNCHANGED <<mode, log, flushed>>

(* Sent: the reply is recorded with the message its turn answers.           *)
SendReturns(w) ==
  LET s == Now(w)
      m == turnInbound[s.turn]
  IN
  /\ task[w].stage = "send"
  /\ Delivers(s.out)
  /\ Settles(w)
  /\ outbox' = IF m = 0 THEN outbox ELSE [outbox EXCEPT ![m] = s.out]
  /\ Advances(w, Later(w), s.at) /\ Persists(outbox', s.at)
  /\ UNCHANGED <<agentVars, connVars, seen, acked, coalesced, admits, stage, tail,
                 faults, entered, redo, unlogged, dropped>>

(* An image that cannot be sent is left out, and the turn goes on.          *)
SendSwallows(w) ==
  /\ task[w].stage = "send" /\ Fault("image")
  /\ dropped' = dropped \cup {Now(w).out}
  /\ Settles(w) /\ Advances(w, Later(w), Now(w).at) /\ Persists(outbox, Now(w).at)
  /\ UNCHANGED <<worldVars, agentVars, connVars, seen, acked, coalesced, admits, stage, tail,
                 entered, redo, unlogged, outbox>>

(* A send that fails ends the task; it may have arrived all the same.       *)
SendFails(w) ==
  /\ task[w].stage = "send"
  /\ \/ Fault("send") /\ UNCHANGED <<worldVars, doubts>>
     \/ Fault("unsure") /\ Delivers(Now(w).out) /\ doubts' = doubts + 1
  /\ Becomes(w, NoTask)
  /\ UNCHANGED <<agentVars, connVars, inVars, live, tail, saveVars, entered, redo, unlogged,
                 dropped, outbox, cursor>>

(* The watchdog abandons a send that hangs; it goes on by itself.           *)
TimesOut ==
  /\ task["run"].stage = "send" /\ task["late"] = NoTask /\ Fault("timeout")
  /\ task' = [run |-> NoTask, late |-> task["run"]]
  /\ doubts' = doubts + 1
  /\ UNCHANGED <<worldVars, agentVars, connVars, inVars, live, tail, saveVars, entered, redo,
                 unlogged, dropped, outbox, cursor>>

-----------------------------------------------------------------------------
(* The outbox file: one write at a time, one more waiting behind it.        *)

(* The write ends, well or not; those who waited for it go on, and the one  *)
(* that is due begins with the state as it now is.                          *)
SaveEnds ==
  LET next(at, then) == CASE at = "write" -> then [] at = "save" -> "write" [] OTHER -> at IN
  /\ writing # Nothing
  /\ \/ file' = writing /\ UNCHANGED faults
     \/ Fault("save") /\ UNCHANGED file
  /\ writing' = IF pending THEN Snapshot(outbox, cursor) ELSE Nothing
  /\ pending' = FALSE
  /\ handle' = next(handle, "live")
  /\ resuming' = (resuming /\ handle # "write")
  /\ Queued(IF resuming /\ handle = "write" THEN FlushDue ELSE <<>>)
  /\ stage' = next(stage, "none")
  /\ admits' = IF stage = "write" THEN Tail(admits) ELSE admits
  /\ task' = [w \in Slots |-> [task[w] EXCEPT !.stage = next(@, "next")]]
  /\ UNCHANGED <<worldVars, agentVars, conn, attempts, seen, turnInbound, acked, coalesced, live,
                 entered, redo, unlogged, dropped, doubts, outbox, cursor>>

-----------------------------------------------------------------------------
(* The process ends and the next one loads the file.                        *)

Begins(f) ==
  /\ file' = f /\ outbox' = f.entries /\ cursor' = f.cursor
  /\ redo' = [m \in Msgs |-> redo[m] + IF f.entries[m] = 0 /\ entered[m] > redo[m] THEN 1 ELSE 0]
  /\ agent' = "none" /\ inbox' = <<>> /\ turn' = 0
  /\ conn' = "dialing" /\ attempts' = 0 /\ handle' = "none" /\ resuming' = FALSE
  /\ seen' = {} /\ turnInbound' = [t \in Turns |-> 0] /\ acked' = FALSE
  /\ coalesced' = <<>> /\ admits' = <<>> /\ stage' = "none"
  /\ live' = [from |-> 0, cut |-> 0] /\ tail' = <<>> /\ task' = [w \in Slots |-> NoTask]
  /\ pending' = FALSE /\ writing' = Nothing
  /\ UNCHANGED <<mode, turns, outs, entered, unlogged, dropped>>

(* A crash: the write under way may be done, a send under way may arrive,   *)
(* and the log may lose what was not durable.                               *)
Crash ==
  /\ Fault("crash")
  /\ \E f \in {file, IF writing = Nothing THEN file ELSE writing} : Begins(f)
  /\ delivered' \in {delivered} \cup
       {[delivered EXCEPT ![Now(w).out] = @ + 1] : w \in {v \in Slots : task[v].stage = "send"}}
  /\ \E n \in IF "truncate" \in mode.faults THEN flushed..Len(log) ELSE {Len(log)} :
       log' = SubSeq(log, 1, n) /\ flushed' = n
  /\ doubts' = doubts + 1

(* stop: no more client, no more events; the sends under way settle, then   *)
(* the file is written once more.                                           *)
Stop ==
  /\ ~Stopped /\ Fault("stop")
  /\ conn' = "stopping"
  /\ UNCHANGED <<worldVars, agentVars, attempts, handle, resuming, inVars, outVars, saveVars,
                 entered, redo, unlogged, dropped, doubts, outbox, cursor>>

StopDone ==
  /\ Stopped /\ task["run"] = NoTask /\ tail = <<>> /\ writing = Nothing
  /\ Begins(Snapshot(outbox, cursor))
  /\ delivered' \in {delivered} \cup
       {[delivered EXCEPT ![Now(w).out] = @ + 1] : w \in {v \in Slots : task[v].stage = "send"}}
  /\ flushed' = Len(log)
  /\ UNCHANGED <<log, faults, doubts>>

-----------------------------------------------------------------------------
Connection == Dialed \/ Opened \/ DialFails \/ StreamFails \/ StreamEnds \/ TimerFires \/ Sweep

Inbound ==
  \/ AdmitStarts \/ AgentAttached \/ AgentFails \/ AdmitFlushes
  \/ \E m \in Msgs : Receive(m) \/ AdmitCoalesces(m) \/ AdmitEnters(m)

Agent == TurnStarts \/ TurnJoined \/ AgentSays \/ TurnEnds \/ GoesIdle \/ Replaced

Working(w) ==
  \/ QueryAnswers(w) \/ FlushEnds(w)
  \/ StepPasses(w) \/ StepSends(w) \/ StepOffline(w) \/ SendReturns(w) \/ QueryFails(w)
  \/ SendSwallows(w) \/ SendFails(w)

Starts == Acks \/ FlushSkips \/ FlushResets \/ FlushReads
Outbound == Starts \/ TimesOut \/ \E w \in Slots : Working(w)

Next == Connection \/ Inbound \/ Agent \/ Outbound \/ SaveEnds \/ Crash \/ Stop \/ StopDone

Spec == Init /\ [][Next]_vars

-----------------------------------------------------------------------------
State == [entries : [Msgs -> 0..Accepted], cursor : Nat \cup {NoCursor}, written : BOOLEAN]
Entry == [msgs : Seq(Msgs) \ {<<>>}, reply : 0..MaxMsgs, joins : BOOLEAN]
Stages == {"none", "agent", "flush", "save", "write"}
TaskStages == {"none", "query", "next", "send", "save", "write"}

TypeOK ==
  /\ mode \in Modes /\ file \in State
  /\ log \in Seq([type : {"in", "start", "join", "say", "end"}, turn : 0..MaxTurns,
                  out : 0..MaxOuts, msgs : Seq(Msgs)])
  /\ flushed \in 0..Len(log) /\ delivered \in [Outs -> Nat]
  /\ agent \in {"none", "idle", "running"} /\ inbox \in Seq(Entry)
  /\ turn \in 0..turns /\ turns \in 0..MaxTurns /\ outs \in 0..MaxOuts
  /\ conn \in {"dialing", "opening", "up", "ending", "waiting", "down", "stopping"}
  /\ attempts \in Nat /\ resuming \in BOOLEAN
  /\ handle \in {"none", "creating", "save", "write", "live"}
  /\ outbox \in [Msgs -> 0..Accepted] /\ cursor \in Nat \cup {NoCursor}
  /\ seen \in SUBSET Msgs /\ turnInbound \in [Turns -> 0..MaxMsgs] /\ acked \in BOOLEAN
  /\ coalesced \in Seq(Msgs) /\ admits \in Seq(Msgs) /\ stage \in Stages
  /\ live \in [from : Nat, cut : Nat] /\ tail \in Seq({"flush", "ack"})
  /\ task \in [Slots -> [kind : {"none", "flush"}, stage : TaskStages, gap : Nat, steps : SUBSET Step]]
  /\ pending \in BOOLEAN /\ writing \in State
  /\ faults \in 0..mode.budget /\ entered \in [Msgs -> Nat] /\ redo \in [Msgs -> Nat]
  /\ unlogged \in SUBSET Msgs /\ dropped \in SUBSET Outs /\ doubts \in Nat

(* The output a closed turn owes: in mode "turn" the last thing it said, in *)
(* mode "message" all it said.                                              *)
Said(t) == {p \in 1..Len(log) : log[p].type = "say" /\ log[p].turn = t}
Owed(c) ==
  UNION {LET t == log[e].turn IN
         IF mode.reply = "message" THEN {log[p].out : p \in Said(t)}
         ELSE IF Said(t) = {} THEN {} ELSE {log[MaxOf(Said(t))].out} :
         e \in {p \in 1..Len(log) : p <= c /\ log[p].type = "end"}}
Received(o) == delivered[o] > 0

(* What the cursor has passed was received, unless it was given up for a    *)
(* named reason; on disk too (flush, persist).                              *)
NothingSkipped ==
  \A c \in {cursor, file.cursor} \ {NoCursor} : \A o \in Owed(c) : Received(o) \/ o \in dropped

(* The same, without exemption.                                             *)
NeverSkipsATurn ==
  cursor # NoCursor => \A o \in Owed(cursor) : Received(o)

(* A message enters the agent's inbox once for every process that did not   *)
(* live to record it.                                                       *)
EntersOnce == \A m \in Msgs : entered[m] <= 1 + redo[m]

(* What the file says has arrived is in the durable log.                    *)
InLog(m) == \E p \in 1..flushed : log[p].type = "in" /\ \E i \in DOMAIN log[p].msgs : log[p].msgs[i] = m
AcceptedIsKept == \A m \in Msgs : file.entries[m] = Accepted => InLog(m) \/ m \in unlogged

(* Nobody receives an output more than once, and once more for every        *)
(* process that ended, send that timed out, answer that was lost and return *)
(* of the cursor to what an abandoned send had left behind.                 *)
SentOnce == \A o \in Outs : delivered[o] <= 1 + doubts

(* What arrives is taken in exactly once, but for what a crash takes from    *)
(* the log or from the outbox; what is said goes out exactly once, but for   *)
(* what is given up for a named reason or repeated in doubt (admit, flush).  *)
MessagesEnterOnce == EntersOnce /\ AcceptedIsKept
RepliesGoOutOnce == NothingSkipped /\ SentOnce
=============================================================================
