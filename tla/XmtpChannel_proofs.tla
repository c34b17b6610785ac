-------------------------- MODULE XmtpChannel_proofs --------------------------
(***************************************************************************)
(* Proofs about XmtpChannel, for every configuration, every number of       *)
(* messages, turns and outputs and every budget of faults: its type, that a *)
(* message enters the agent's inbox once (MessagesEnterOnce), that an       *)
(* output goes out once (SentOnce) and that none is passed over             *)
(* (RepliesGoOutOnce, as long as no session is replaced under a task).      *)
(* The invariant is BaseInv, with EnterFits and KeptFits for the second,    *)
(* StepsSaid and SentCount for the third, CursorsFit, TasksCover and        *)
(* WithinLog for the last.                                                  *)
(***************************************************************************)
EXTENDS XmtpChannel, FiniteSetTheorems, WellFoundedInduction, TLAPS

Events ==
  [type : {"in", "start", "join", "say", "end"}, turn : 0..MaxTurns, out : 0..MaxOuts, msgs : Seq(Msgs)]
Tasks == [kind : {"none", "flush"}, stage : TaskStages, gap : Nat, steps : SUBSET Step]

(* The log: turns follow each other, an ended one is over, and what is said *)
(* is numbered as it is said.                                               *)
LogFits ==
  /\ turn # 0 => turn = turns
  /\ \A p \in 1..Len(log) :
       /\ log[p].type = "in" => log[p].turn = 0 /\ log[p].msgs # <<>>
       /\ log[p].type # "in" => log[p].turn \in 1..turns
       /\ log[p].type = "say" => log[p].out \in 1..outs
       /\ log[p].type # "say" => log[p].out = 0
       /\ log[p].type = "end" => log[p].turn # turn
  /\ \A p, q \in 1..Len(log) : p < q /\ log[p].type # "in" /\ log[q].type # "in" =>
       /\ log[p].turn <= log[q].turn
       /\ log[p].type = "end" \/ log[q].type = "start" => log[p].turn < log[q].turn
       /\ log[p].type = "say" /\ log[q].type = "say" => log[p].out < log[q].out

(* A task's steps are told by where they are and by what they send.         *)
StepsFit ==
  \A w \in Slots :
    /\ task[w].stage = "send" => task[w].steps # {} /\ Now(w).out # 0
    /\ \A s, u \in task[w].steps :
         s.at = u.at \/ (s.out # 0 /\ s.out = u.out) => s = u

AdmitFits == stage # "none" => admits # <<>>

-----------------------------------------------------------------------------
LEMMA Bounds ==
  ASSUME mode \in Modes
  PROVE  /\ MaxMsgs \in Nat /\ MaxTurns \in Nat /\ MaxOuts \in Nat /\ MaxAttempts \in Nat
         /\ mode.budget \in Nat /\ mode.outs \in 0..MaxOuts /\ mode.msgs \in 0..MaxMsgs
         /\ Accepted \in Nat /\ Accepted = MaxOuts + 1
BY BoundsAssumption, ModesAssumption DEF Accepted

-----------------------------------------------------------------------------
(* What a step does to the log: nothing or a cut (a crash, a new session),  *)
(* or one event that fits the turn.                                         *)
LogCut ==
  /\ \E n \in 0..Len(log) : log' = SubSeq(log, 1, n)
  /\ turn' \in {0, turn} /\ turns' = turns /\ outs' = outs
LogIn ==
  /\ \E ms \in Seq(Msgs) \ {<<>>} : log' = Append(log, Event("in", 0, 0, ms))
  /\ turn' = turn /\ turns' = turns /\ outs' = outs
LogStart ==
  /\ turn = 0 /\ turns < MaxTurns /\ turns' = turns + 1 /\ turn' = turns + 1 /\ outs' = outs
  /\ \E ms \in Seq(Msgs) : log' = Append(log, Event("start", turns + 1, 0, ms))
LogJoin ==
  /\ turn # 0 /\ turn' = turn /\ turns' = turns /\ outs' = outs
  /\ \E ms \in Seq(Msgs) : log' = Append(log, Event("join", turn, 0, ms))
LogSay ==
  /\ turn # 0 /\ turn' = turn /\ turns' = turns /\ outs < MaxOuts /\ outs' = outs + 1
  /\ \E ms \in Seq(Msgs) : log' = Append(log, Event("say", turn, outs + 1, ms))
LogEnd ==
  /\ turn # 0 /\ turn' = 0 /\ turns' = turns /\ outs' = outs
  /\ \E ms \in Seq(Msgs) : log' = Append(log, Event("end", turn, 0, ms))
LogStep == LogCut \/ LogIn \/ LogStart \/ LogJoin \/ LogSay \/ LogEnd

LogType ==
  /\ log \in Seq(Events) /\ turn \in 0..turns /\ turns \in 0..MaxTurns /\ outs \in 0..MaxOuts

LEMMA Sizes == MaxMsgs \in Nat /\ MaxTurns \in Nat /\ MaxOuts \in Nat
BY BoundsAssumption

LEMMA EventIs ==
  ASSUME NEW type \in {"in", "start", "join", "say", "end"}, NEW t \in 0..MaxTurns,
         NEW o \in 0..MaxOuts, NEW ms \in Seq(Msgs)
  PROVE  /\ Event(type, t, o, ms) \in Events
         /\ Event(type, t, o, ms).type = type /\ Event(type, t, o, ms).turn = t
         /\ Event(type, t, o, ms).out = o /\ Event(type, t, o, ms).msgs = ms
BY DEF Event, Events

LEMMA LogCutFits ==
  ASSUME LogType, LogFits, LogCut
  PROVE  LogType' /\ LogFits'
<1>1. PICK n \in 0..Len(log) : log' = SubSeq(log, 1, n)
  BY DEF LogCut
<1>2. /\ log' \in Seq(Events) /\ Len(log') = n /\ n <= Len(log)
      /\ \A p \in 1..n : log'[p] = log[p] /\ p \in 1..Len(log)
  BY <1>1 DEF LogType
<1>3. turn' \in {0, turn} /\ turns' = turns /\ outs' = outs
  BY DEF LogCut
<1>4. LogType'
  BY <1>2, <1>3 DEF LogType
<1>5. LogFits'
  <2>1. turn' # 0 => turn' = turns'
    BY <1>3 DEF LogFits
  <2>2. ASSUME NEW p \in 1..n
        PROVE  /\ log'[p].type = "in" => log'[p].turn = 0 /\ log'[p].msgs # <<>>
               /\ log'[p].type # "in" => log'[p].turn \in 1..turns'
               /\ log'[p].type = "say" => log'[p].out \in 1..outs'
               /\ log'[p].type # "say" => log'[p].out = 0
               /\ log'[p].type = "end" => log'[p].turn # turn'
    BY <1>2, <1>3 DEF LogFits, LogType
  <2>3. ASSUME NEW p \in 1..n, NEW q \in 1..n, p < q, log'[p].type # "in", log'[q].type # "in"
        PROVE  /\ log'[p].turn <= log'[q].turn
               /\ log'[p].type = "end" \/ log'[q].type = "start" => log'[p].turn < log'[q].turn
               /\ log'[p].type = "say" /\ log'[q].type = "say" => log'[p].out < log'[q].out
    BY <1>2, <2>3 DEF LogFits
  <2>4. QED BY <1>2, <2>1, <2>2, <2>3 DEF LogFits
<1>6. QED BY <1>4, <1>5

(* One event more.                                                          *)
LEMMA LogAppends ==
  ASSUME LogType, LogFits, NEW e \in Events, log' = Append(log, e),
         turns' \in turns..MaxTurns, turn' \in 0..turns', outs' \in outs..MaxOuts,
         turn' # 0 => turn' = turns',
         e.type = "in" => e.turn = 0 /\ e.msgs # <<>>,
         e.type # "in" => e.turn = turns' /\ turns' # 0 /\ (turn # 0 \/ turns < turns'),
         e.type = "start" => turns < e.turn,
         e.type = "say" => e.out = outs + 1 /\ outs' = outs + 1,
         e.type # "say" => e.out = 0,
         e.type = "end" => turn' = 0,
         e.type # "end" => turn' \in {turn, turns + 1}
  PROVE  LogType' /\ LogFits'
<1>1. PICK n \in Nat : n = Len(log)
  BY DEF LogType
<1>2. /\ Len(log') = n + 1 /\ log' \in Seq(Events) /\ log'[n + 1] = e
      /\ \A p \in 1..n : log'[p] = log[p] /\ p \in 1..Len(log)
  BY <1>1 DEF LogType
<1>3. LogType'
  BY <1>2 DEF LogType
<1>4. LogFits'
  <2>0. /\ turn \in 0..turns /\ turns \in Nat /\ outs \in Nat /\ MaxTurns \in Nat /\ MaxOuts \in Nat
        /\ turns' \in Nat /\ outs' \in Nat
    <3>1. turn \in 0..turns /\ turns \in 0..MaxTurns /\ outs \in 0..MaxOuts
      BY DEF LogType
    <3>2. QED BY <3>1, Sizes
  <2>1. ASSUME NEW p \in 1..(n + 1)
        PROVE  /\ log'[p].type = "in" => log'[p].turn = 0 /\ log'[p].msgs # <<>>
               /\ log'[p].type # "in" => log'[p].turn \in 1..turns'
               /\ log'[p].type = "say" => log'[p].out \in 1..outs'
               /\ log'[p].type # "say" => log'[p].out = 0
               /\ log'[p].type = "end" => log'[p].turn # turn'
    <3>1. CASE p = n + 1
      BY <1>2, <2>0, <3>1
    <3>2. CASE p \in 1..n
      <4>1. /\ log'[p] = log[p] /\ p \in 1..Len(log)
        BY <1>2, <3>2
      <4>2. /\ log[p].type = "in" => log[p].turn = 0 /\ log[p].msgs # <<>>
            /\ log[p].type # "in" => log[p].turn \in 1..turns
            /\ log[p].type = "say" => log[p].out \in 1..outs
            /\ log[p].type # "say" => log[p].out = 0
            /\ log[p].type = "end" => log[p].turn # turn
        BY <4>1 DEF LogFits
      <4>3. ASSUME log[p].type = "end" PROVE log[p].turn # turn'
        <5>1. log[p].turn \in 1..turns /\ log[p].turn # turn
          BY <4>2, <4>3
        <5>2. turn' \in {0, turn, turns + 1}
          OBVIOUS
        <5>3. QED BY <2>0, <5>1, <5>2
      <4>4. QED BY <2>0, <4>1, <4>2, <4>3
    <3>3. p = n + 1 \/ p \in 1..n
      BY <1>1
    <3>4. QED BY <3>1, <3>2, <3>3
  <2>2. ASSUME NEW p \in 1..(n + 1), NEW q \in 1..(n + 1), p < q, log'[p].type # "in", log'[q].type # "in"
        PROVE  /\ log'[p].turn <= log'[q].turn
               /\ log'[p].type = "end" \/ log'[q].type = "start" => log'[p].turn < log'[q].turn
               /\ log'[p].type = "say" /\ log'[q].type = "say" => log'[p].out < log'[q].out
    <3>1. p \in 1..n /\ log'[p] = log[p] /\ p \in 1..Len(log)
      BY <1>2, <2>2
    <3>2. CASE q = n + 1
      <4>1. log'[q] = e
        BY <1>2, <3>2
      <4>2. /\ log[p].turn \in 1..turns /\ (log[p].type = "end" => log[p].turn # turn)
            /\ (log[p].type = "say" => log[p].out \in 1..outs)
            /\ turn # 0 => turn = turns
        BY <2>2, <3>1 DEF LogFits
      <4>3. e.type # "in" /\ e.turn = turns'
        BY <2>2, <4>1
      <4>4. log[p].turn <= e.turn
        BY <2>0, <4>2, <4>3
      <4>5. log[p].type = "end" => log[p].turn < e.turn
        BY <2>0, <4>2, <4>3
      <4>6. e.type = "start" => log[p].turn < e.turn
        BY <2>0, <4>2, <4>3
      <4>7. log[p].type = "say" /\ e.type = "say" => log[p].out < e.out
        BY <2>0, <4>2
      <4>8. QED BY <3>1, <4>1, <4>4, <4>5, <4>6, <4>7
    <3>3. CASE q \in 1..n
      <4>1. q \in 1..Len(log) /\ log'[q] = log[q]
        BY <1>2, <3>3
      <4>2. QED BY <2>2, <3>1, <4>1 DEF LogFits
    <3>4. q = n + 1 \/ q \in 1..n
      BY <1>1
    <3>5. QED BY <3>2, <3>3, <3>4
  <2>3. QED BY <1>2, <2>1, <2>2 DEF LogFits
<1>5. QED BY <1>3, <1>4

LEMMA LogGoesOn ==
  ASSUME LogType, LogFits, LogStep
  PROVE  LogType' /\ LogFits'
<1>0. /\ turn \in 0..turns /\ turns \in 0..MaxTurns /\ outs \in 0..MaxOuts /\ MaxTurns \in Nat /\ MaxOuts \in Nat
      /\ turn # 0 => turn = turns
      /\ <<>> \in Seq(Msgs)
  BY BoundsAssumption DEF LogType, LogFits
<1>1. CASE LogCut
  BY <1>1, LogCutFits
<1>2. CASE LogIn
  <2>1. PICK ms \in Seq(Msgs) \ {<<>>} : log' = Append(log, Event("in", 0, 0, ms))
    BY <1>2 DEF LogIn
  <2>2. PICK e \in Events : e = Event("in", 0, 0, ms) /\ e.type = "in" /\ e.turn = 0 /\ e.msgs = ms /\ e.out = 0
    BY <1>0, EventIs
  <2>3. QED BY <1>0, <1>2, <2>1, <2>2, LogAppends DEF LogIn
<1>3. CASE LogStart
  <2>1. PICK ms \in Seq(Msgs) : log' = Append(log, Event("start", turns + 1, 0, ms))
    BY <1>3 DEF LogStart
  <2>2. turns < MaxTurns /\ turn = 0 /\ turns' = turns + 1 /\ turn' = turns + 1 /\ outs' = outs
    BY <1>3 DEF LogStart
  <2>3. PICK e \in Events : e = Event("start", turns + 1, 0, ms) /\ e.type = "start" /\ e.turn = turns + 1 /\ e.out = 0
    BY <1>0, <2>2, EventIs
  <2>4. QED BY <1>0, <2>1, <2>2, <2>3, LogAppends
<1>4. CASE LogJoin
  <2>1. PICK ms \in Seq(Msgs) : log' = Append(log, Event("join", turn, 0, ms))
    BY <1>4 DEF LogJoin
  <2>2. turn # 0 /\ turn' = turn /\ turns' = turns /\ outs' = outs
    BY <1>4 DEF LogJoin
  <2>3. PICK e \in Events : e = Event("join", turn, 0, ms) /\ e.type = "join" /\ e.turn = turn /\ e.out = 0
    BY <1>0, <2>2, EventIs
  <2>4. QED BY <1>0, <2>1, <2>2, <2>3, LogAppends
<1>5. CASE LogSay
  <2>1. turn # 0 /\ turn' = turn /\ turns' = turns /\ outs < MaxOuts /\ outs' = outs + 1
    BY <1>5 DEF LogSay
  <2>2. turn \in 0..MaxTurns /\ outs + 1 \in 0..MaxOuts
    BY <1>0, <2>1
  <2>3. PICK ms \in Seq(Msgs) : log' = Append(log, Event("say", turn, outs + 1, ms))
    BY <1>5 DEF LogSay
  <2>4. PICK e \in Events : /\ e = Event("say", turn, outs + 1, ms)
                            /\ e.type = "say" /\ e.turn = turn /\ e.out = outs + 1
    BY <2>2, EventIs
  <2>5. QED BY <1>0, <2>1, <2>3, <2>4, LogAppends
<1>6. CASE LogEnd
  <2>1. turn # 0 /\ turn' = 0 /\ turns' = turns /\ outs' = outs
    BY <1>6 DEF LogEnd
  <2>2. PICK ms \in Seq(Msgs) : log' = Append(log, Event("end", turn, 0, ms))
    BY <1>6 DEF LogEnd
  <2>3. PICK e \in Events : e = Event("end", turn, 0, ms) /\ e.type = "end" /\ e.turn = turn /\ e.out = 0
    BY <1>0, EventIs
  <2>4. QED BY <1>0, <2>1, <2>2, <2>3, LogAppends
<1>7. QED BY <1>1, <1>2, <1>3, <1>4, <1>5, <1>6 DEF LogStep

LEMMA LogSame ==
  ASSUME LogType, log' = log, turn' \in {0, turn}, turns' = turns, outs' = outs
  PROVE  LogStep
<1>1. Len(log) \in 0..Len(log) /\ SubSeq(log, 1, Len(log)) = log
  BY DEF LogType
<1>2. QED BY <1>1 DEF LogStep, LogCut

InboxType == inbox \in Seq(Entry)
ChainType == coalesced \in Seq(Msgs) /\ admits \in Seq(Msgs)

(* A message that is claimed is one of the inbox.                           *)
LEMMA InboxMsgs ==
  ASSUME InboxType, NEW i \in DOMAIN inbox
  PROVE  /\ inbox[i] \in Entry /\ inbox[i].msgs \in Seq(Msgs) /\ inbox[i].msgs # <<>>
         /\ inbox[i].reply \in 0..MaxMsgs
<1>1. inbox[i] \in Entry
  BY DEF InboxType
<1>2. QED BY <1>1 DEF Entry

LEMMA NextLog ==
  ASSUME LogType, InboxType, ChainType, mode \in Modes, flushed \in 0..Len(log), Next
  PROVE  LogStep
<1>1. CASE Connection
  <2>1. UNCHANGED worldVars /\ UNCHANGED agentVars
    BY <1>1, Zenon DEF Connection, Dialed, Opened, DialFails, StreamFails, StreamEnds, TimerFires, Sweep, Reconnect
  <2>2. QED BY <2>1, LogSame DEF worldVars, agentVars
<1>2. CASE AdmitStarts \/ AgentFails \/ \E m \in Msgs : Receive(m) \/ AdmitCoalesces(m)
  <2>1. UNCHANGED worldVars /\ UNCHANGED agentVars
    BY <1>2, Zenon DEF AdmitStarts, AgentFails, Receive, AdmitCoalesces
  <2>2. QED BY <2>1, LogSame DEF worldVars, agentVars
<1>3. CASE AgentAttached \/ AdmitFlushes
  <2>1. log' = log /\ turn' = turn /\ turns' = turns /\ outs' = outs
    BY <1>3, Zenon DEF AgentAttached, AdmitFlushes, worldVars, agentVars
  <2>2. QED BY <2>1, LogSame
<1>4. ASSUME NEW m \in Msgs, AdmitEnters(m)
      PROVE  LogStep
  <2>1. turn' = turn /\ turns' = turns /\ outs' = outs
    BY <1>4, Zenon DEF AdmitEnters
  <2>2. log' = log \/ log' = Append(log, Event("in", 0, 0, <<m>>))
    BY <1>4, Zenon DEF AdmitEnters, Enters
  <2>3. <<m>> \in Seq(Msgs) /\ <<m>> # <<>>
    OBVIOUS
  <2>4. QED BY <2>1, <2>2, <2>3, LogSame DEF LogStep, LogIn
<1>5. CASE TurnStarts
  <2>1. PICK ms : /\ turn = 0 /\ turns < MaxTurns /\ turns' = turns + 1 /\ turn' = turns + 1 /\ outs' = outs
                  /\ log' = Append(log, Event("start", turns + 1, 0, ms))
                  /\ (inbox # <<>> /\ ms = Head(inbox).msgs) \/ ms = <<>>
    BY <1>5, Zenon DEF TurnStarts, Logs
  <2>2. inbox # <<>> => 1 \in DOMAIN inbox /\ inbox[1] = Head(inbox)
    <3>1. PICK in \in Seq(Entry) : in = inbox
      BY DEF InboxType
    <3>2. in # <<>> => 1 \in DOMAIN in /\ in[1] = Head(in)
      OBVIOUS
    <3>3. QED BY <3>1, <3>2
  <2>3. ms \in Seq(Msgs)
    <3>1. CASE ms = <<>>
      BY <3>1
    <3>2. CASE inbox # <<>> /\ ms = Head(inbox).msgs
      <4>1. 1 \in DOMAIN inbox /\ ms = inbox[1].msgs
        BY <2>2, <3>2
      <4>2. QED BY <4>1, InboxMsgs
    <3>3. QED BY <2>1, <3>1, <3>2
  <2>4. QED BY <2>1, <2>3 DEF LogStep, LogStart
<1>6. CASE TurnJoined
  <2>1. PICK i \in DOMAIN inbox : /\ turn # 0 /\ turn' = turn /\ turns' = turns /\ outs' = outs
                                  /\ log' = Append(log, Event("join", turn, 0, inbox[i].msgs))
    BY <1>6, Zenon DEF TurnJoined, Logs
  <2>2. inbox[i].msgs \in Seq(Msgs)
    BY InboxMsgs
  <2>3. QED BY <2>1, <2>2 DEF LogStep, LogJoin
<1>7. CASE AgentSays
  <2>1. /\ turn # 0 /\ turn' = turn /\ turns' = turns /\ outs < mode.outs /\ outs' = outs + 1
        /\ log' = Append(log, Event("say", turn, outs + 1, <<>>))
    BY <1>7, Zenon DEF AgentSays, Logs
  <2>2. mode.outs \in 0..MaxOuts /\ outs \in 0..MaxOuts /\ MaxOuts \in Nat
    BY Bounds DEF LogType
  <2>3. outs < MaxOuts
    BY <2>1, <2>2
  <2>4. <<>> \in Seq(Msgs)
    OBVIOUS
  <2>5. QED BY <2>1, <2>3, <2>4 DEF LogStep, LogSay
<1>8. CASE TurnEnds
  <2>1. /\ turn # 0 /\ turn' = 0 /\ turns' = turns /\ outs' = outs
        /\ log' = Append(log, Event("end", turn, 0, <<>>))
    BY <1>8, Zenon DEF TurnEnds, Logs
  <2>2. <<>> \in Seq(Msgs)
    OBVIOUS
  <2>3. QED BY <2>1, <2>2 DEF LogStep, LogEnd
<1>9. CASE GoesIdle
  <2>1. turn' = turn /\ turns' = turns /\ outs' = outs
    BY <1>9, Zenon DEF GoesIdle
  <2>2. log' = log \/ (coalesced # <<>> /\ log' = Append(log, Event("in", 0, 0, coalesced)))
    BY <1>9, Zenon DEF GoesIdle, Enters
  <2>3. coalesced \in Seq(Msgs)
    BY DEF ChainType
  <2>4. QED BY <2>1, <2>2, <2>3, LogSame DEF LogStep, LogIn
<1>10. CASE Replaced
  <2>1. log' = <<>> /\ turn' = turn /\ turns' = turns /\ outs' = outs
    BY <1>10, Zenon DEF Replaced
  <2>2. 0 \in 0..Len(log) /\ SubSeq(log, 1, 0) = <<>>
    BY DEF LogType
  <2>3. QED BY <2>1, <2>2 DEF LogStep, LogCut
<1>11. CASE Outbound
  <2>1. log' = log /\ UNCHANGED agentVars
    <3>1. CASE Starts \/ TimesOut
      BY <3>1, Zenon DEF Starts, Acks, FlushSkips, FlushResets, FlushReads, TimesOut, worldVars
    <3>2. ASSUME NEW w \in Slots, QueryAnswers(w) \/ FlushEnds(w) \/ StepPasses(w) \/ StepSends(w) \/ StepOffline(w)
          PROVE  log' = log /\ UNCHANGED agentVars
      BY <3>2, Zenon DEF QueryAnswers, FlushEnds, StepPasses, StepSends, StepOffline, worldVars
    <3>3. ASSUME NEW w \in Slots, SendReturns(w) \/ QueryFails(w) \/ SendSwallows(w) \/ SendFails(w)
          PROVE  log' = log /\ UNCHANGED agentVars
      BY <3>3, Zenon DEF SendReturns, QueryFails, SendSwallows, SendFails, Delivers, worldVars
    <3>4. QED BY <1>11, <3>1, <3>2, <3>3, Zenon DEF Outbound, Working
  <2>2. QED BY <2>1, LogSame DEF agentVars
<1>12. CASE SaveEnds \/ Stop
  <2>1. UNCHANGED worldVars /\ UNCHANGED agentVars
    BY <1>12, Zenon DEF SaveEnds, Stop
  <2>2. QED BY <2>1, LogSame DEF worldVars, agentVars
<1>13. CASE Crash
  <2>1. turn' = 0 /\ turns' = turns /\ outs' = outs
    BY <1>13, Zenon DEF Crash, Begins
  <2>2. \E n \in IF "truncate" \in mode.faults THEN flushed..Len(log) ELSE {Len(log)} :
          log' = SubSeq(log, 1, n) /\ flushed' = n
    BY <1>13, Zenon DEF Crash
  <2>3. flushed \in 0..Len(log)
    OBVIOUS
  <2>4. \E n \in 0..Len(log) : log' = SubSeq(log, 1, n)
    BY <2>2, <2>3 DEF LogType
  <2>5. QED BY <2>1, <2>4 DEF LogStep, LogCut
<1>14. CASE StopDone
  <2>1. log' = log /\ turn' = 0 /\ turns' = turns /\ outs' = outs
    BY <1>14, Zenon DEF StopDone, Begins
  <2>2. QED BY <2>1, LogSame
<1>15. QED
  BY <1>1, <1>2, <1>3, <1>4, <1>5, <1>6, <1>7, <1>8, <1>9, <1>10, <1>11, <1>12, <1>13, <1>14, Zenon
     DEF Next, Inbound, Agent

-----------------------------------------------------------------------------
(* The least and the greatest of a set of positions.                        *)

LEMMA LeastNat ==
  ASSUME NEW S \in SUBSET Nat, S # {}
  PROVE  \E n \in S : \A k \in S : n <= k
<1>1. PICK b \in S : TRUE
  OBVIOUS
<1>2. PICK F : F = {0..k : k \in S \cap (0..b)}
  OBVIOUS
<1>3. F \in SUBSET (SUBSET (0..b)) /\ 0..b \in F
  <2>1. ASSUME NEW k \in S \cap (0..b) PROVE 0..k \in SUBSET (0..b)
    OBVIOUS
  <2>2. b \in S \cap (0..b)
    BY <1>1
  <2>3. QED BY <1>2, <2>1, <2>2
<1>4. IsWellFoundedOn(StrictSubsetOrdering(0..b), SUBSET (0..b))
  <2>1. IsFiniteSet(0..b)
    BY <1>1, FS_Interval
  <2>2. QED BY <2>1, FS_StrictSubsetOrderingWellFounded, FS_FiniteSubsetsOfFinite
<1>5. PICK T \in F : \A U \in F : <<U, T>> \notin StrictSubsetOrdering(0..b)
  BY <1>3, <1>4, WFMin
<1>6. PICK n \in S \cap (0..b) : T = 0..n
  BY <1>2, <1>5
<1>7. ASSUME NEW k \in S, ~(n <= k) PROVE FALSE
  <2>1. k \in 0..b /\ k \in Nat /\ n \in Nat /\ k < n
    BY <1>6, <1>7
  <2>2. 0..k \in F
    BY <1>2, <2>1
  <2>3. 0..k \subseteq 0..n /\ n \in 0..n /\ n \notin 0..k
    BY <2>1
  <2>4. <<0..k, T>> \in StrictSubsetOrdering(0..b)
    BY <1>3, <1>6, <2>2, <2>3 DEF StrictSubsetOrdering
  <2>5. QED BY <1>5, <2>2, <2>4
<1>8. QED BY <1>6, <1>7

LEMMA MaxOfIs ==
  ASSUME NEW b \in Nat, NEW S \in SUBSET (0..b), S # {}
  PROVE  MaxOf(S) \in S /\ \A q \in S : q <= MaxOf(S)
<1>1. PICK R : R = {b - q : q \in S}
  OBVIOUS
<1>2. R \in SUBSET Nat /\ R # {}
  <2>1. ASSUME NEW q \in S PROVE b - q \in Nat
    OBVIOUS
  <2>2. QED BY <1>1, <2>1
<1>3. PICK n \in R : \A k \in R : n <= k
  BY <1>2, LeastNat
<1>4. PICK p \in S : n = b - p
  BY <1>1, <1>3
<1>5. ASSUME NEW q \in S PROVE q <= p
  <2>1. b - q \in R
    BY <1>1
  <2>2. n <= b - q
    BY <1>3, <2>1
  <2>3. QED BY <1>4, <2>2
<1>6. \E p1 \in S : \A q \in S : q <= p1
  BY <1>5
<1>7. QED BY <1>6, Zenon DEF MaxOf

(* The step a task is at is one of its steps, and none comes before it.     *)
LEMMA NowIs ==
  ASSUME NEW w, task[w].steps \in SUBSET Step, task[w].steps # {}
  PROVE  /\ Now(w) \in task[w].steps /\ Now(w) \in Step
         /\ Now(w).at \in Nat /\ Now(w).turn \in Turns /\ Now(w).out \in 0..MaxOuts
         /\ \A s \in task[w].steps : Now(w).at <= s.at
<1>1. PICK S : S = {s.at : s \in task[w].steps}
  OBVIOUS
<1>2. S \in SUBSET Nat /\ S # {}
  BY <1>1 DEF Step
<1>3. PICK n \in S : \A k \in S : n <= k
  BY <1>2, LeastNat
<1>4. PICK s \in task[w].steps : n = s.at
  BY <1>1, <1>3
<1>5. \A q \in task[w].steps : s.at <= q.at
  BY <1>1, <1>3, <1>4
<1>6. Now(w) \in task[w].steps /\ \A q \in task[w].steps : Now(w).at <= q.at
  BY <1>5, Zenon DEF Now
<1>7. Now(w) \in Step
  BY <1>6
<1>8. QED BY <1>6, <1>7 DEF Step

-----------------------------------------------------------------------------
(* What each part of the next-state relation leaves alone.                  *)

LEMMA ConnectionKeeps ==
  ASSUME Connection
  PROVE  UNCHANGED <<worldVars, agentVars, inVars, live, task, saveVars, entered, redo, unlogged,
                     dropped, doubts, outbox, cursor>>
BY Zenon DEF Connection, Dialed, Opened, DialFails, StreamFails, StreamEnds, TimerFires, Sweep,
             Reconnect, inVars, outVars, histVars

LEMMA AgentKeeps ==
  ASSUME Agent
  PROVE  UNCHANGED <<mode, delivered, connVars, seen, admits, stage, task, saveVars, redo, doubts,
                     outbox, cursor>>
BY Zenon DEF Agent, TurnStarts, TurnJoined, AgentSays, TurnEnds, GoesIdle, Replaced, Logs,
             inVars, outVars, histVars

LEMMA InboundKeeps ==
  ASSUME Inbound
  PROVE  UNCHANGED <<mode, delivered, turn, turns, outs, conn, attempts, turnInbound, task, redo, doubts>>
BY Zenon DEF Inbound, AdmitStarts, AgentAttached, AgentFails, AdmitFlushes, Receive, AdmitCoalesces,
             AdmitEnters, worldVars, agentVars, connVars, inVars, outVars, histVars

LEMMA StartsKeep ==
  ASSUME Starts \/ TimesOut
  PROVE  UNCHANGED <<worldVars, agentVars, connVars, inVars, entered, redo, unlogged, outbox>>
BY Zenon DEF Starts, Acks, FlushSkips, FlushResets, FlushReads, TimesOut, histVars, outVars

LEMMA WorkingKeeps ==
  ASSUME NEW w \in Slots, Working(w)
  PROVE  UNCHANGED <<mode, log, flushed, agentVars, connVars, seen, acked, coalesced, admits, stage,
                     tail, entered, redo, unlogged>>
<1>1. CASE QueryAnswers(w) \/ FlushEnds(w) \/ StepPasses(w) \/ StepSends(w) \/ StepOffline(w)
  BY <1>1, Zenon DEF QueryAnswers, FlushEnds, StepPasses, StepSends, StepOffline, worldVars, inVars, histVars
<1>2. CASE SendReturns(w) \/ QueryFails(w) \/ SendSwallows(w) \/ SendFails(w)
  BY <1>2, Zenon DEF SendReturns, QueryFails, SendSwallows, SendFails, Delivers, worldVars, inVars, histVars
<1>3. QED BY <1>1, <1>2, Zenon DEF Working

LEMMA SaveEndsKeeps ==
  ASSUME SaveEnds
  PROVE  UNCHANGED <<worldVars, agentVars, conn, attempts, seen, turnInbound, acked, coalesced, live,
                     entered, redo, unlogged, dropped, doubts, outbox, cursor>>
BY Zenon DEF SaveEnds

LEMMA StopKeeps ==
  ASSUME Stop
  PROVE  UNCHANGED <<worldVars, agentVars, attempts, handle, resuming, inVars, outVars, saveVars,
                     entered, redo, unlogged, dropped, doubts, outbox, cursor>>
BY Zenon DEF Stop

LEMMA CrashKeeps ==
  ASSUME Crash \/ StopDone
  PROVE  UNCHANGED <<mode, turns, outs, entered, unlogged, dropped>>
BY Zenon DEF Crash, StopDone, Begins

-----------------------------------------------------------------------------
(* Types, in parts.                                                         *)

WorldType ==
  /\ mode \in Modes /\ flushed \in 0..Len(log) /\ delivered \in [Outs -> Nat]
  /\ faults \in 0..mode.budget /\ doubts \in Nat
ConnType ==
  /\ agent \in {"none", "idle", "running"}
  /\ conn \in {"dialing", "opening", "up", "ending", "waiting", "down", "stopping"}
  /\ attempts \in Nat /\ resuming \in BOOLEAN
  /\ handle \in {"none", "creating", "save", "write", "live"}
InType ==
  /\ seen \in SUBSET Msgs /\ turnInbound \in [Turns -> 0..MaxMsgs] /\ acked \in BOOLEAN
  /\ stage \in Stages /\ ChainType /\ InboxType
HistType == entered \in [Msgs -> Nat] /\ redo \in [Msgs -> Nat] /\ unlogged \in SUBSET Msgs
SaveType ==
  /\ file \in State /\ pending \in BOOLEAN /\ writing \in State
  /\ outbox \in [Msgs -> 0..Accepted] /\ cursor \in Nat \cup {NoCursor}
OutType ==
  /\ live \in [from : Nat, cut : Nat] /\ tail \in Seq({"flush", "ack"})
  /\ task \in [Slots -> Tasks] /\ dropped \in SUBSET Outs

LEMMA TypeParts ==
  TypeOK <=> WorldType /\ LogType /\ ConnType /\ InType /\ HistType /\ SaveType /\ OutType
BY Zenon DEF TypeOK, WorldType, LogType, ConnType, InType, HistType, SaveType, OutType, ChainType,
   InboxType, Events, Tasks

LEMMA FaultCounts ==
  ASSUME WorldType, NEW k, Fault(k), mode' = mode
  PROVE  faults' \in 0..mode'.budget
<1>1. mode.budget \in Nat
  BY Bounds DEF WorldType
<1>2. faults < mode.budget /\ faults' = faults + 1 /\ faults \in 0..mode.budget
  BY Zenon DEF Fault, WorldType
<1>3. QED BY <1>1, <1>2

LEMMA Bumped ==
  ASSUME delivered \in [Outs -> Nat], NEW o
  PROVE  [delivered EXCEPT ![o] = @ + 1] \in [Outs -> Nat]
<1>1. CASE o \in Outs
  <2>1. delivered[o] + 1 \in Nat
    BY <1>1
  <2>2. QED BY <2>1, Zenon
<1>2. CASE o \notin Outs
  BY <1>2, Zenon
<1>3. QED BY <1>1, <1>2

LEMMA WorldNext ==
  ASSUME WorldType, LogType, InboxType, ChainType, Next
  PROVE  WorldType'
<1>1. mode' = mode
  <2>1. CASE SaveEnds \/ Stop \/ Crash \/ StopDone
    BY <2>1, SaveEndsKeeps, StopKeeps, CrashKeeps DEF worldVars
  <2>2. CASE Connection \/ Inbound \/ Agent
    BY <2>2, ConnectionKeeps, InboundKeeps, AgentKeeps DEF worldVars
  <2>3. CASE Outbound
    BY <2>3, StartsKeep, WorkingKeeps DEF worldVars, Outbound
  <2>4. QED BY <2>1, <2>2, <2>3 DEF Next
<1>2. delivered' \in [Outs -> Nat]
  <2>0. delivered \in [Outs -> Nat]
    BY DEF WorldType
  <2>1. CASE SaveEnds \/ Stop
    BY <2>0, <2>1, SaveEndsKeeps, StopKeeps DEF worldVars
  <2>2. CASE Connection \/ Inbound \/ Agent
    BY <2>0, <2>2, ConnectionKeeps, InboundKeeps, AgentKeeps DEF worldVars
  <2>3. CASE Starts \/ TimesOut
    BY <2>0, <2>3, StartsKeep DEF worldVars
  <2>4. ASSUME NEW w \in Slots, Working(w) PROVE delivered' \in [Outs -> Nat]
    <3>1. delivered' = delivered \/ delivered' = [delivered EXCEPT ![Now(w).out] = @ + 1]
      <4>1. CASE QueryAnswers(w) \/ FlushEnds(w) \/ StepPasses(w) \/ StepSends(w) \/ StepOffline(w)
        BY <4>1, Zenon DEF QueryAnswers, FlushEnds, StepPasses, StepSends, StepOffline, worldVars
      <4>2. CASE SendReturns(w) \/ QueryFails(w) \/ SendSwallows(w) \/ SendFails(w)
        BY <4>2, Zenon DEF SendReturns, QueryFails, SendSwallows, SendFails, Delivers, worldVars
      <4>3. QED BY <2>4, <4>1, <4>2, Zenon DEF Working
    <3>2. QED BY <2>0, <3>1, Bumped
  <2>5. CASE Crash \/ StopDone
    <3>1. \/ delivered' = delivered
          \/ \E w \in Slots : delivered' = [delivered EXCEPT ![Now(w).out] = @ + 1]
      BY <2>5, Zenon DEF Crash, StopDone
    <3>2. QED BY <2>0, <3>1, Bumped
  <2>6. QED BY <2>1, <2>2, <2>3, <2>4, <2>5, Zenon DEF Next, Outbound
<1>3. flushed' \in 0..Len(log')
  <2>0. flushed \in 0..Len(log) /\ Len(log) \in Nat /\ Len(log) \in 0..Len(log)
    BY DEF WorldType, LogType
  <2>1. CASE flushed' = flushed /\ log' = log
    BY <2>0, <2>1
  <2>2. ASSUME NEW e, flushed' = flushed, log' = Append(log, e) PROVE flushed' \in 0..Len(log')
    <3>1. Len(log') = Len(log) + 1
      BY <2>2 DEF LogType
    <3>2. QED BY <2>0, <2>2, <3>1
  <2>3. CASE SaveEnds \/ Stop \/ Connection \/ Outbound
    <3>1. flushed' = flushed /\ log' = log
      BY <2>3, SaveEndsKeeps, StopKeeps, ConnectionKeeps, StartsKeep, WorkingKeeps DEF worldVars, Outbound
    <3>2. QED BY <2>1, <3>1
  <2>4. CASE AdmitStarts \/ AgentAttached \/ AgentFails \/ \E m \in Msgs : Receive(m) \/ AdmitCoalesces(m)
    <3>1. flushed' = flushed /\ log' = log
      BY <2>4, Zenon DEF AdmitStarts, AgentAttached, AgentFails, Receive, AdmitCoalesces, worldVars
    <3>2. QED BY <2>1, <3>1
  <2>5. CASE AdmitFlushes
    <3>1. (flushed' = Len(log) \/ flushed' = flushed) /\ log' = log
      BY <2>5, Zenon DEF AdmitFlushes
    <3>2. QED BY <2>0, <3>1
  <2>6. CASE GoesIdle \/ \E m \in Msgs : AdmitEnters(m)
    <3>1. flushed' = flushed
      BY <2>6, Zenon DEF GoesIdle, AdmitEnters
    <3>2. log' = log \/ \E e : log' = Append(log, e)
      BY <2>6, Zenon DEF GoesIdle, AdmitEnters, Enters
    <3>3. QED BY <2>1, <2>2, <3>1, <3>2
  <2>7. CASE TurnStarts \/ TurnJoined \/ AgentSays \/ TurnEnds
    <3>1. flushed' = flushed /\ \E e : log' = Append(log, e)
      BY <2>7, Zenon DEF TurnStarts, TurnJoined, AgentSays, TurnEnds, Logs
    <3>2. QED BY <2>2, <3>1
  <2>8. CASE Replaced
    <3>1. flushed' = 0 /\ log' = <<>>
      BY <2>8, Zenon DEF Replaced
    <3>2. QED BY <3>1
  <2>9. CASE Crash
    <3>1. \E n \in IF "truncate" \in mode.faults THEN flushed..Len(log) ELSE {Len(log)} :
            log' = SubSeq(log, 1, n) /\ flushed' = n
      BY <2>9, Zenon DEF Crash
    <3>2. PICK n \in 0..Len(log) : log' = SubSeq(log, 1, n) /\ flushed' = n
      BY <2>0, <3>1
    <3>3. Len(log') = n
      BY <3>2 DEF LogType
    <3>4. QED BY <3>2, <3>3
  <2>10. CASE StopDone
    <3>1. flushed' = Len(log) /\ log' = log
      BY <2>10, Zenon DEF StopDone
    <3>2. QED BY <2>0, <3>1
  <2>11. QED BY <2>3, <2>4, <2>5, <2>6, <2>7, <2>8, <2>9, <2>10, Zenon DEF Next, Inbound, Agent
<1>4. faults' \in 0..mode'.budget
  <2>0. faults \in 0..mode.budget
    BY DEF WorldType
  <2>1. faults' = faults \/ \E k : Fault(k)
    <3>1. CASE Connection
      BY <3>1, Zenon DEF Connection, Dialed, Opened, DialFails, StreamFails, StreamEnds, TimerFires, Sweep,
           histVars
    <3>2. CASE Inbound
      BY <3>2, Zenon DEF Inbound, AdmitStarts, AgentAttached, AgentFails, AdmitFlushes, Receive,
           AdmitCoalesces, AdmitEnters, histVars
    <3>3. CASE Agent
      BY <3>3, Zenon DEF Agent, TurnStarts, TurnJoined, AgentSays, TurnEnds, GoesIdle, Replaced, histVars
    <3>4. CASE Starts \/ TimesOut
      BY <3>4, Zenon DEF Starts, Acks, FlushSkips, FlushResets, FlushReads, TimesOut, histVars
    <3>5. ASSUME NEW w \in Slots, Working(w) PROVE faults' = faults \/ \E k : Fault(k)
      <4>1. CASE QueryAnswers(w) \/ FlushEnds(w) \/ StepPasses(w) \/ StepSends(w) \/ StepOffline(w)
        BY <4>1, Zenon DEF QueryAnswers, FlushEnds, StepPasses, StepSends, StepOffline, histVars
      <4>2. CASE SendReturns(w) \/ QueryFails(w) \/ SendSwallows(w) \/ SendFails(w)
        BY <4>2, Zenon DEF SendReturns, QueryFails, SendSwallows, SendFails
      <4>3. QED BY <3>5, <4>1, <4>2, Zenon DEF Working
    <3>6. CASE SaveEnds \/ Stop \/ Crash \/ StopDone
      BY <3>6, Zenon DEF SaveEnds, Stop, Crash, StopDone
    <3>7. QED BY <3>1, <3>2, <3>3, <3>4, <3>5, <3>6, Zenon DEF Next, Outbound
  <2>2. QED BY <1>1, <2>0, <2>1, FaultCounts
<1>5. doubts' \in Nat
  <2>0. doubts \in Nat /\ doubts + 1 \in Nat
    BY DEF WorldType
  <2>1. doubts' = doubts \/ doubts' = doubts + 1
    <3>1. CASE SaveEnds \/ Stop \/ Connection \/ Inbound \/ Agent
      BY <3>1, SaveEndsKeeps, StopKeeps, ConnectionKeeps, InboundKeeps, AgentKeeps
    <3>2. CASE Starts \/ TimesOut \/ Crash \/ StopDone
      BY <3>2, Zenon DEF Starts, Acks, FlushSkips, FlushResets, FlushReads, TimesOut, Crash, StopDone,
           Advances, histVars
    <3>3. ASSUME NEW w \in Slots, Working(w) PROVE doubts' = doubts \/ doubts' = doubts + 1
      <4>1. CASE QueryAnswers(w) \/ FlushEnds(w) \/ StepPasses(w) \/ StepSends(w) \/ StepOffline(w)
        BY <4>1, Zenon DEF QueryAnswers, FlushEnds, StepPasses, StepSends, StepOffline, Advances, histVars
      <4>2. CASE SendReturns(w) \/ QueryFails(w) \/ SendSwallows(w) \/ SendFails(w)
        BY <4>2, Zenon DEF SendReturns, QueryFails, SendSwallows, SendFails, Advances
      <4>3. QED BY <3>3, <4>1, <4>2, Zenon DEF Working
    <3>4. QED BY <3>1, <3>2, <3>3, Zenon DEF Next, Outbound
  <2>2. QED BY <2>0, <2>1
<1>6. QED BY <1>1, <1>2, <1>3, <1>4, <1>5 DEF WorldType

LEMMA ConnNext ==
  ASSUME ConnType, Next
  PROVE  ConnType'
<1>1. agent' \in {"none", "idle", "running"}
  <2>0. agent \in {"none", "idle", "running"}
    BY DEF ConnType
  <2>1. agent' = agent \/ agent' \in {"none", "idle", "running"}
    <3>1. CASE Connection \/ Outbound \/ SaveEnds \/ Stop
      BY <3>1, ConnectionKeeps, StartsKeep, WorkingKeeps, SaveEndsKeeps, StopKeeps DEF agentVars, Outbound
    <3>2. CASE Inbound
      BY <3>2, Zenon DEF Inbound, AdmitStarts, AgentAttached, AgentFails, AdmitFlushes, Receive,
           AdmitCoalesces, AdmitEnters, agentVars
    <3>3. CASE Agent
      BY <3>3, Zenon DEF Agent, TurnStarts, TurnJoined, AgentSays, TurnEnds, GoesIdle, Replaced
    <3>4. CASE Crash \/ StopDone
      BY <3>4, Zenon DEF Crash, StopDone, Begins
    <3>5. QED BY <3>1, <3>2, <3>3, <3>4, Zenon DEF Next
  <2>2. QED BY <2>0, <2>1
<1>2. /\ conn' \in {"dialing", "opening", "up", "ending", "waiting", "down", "stopping"}
      /\ attempts' \in Nat
  <2>0. /\ conn \in {"dialing", "opening", "up", "ending", "waiting", "down", "stopping"}
        /\ attempts \in Nat /\ attempts + 1 \in Nat
    BY DEF ConnType
  <2>1. CASE Inbound \/ Agent \/ Outbound \/ SaveEnds
    <3>1. conn' = conn /\ attempts' = attempts
      BY <2>1, InboundKeeps, AgentKeeps, StartsKeep, WorkingKeeps, SaveEndsKeeps DEF connVars, Outbound
    <3>2. QED BY <2>0, <3>1
  <2>2. CASE Connection
    <3>1. /\ conn' \in {conn, "opening", "up", "down", "waiting", "ending", "dialing"}
          /\ attempts' \in {attempts, attempts + 1, 0}
      <4>1. CASE Dialed \/ Opened \/ StreamFails \/ TimerFires \/ Sweep
        BY <4>1, Zenon DEF Dialed, Opened, StreamFails, TimerFires, Sweep, connVars
      <4>2. CASE DialFails \/ StreamEnds
        BY <4>2, Zenon DEF DialFails, StreamEnds, Reconnect
      <4>3. QED BY <2>2, <4>1, <4>2, Zenon DEF Connection
    <3>2. QED BY <2>0, <3>1
  <2>3. CASE Stop \/ Crash \/ StopDone
    <3>1. conn' \in {"stopping", "dialing"} /\ attempts' \in {attempts, 0}
      BY <2>3, Zenon DEF Stop, Crash, StopDone, Begins
    <3>2. QED BY <2>0, <3>1
  <2>4. QED BY <2>1, <2>2, <2>3 DEF Next
<1>3. handle' \in {"none", "creating", "save", "write", "live"} /\ resuming' \in BOOLEAN
  <2>0. handle \in {"none", "creating", "save", "write", "live"} /\ resuming \in BOOLEAN
    BY DEF ConnType
  <2>1. CASE Agent \/ Outbound \/ Stop
    <3>1. handle' = handle /\ resuming' = resuming
      BY <2>1, AgentKeeps, StartsKeep, WorkingKeeps, StopKeeps DEF connVars, Outbound
    <3>2. QED BY <2>0, <3>1
  <2>2. CASE Connection \/ Inbound
    <3>1. /\ handle' \in {handle, "creating", "none", "live", "write", "save"}
          /\ resuming' \in {resuming, TRUE, FALSE}
      <4>1. CASE Connection
        BY <4>1, Zenon DEF Connection, Dialed, Opened, DialFails, StreamFails, StreamEnds, TimerFires, Sweep,
             Reconnect, WantsHandle, connVars
      <4>2. CASE Inbound
        BY <4>2, Zenon DEF Inbound, AdmitStarts, AgentAttached, AgentFails, AdmitFlushes, Receive,
             AdmitCoalesces, AdmitEnters, WantsHandle, Waits, connVars
      <4>3. QED BY <2>2, <4>1, <4>2
    <3>2. QED BY <2>0, <3>1
  <2>3. CASE SaveEnds
    <3>1. /\ handle' = CASE handle = "write" -> "live" [] handle = "save" -> "write" [] OTHER -> handle
          /\ resuming' = (resuming /\ handle # "write")
      BY <2>3, Zenon DEF SaveEnds
    <3>2. QED BY <2>0, <3>1
  <2>4. CASE Crash \/ StopDone
    <3>1. handle' = "none" /\ resuming' = FALSE
      BY <2>4, Zenon DEF Crash, StopDone, Begins
    <3>2. QED BY <3>1
  <2>5. QED BY <2>1, <2>2, <2>3, <2>4 DEF Next
<1>4. QED BY <1>1, <1>2, <1>3 DEF ConnType

(* The outbox, the cursor and the file.                                     *)
LEMMA NothingIs ==
  /\ Nothing \in State /\ Nothing.entries = [m \in Msgs |-> 0] /\ Nothing.cursor = NoCursor
  /\ \A m \in Msgs : Nothing.entries[m] # Accepted
<1>1. Accepted \in Nat /\ Accepted # 0
  BY Sizes DEF Accepted
<1>2. QED BY <1>1 DEF Nothing, State

LEMMA SnapshotIs ==
  ASSUME NEW o \in [Msgs -> 0..Accepted], NEW c \in Nat \cup {NoCursor}
  PROVE  /\ Snapshot(o, c) \in State /\ Snapshot(o, c).entries = o /\ Snapshot(o, c).cursor = c
         /\ Snapshot(o, c) # Nothing
<1>1. Snapshot(o, c).written = TRUE /\ Nothing.written = FALSE
  BY DEF Snapshot, Nothing
<1>2. QED BY <1>1 DEF Snapshot, State

LEMMA PersistsTypes ==
  ASSUME SaveType, outbox' \in [Msgs -> 0..Accepted], cursor' \in Nat \cup {NoCursor},
         Persists(outbox', cursor')
  PROVE  SaveType'
<1>1. /\ file' = file /\ pending' = (writing # Nothing)
      /\ writing' = IF writing = Nothing THEN Snapshot(outbox', cursor') ELSE writing
  BY Zenon DEF Persists
<1>2. Snapshot(outbox', cursor') \in State
  BY SnapshotIs
<1>3. writing' \in State /\ pending' \in BOOLEAN /\ file' \in State
  BY <1>1, <1>2 DEF SaveType
<1>4. QED BY <1>3 DEF SaveType

LEMMA MarkedIs ==
  ASSUME SaveType, NEW m \in Msgs
  PROVE  Marked(m) \in [Msgs -> 0..Accepted]
<1>1. Accepted \in 0..Accepted
  BY Sizes DEF Accepted
<1>2. QED BY <1>1 DEF Marked, SaveType

(* A task that sends or passes over has a step to do it for.                *)
LEMMA AtStep ==
  ASSUME OutType, StepsFit, NEW w \in Slots,
         task[w].stage = "send" \/ (task[w].stage = "next" /\ task[w].steps # {})
  PROVE  /\ task[w] \in Tasks /\ task[w].steps \in SUBSET Step
         /\ Now(w) \in task[w].steps /\ Now(w) \in Step
         /\ Now(w).at \in Nat /\ Now(w).turn \in Turns /\ Now(w).out \in 0..MaxOuts
         /\ task[w].stage = "send" => Now(w).out \in Outs
<1>1. task[w] \in Tasks /\ task[w].steps \in SUBSET Step
  BY DEF OutType, Tasks
<1>2. task[w].steps # {}
  BY DEF StepsFit
<1>3. task[w].stage = "send" => Now(w).out # 0
  BY DEF StepsFit
<1>4. /\ Now(w) \in task[w].steps /\ Now(w) \in Step
      /\ Now(w).at \in Nat /\ Now(w).turn \in Turns /\ Now(w).out \in 0..MaxOuts
  BY <1>1, <1>2, NowIs
<1>5. QED BY <1>1, <1>3, <1>4, Sizes DEF Outs

LEMMA SaveNext ==
  ASSUME TypeOK, AdmitFits, StepsFit, Next
  PROVE  SaveType'
<1>0. /\ WorldType /\ LogType /\ ConnType /\ InType /\ HistType /\ SaveType /\ OutType
      /\ Len(log) \in Nat /\ ChainType
  BY TypeParts DEF LogType, InType
<1>a. /\ outbox \in [Msgs -> 0..Accepted] /\ cursor \in Nat \cup {NoCursor} /\ file \in State /\ writing \in State
      /\ Nothing \in State /\ pending \in BOOLEAN
  BY <1>0, NothingIs DEF SaveType
<1>1. ASSUME UNCHANGED <<saveVars, outbox, cursor>> PROVE SaveType'
  BY <1>0, <1>1 DEF SaveType, saveVars
<1>2. CASE Connection \/ Agent \/ Stop
  BY <1>1, <1>2, ConnectionKeeps, AgentKeeps, StopKeeps
<1>3. CASE AdmitStarts \/ AgentFails \/ \E m \in Msgs : Receive(m) \/ AdmitEnters(m)
  <2>1. UNCHANGED <<saveVars, outbox, cursor>>
    BY <1>3, Zenon DEF AdmitStarts, AgentFails, Receive, AdmitEnters
  <2>2. QED BY <1>1, <2>1
<1>4. CASE AgentAttached
  <2>1. \/ UNCHANGED <<saveVars, outbox, cursor>>
        \/ cursor' = Len(log) /\ outbox' = outbox /\ Persists(outbox, Len(log))
    BY <1>4, Zenon DEF AgentAttached
  <2>2. QED BY <1>0, <1>a, <1>1, <2>1, PersistsTypes
<1>5. CASE AdmitFlushes
  <2>1. outbox' = Marked(Head(admits)) /\ Persists(outbox', cursor) /\ cursor' = cursor /\ stage = "flush"
    BY <1>5, Zenon DEF AdmitFlushes
  <2>2. Head(admits) \in Msgs
    <3>1. admits \in Seq(Msgs) /\ admits # <<>>
      BY <1>0, <2>1 DEF ChainType, AdmitFits
    <3>2. QED BY <3>1
  <2>3. outbox' \in [Msgs -> 0..Accepted]
    BY <1>0, <2>1, <2>2, MarkedIs
  <2>4. QED BY <1>0, <1>a, <2>1, <2>3, PersistsTypes
<1>6. ASSUME NEW m \in Msgs, AdmitCoalesces(m) PROVE SaveType'
  <2>1. outbox' = Marked(m) /\ Persists(outbox', cursor) /\ cursor' = cursor
    BY <1>6, Zenon DEF AdmitCoalesces
  <2>3. outbox' \in [Msgs -> 0..Accepted]
    BY <1>0, <2>1, MarkedIs
  <2>4. QED BY <1>0, <1>a, <2>1, <2>3, PersistsTypes
<1>7. CASE Acks \/ FlushSkips \/ FlushReads \/ TimesOut
  <2>1. UNCHANGED <<saveVars, outbox, cursor>>
    BY <1>7, Zenon DEF Acks, FlushSkips, FlushReads, TimesOut
  <2>2. QED BY <1>1, <2>1
<1>8. CASE FlushResets
  <2>1. cursor' = Len(log) /\ outbox' = outbox /\ Persists(outbox, Len(log))
    BY <1>8, Zenon DEF FlushResets, Advances
  <2>2. QED BY <1>0, <1>a, <2>1, PersistsTypes
<1>9. ASSUME NEW w \in Slots, Working(w) PROVE SaveType'
  <2>1. CASE QueryAnswers(w) \/ FlushEnds(w) \/ StepSends(w) \/ StepOffline(w) \/ SendFails(w)
    <3>1. UNCHANGED <<saveVars, outbox, cursor>>
      BY <2>1, Zenon DEF QueryAnswers, FlushEnds, StepSends, StepOffline, SendFails
    <3>2. QED BY <1>1, <3>1
  <2>2. CASE QueryFails(w)
    <3>1. cursor' = task[w].gap /\ outbox' = outbox /\ Persists(outbox, task[w].gap)
      BY <2>2, Zenon DEF QueryFails, Advances
    <3>2. task[w].gap \in Nat
      BY <1>0 DEF OutType, Tasks
    <3>3. QED BY <1>0, <1>a, <3>1, <3>2, PersistsTypes
  <2>3. CASE StepPasses(w) \/ SendSwallows(w)
    <3>1. cursor' = Now(w).at /\ outbox' = outbox /\ Persists(outbox, Now(w).at)
      BY <2>3, Zenon DEF StepPasses, SendSwallows, Advances
    <3>2. task[w].stage = "send" \/ (task[w].stage = "next" /\ task[w].steps # {})
      BY <2>3, Zenon DEF StepPasses, SendSwallows
    <3>3. Now(w).at \in Nat
      BY <1>0, <3>2, AtStep
    <3>4. QED BY <1>0, <1>a, <3>1, <3>3, PersistsTypes
  <2>4. CASE SendReturns(w)
    <3>1. /\ cursor' = Now(w).at /\ Persists(outbox', Now(w).at) /\ task[w].stage = "send"
          /\ outbox' = IF turnInbound[Now(w).turn] = 0 THEN outbox
                       ELSE [outbox EXCEPT ![turnInbound[Now(w).turn]] = Now(w).out]
      BY <2>4, Zenon DEF SendReturns, Advances
    <3>2. Now(w).at \in Nat /\ Now(w).out \in 0..MaxOuts
      BY <1>0, <3>1, AtStep
    <3>3. Now(w).out \in 0..Accepted
      BY <3>2, Sizes DEF Accepted
    <3>4. outbox' \in [Msgs -> 0..Accepted]
      BY <1>a, <3>1, <3>3
    <3>5. QED BY <1>0, <1>a, <3>1, <3>2, <3>4, PersistsTypes
  <2>5. QED BY <1>9, <2>1, <2>2, <2>3, <2>4, Zenon DEF Working
<1>10. CASE SaveEnds
  <2>1. /\ outbox' = outbox /\ cursor' = cursor /\ pending' = FALSE
        /\ file' \in {writing, file}
        /\ writing' = IF pending THEN Snapshot(outbox, cursor) ELSE Nothing
    BY <1>10, Zenon DEF SaveEnds
  <2>2. Snapshot(outbox, cursor) \in State
    BY <1>a, SnapshotIs
  <2>3. file' \in State /\ writing' \in State
    BY <1>a, <2>1, <2>2
  <2>4. QED BY <1>a, <2>1, <2>3 DEF SaveType
<1>11. CASE Crash \/ StopDone
  <2>1. \E f \in {file, writing, Snapshot(outbox, cursor)} :
           file' = f /\ outbox' = f.entries /\ cursor' = f.cursor /\ pending' = FALSE /\ writing' = Nothing
    BY <1>11, Zenon DEF Crash, StopDone, Begins
  <2>2. PICK f \in State :
           file' = f /\ outbox' = f.entries /\ cursor' = f.cursor /\ pending' = FALSE /\ writing' = Nothing
    BY <1>a, <2>1, SnapshotIs
  <2>3. f.entries \in [Msgs -> 0..Accepted] /\ f.cursor \in Nat \cup {NoCursor}
    BY DEF State
  <2>4. QED BY <1>a, <2>2, <2>3 DEF SaveType
<1>12. QED
  BY <1>2, <1>3, <1>4, <1>5, <1>6, <1>7, <1>8, <1>9, <1>10, <1>11, Zenon DEF Next, Inbound, Outbound, Starts

-----------------------------------------------------------------------------
(* The session, the tail and the tasks.                                     *)

LEMMA NoTaskIs ==
  /\ NoTask \in Tasks /\ NoTask.stage = "none" /\ NoTask.steps = {} /\ NoTask.gap = 0
  /\ Flush \in Tasks /\ Flush.stage = "none" /\ Flush.steps = {} /\ Flush.gap = 0
BY DEF NoTask, Flush, Tasks, TaskStages, NoSteps

(* What is sent at a boundary is what an event before it, or at it, says.   *)
SaysBy(o, S, p) ==
  \E q \in S : q <= p /\ log[q].out = o /\ log[q].turn = log[p].turn /\ (mode.reply = "message" => q = p)

LEMMA ClosingIs ==
  ASSUME LogType, NEW S \in SUBSET (1..Len(log)), NEW p \in S, ClosingOutput(S, p) # 0
  PROVE  \E q \in S : q < p /\ log[q].out = ClosingOutput(S, p) /\ log[q].turn = log[p].turn
<1>1. PICK n \in Nat : n = Len(log)
  BY DEF LogType
<1>2. PICK since : since = LET resets == {q \in S : q < p /\ log[q].type \in {"start", "end"}}
                           IN  IF resets = {} THEN 0 ELSE MaxOf(resets)
  OBVIOUS
<1>3. PICK texts : texts = {q \in S : since < q /\ q < p /\ log[q].out # 0 /\ log[q].turn = log[p].turn}
  OBVIOUS
<1>4. ClosingOutput(S, p) = IF texts = {} THEN 0 ELSE log[MaxOf(texts)].out
  BY <1>2, <1>3, Zenon DEF ClosingOutput
<1>5. texts # {} /\ texts \in SUBSET (0..n)
  BY <1>1, <1>3, <1>4
<1>6. MaxOf(texts) \in texts
  BY <1>1, <1>5, MaxOfIs
<1>7. QED BY <1>3, <1>4, <1>5, <1>6

LEMMA StepsOfAre ==
  ASSUME LogType, LogFits, NEW S \in SUBSET (1..Len(log)), NEW s \in StepsOf(S)
  PROVE  /\ s \in Step /\ s.at \in S /\ s.turn = log[s.at].turn
         /\ s.out # 0 => SaysBy(s.out, S, s.at)
         /\ log[s.at].type \in {"say", "end"}
         /\ mode.reply # "message" => log[s.at].type = "end"
         /\ s.out = IF mode.reply = "message" THEN log[s.at].out ELSE ClosingOutput(S, s.at)
<1>1. PICK p \in S : /\ log[p].type \in IF mode.reply = "message" THEN {"say", "end"} ELSE {"end"}
                     /\ s = [at |-> p, turn |-> log[p].turn,
                             out |-> IF mode.reply = "message" THEN log[p].out ELSE ClosingOutput(S, p)]
  BY Zenon DEF StepsOf
<1>2. /\ s.at = p /\ s.turn = log[p].turn
      /\ s.out = IF mode.reply = "message" THEN log[p].out ELSE ClosingOutput(S, p)
  BY <1>1
<1>3. /\ log[p].type \in {"say", "end"} /\ (mode.reply # "message" => log[p].type = "end")
      /\ log[p].type # "in" /\ p \in 1..Len(log) /\ p \in Nat
  BY <1>1 DEF LogType
<1>4. /\ log[p].turn \in 1..turns /\ log[p].out \in 0..MaxOuts /\ turns \in 0..MaxTurns
      /\ \A q \in S : log[q] \in Events
  <2>1. \A q \in 1..Len(log) : log[q] \in Events
    BY DEF LogType
  <2>2. log[p].out \in 0..MaxOuts
    BY <1>3, <2>1 DEF Events
  <2>3. log[p].turn \in 1..turns
    BY <1>3 DEF LogFits
  <2>4. turns \in 0..MaxTurns
    BY DEF LogType
  <2>5. QED BY <2>1, <2>2, <2>3, <2>4
<1>5. s.out # 0 => SaysBy(s.out, S, p)
  <2>1. CASE mode.reply = "message"
    BY <1>2, <1>3, <2>1 DEF SaysBy
  <2>2. CASE mode.reply # "message"
    <3>1. s.out = ClosingOutput(S, p)
      BY <1>2, <2>2
    <3>2. s.out # 0 => \E q \in S : q < p /\ log[q].out = ClosingOutput(S, p) /\ log[q].turn = log[p].turn
      BY <3>1, ClosingIs
    <3>3. \A q \in S : q \in Nat
      BY DEF LogType
    <3>4. QED BY <1>3, <2>2, <3>1, <3>2, <3>3 DEF SaysBy
  <2>3. QED BY <2>1, <2>2
<1>6. s.out \in 0..MaxOuts
  <2>1. CASE s.out = 0
    BY <2>1, Sizes
  <2>2. CASE s.out # 0
    BY <1>4, <1>5, <2>2 DEF SaysBy, Events
  <2>3. QED BY <2>1, <2>2
<1>7. s \in Step
  <2>1. log[p].turn \in Turns
    BY <1>4, Sizes DEF Turns
  <2>2. QED BY <1>1, <1>2, <1>3, <1>6, <2>1 DEF Step
<1>8. QED BY <1>2, <1>3, <1>5, <1>7

(* An output is said once, and a turn ends once.                            *)
LEMMA SaidOnce ==
  ASSUME LogType, LogFits, NEW p \in 1..Len(log), NEW q \in 1..Len(log)
  PROVE  /\ log[p].out # 0 => log[p].type = "say" /\ log[p].out \in 1..outs
         /\ log[p].out # 0 /\ log[p].out = log[q].out => p = q
         /\ log[p].type = "end" /\ log[q].type = "end" /\ log[p].turn = log[q].turn => p = q
<1>1. p \in Nat /\ q \in Nat
  BY DEF LogType
<1>2. log[p].out # 0 => log[p].type = "say" /\ log[p].out \in 1..outs /\ outs \in Nat
  BY Sizes DEF LogFits, LogType
<1>3. log[q].out # 0 => log[q].type = "say" /\ log[q].out \in 1..outs
  BY DEF LogFits
<1>4. log[p].out # 0 /\ log[p].out = log[q].out => ~(p < q) /\ ~(q < p)
  BY <1>2, <1>3 DEF LogFits
<1>5. /\ log[p].type = "end" => log[p].turn \in 1..turns
      /\ log[q].type = "end" => log[q].turn \in 1..turns
      /\ turns \in Nat
  BY Sizes DEF LogFits, LogType
<1>6. log[p].type = "end" /\ log[q].type = "end" /\ log[p].turn = log[q].turn => ~(p < q) /\ ~(q < p)
  BY <1>5 DEF LogFits
<1>7. QED BY <1>1, <1>2, <1>4, <1>6

LEMMA StepsOfFit ==
  ASSUME LogType, LogFits, NEW S \in SUBSET (1..Len(log)), NEW s \in StepsOf(S)
  PROVE  /\ \A u \in StepsOf(S) : s.at = u.at \/ (s.out # 0 /\ s.out = u.out) => s = u
         /\ \A p \in 1..Len(log) : s.out # 0 /\ log[p].out = s.out => p <= s.at
         /\ s.out \in 0..outs
<1>1. /\ s \in Step /\ s.at \in S /\ s.turn = log[s.at].turn
      /\ s.out # 0 => SaysBy(s.out, S, s.at)
      /\ mode.reply # "message" => log[s.at].type = "end"
      /\ s.out = IF mode.reply = "message" THEN log[s.at].out ELSE ClosingOutput(S, s.at)
  BY StepsOfAre
<1>2. ASSUME s.out # 0
      PROVE  \E q \in S : q <= s.at /\ log[q].out = s.out /\ log[q].turn = log[s.at].turn
                          /\ (mode.reply = "message" => q = s.at)
  BY <1>1, <1>2 DEF SaysBy
<1>3. ASSUME NEW u \in StepsOf(S), s.at = u.at \/ (s.out # 0 /\ s.out = u.out) PROVE s = u
  <2>1. /\ u \in Step /\ u.at \in S /\ u.turn = log[u.at].turn
        /\ u.out # 0 => SaysBy(u.out, S, u.at)
        /\ mode.reply # "message" => log[u.at].type = "end"
        /\ u.out = IF mode.reply = "message" THEN log[u.at].out ELSE ClosingOutput(S, u.at)
    BY StepsOfAre
  <2>2. s.at = u.at
    <3>1. CASE s.out # 0 /\ s.out = u.out
      <4>1. PICK q \in S : /\ q <= s.at /\ log[q].out = s.out /\ log[q].turn = log[s.at].turn
                           /\ (mode.reply = "message" => q = s.at)
        BY <1>2, <3>1
      <4>2. PICK r \in S : /\ r <= u.at /\ log[r].out = s.out /\ log[r].turn = log[u.at].turn
                           /\ (mode.reply = "message" => r = u.at)
        BY <2>1, <3>1 DEF SaysBy
      <4>3. q = r
        BY <3>1, <4>1, <4>2, SaidOnce
      <4>4. CASE mode.reply = "message"
        BY <4>1, <4>2, <4>3, <4>4
      <4>5. CASE mode.reply # "message"
        BY <1>1, <2>1, <4>1, <4>2, <4>3, <4>5, SaidOnce
      <4>6. QED BY <4>4, <4>5
    <3>2. QED BY <1>3, <3>1
  <2>3. s.out = u.out /\ s.turn = u.turn
    BY <1>1, <2>1, <2>2
  <2>4. QED BY <1>1, <2>1, <2>2, <2>3 DEF Step
<1>4. ASSUME NEW p \in 1..Len(log), s.out # 0, log[p].out = s.out PROVE p <= s.at
  <2>1. PICK q \in S : q <= s.at /\ log[q].out = s.out
    BY <1>2, <1>4
  <2>2. p = q
    BY <1>4, <2>1, SaidOnce
  <2>3. QED BY <2>1, <2>2
<1>5. s.out \in 0..outs
  <2>1. CASE s.out = 0
    BY <2>1, Sizes DEF LogType
  <2>2. CASE s.out # 0
    <3>1. PICK q \in S : log[q].out = s.out
      BY <1>2, <2>2
    <3>2. s.out \in 1..outs
      BY <2>2, <3>1, SaidOnce
    <3>3. QED BY <3>2, Sizes DEF LogType
  <2>3. QED BY <2>1, <2>2
<1>6. QED BY <1>3, <1>4, <1>5

First(S) == CHOOSE s \in S : \A q \in S : s.at <= q.at
TaskFits(t) ==
  /\ t \in Tasks
  /\ t.stage = "send" => t.steps # {} /\ First(t.steps).out # 0
  /\ \A s, u \in t.steps : s.at = u.at \/ (s.out # 0 /\ s.out = u.out) => s = u

LEMMA TasksFit ==
  /\ \A w : Now(w) = First(task[w].steps)
  /\ task \in [Slots -> Tasks] /\ StepsFit <=> task \in [Slots -> Tasks] /\ \A w \in Slots : TaskFits(task[w])
<1>1. \A w : Now(w) = First(task[w].steps)
  BY Zenon DEF Now, First
<1>2. ASSUME task \in [Slots -> Tasks]
      PROVE  StepsFit <=> \A w \in Slots : TaskFits(task[w])
  BY <1>1, <1>2, Zenon DEF StepsFit, TaskFits
<1>3. QED BY <1>1, <1>2

(* What is left of a task fits if the task did.                             *)
LEMMA TaskShrinks ==
  ASSUME NEW t, TaskFits(t), NEW u \in Tasks, u.steps \subseteq t.steps,
         u.stage = "send" => u.steps = t.steps /\ u.steps # {} /\ First(u.steps).out # 0
  PROVE  TaskFits(u)
BY Zenon DEF TaskFits

LEMMA StagesAre ==
  /\ Waits \in {"write", "save"} /\ Waits \in TaskStages /\ Waits \in Stages
  /\ {"none", "query", "next", "send", "save", "write"} \subseteq TaskStages
BY DEF Waits, TaskStages, Stages

(* A task that does something keeps no step it did not have.                *)
LEMMA WorkingTask ==
  ASSUME OutType, StepsFit, NEW w \in Slots, Working(w)
  PROVE  \E u \in Tasks : /\ task' = [task EXCEPT ![w] = u] /\ u.steps \subseteq task[w].steps
                          /\ u.stage = "send" => /\ u.steps = task[w].steps /\ u.steps # {}
                                                 /\ First(u.steps).out # 0
<1>0. task[w] \in Tasks /\ NoTask \in Tasks /\ Flush \in Tasks
  BY NoTaskIs DEF OutType
<1>1. CASE FlushEnds(w) \/ StepOffline(w) \/ SendFails(w)
  <2>1. task' = [task EXCEPT ![w] = NoTask]
    BY <1>1, Zenon DEF FlushEnds, StepOffline, SendFails, Becomes
  <2>2. NoTask.steps \subseteq task[w].steps /\ NoTask.stage # "send"
    BY NoTaskIs
  <2>3. QED BY <1>0, <2>1, <2>2, Zenon
<1>2. CASE QueryAnswers(w)
  <2>1. PICK u : u = [task[w] EXCEPT !.stage = "next", !.gap = 0]
    OBVIOUS
  <2>2. task' = [task EXCEPT ![w] = u]
    BY <1>2, <2>1, Zenon DEF QueryAnswers, Becomes
  <2>3. u \in Tasks /\ u.steps = task[w].steps /\ u.stage = "next"
    BY <1>0, <2>1, StagesAre DEF Tasks
  <2>4. u.stage # "send"
    BY <2>3
  <2>5. QED BY <2>2, <2>3, <2>4, Zenon
<1>3. CASE StepSends(w)
  <2>1. PICK u : u = [task[w] EXCEPT !.stage = "send"]
    OBVIOUS
  <2>2. /\ task' = [task EXCEPT ![w] = u] /\ task[w].steps # {} /\ Now(w).out # 0
    BY <1>3, <2>1, Zenon DEF StepSends, AtStage, Becomes
  <2>3. u \in Tasks /\ u.steps = task[w].steps
    BY <1>0, <2>1, StagesAre DEF Tasks
  <2>4. QED BY <2>2, <2>3, TasksFit, Zenon
<1>4. CASE QueryFails(w)
  <2>1. PICK u : u = [Flush EXCEPT !.stage = Waits]
    OBVIOUS
  <2>2. task' = [task EXCEPT ![w] = u]
    BY <1>4, <2>1, Zenon DEF QueryFails, Advances, Becomes
  <2>3. u \in Tasks /\ u.steps = {} /\ u.stage = Waits
    BY <1>0, <2>1, StagesAre, NoTaskIs DEF Tasks
  <2>4. u.steps \subseteq task[w].steps /\ u.stage # "send"
    BY <2>3, StagesAre
  <2>5. QED BY <2>2, <2>3, <2>4, Zenon
<1>5. CASE StepPasses(w) \/ SendReturns(w) \/ SendSwallows(w)
  <2>1. PICK u : u = [Later(w) EXCEPT !.stage = Waits]
    OBVIOUS
  <2>2. task' = [task EXCEPT ![w] = u]
    BY <1>5, <2>1, Zenon DEF StepPasses, SendReturns, SendSwallows, Advances, Becomes
  <2>3. Later(w) \in Tasks /\ Later(w).steps = task[w].steps \ {Now(w)}
    BY <1>0 DEF Later, Tasks
  <2>4. u \in Tasks /\ u.steps = Later(w).steps /\ u.stage = Waits
    BY <2>1, <2>3, StagesAre DEF Tasks
  <2>5. u.steps \subseteq task[w].steps /\ u.stage # "send"
    BY <2>3, <2>4, StagesAre
  <2>6. QED BY <2>2, <2>4, <2>5, Zenon
<1>6. QED BY <1>1, <1>2, <1>3, <1>4, <1>5, Zenon DEF Working

(* What a flush reads is what the log says.                                 *)
LEMMA FlushTask ==
  ASSUME LogType, LogFits, OutType, cursor \in Nat \cup {NoCursor}, FlushReads
  PROVE  \E S \in SUBSET {p \in 1..Len(log) : cursor < p} : \E u \in Tasks :
            /\ task["run"] = NoTask /\ task' = [task EXCEPT !["run"] = u]
            /\ u.steps = StepsOf(S) /\ u.stage \in {"next", "query"}
<1>1. PICK S : S = {p \in 1..Len(log) : cursor < p /\ p < Observed(Len(log) + 1).from} \cup Buffered(cursor)
  OBVIOUS
<1>2. S \in SUBSET {p \in 1..Len(log) : cursor < p}
  BY <1>1, SMT DEF Buffered
<1>3. PICK first : first = Observed(Len(log) + 1).from
  OBVIOUS
<1>4. PICK t : t = [Flush EXCEPT !.steps = StepsOf(S)]
  OBVIOUS
<1>5. PICK u : u = IF cursor + 1 >= first THEN [t EXCEPT !.stage = "next"]
                   ELSE [t EXCEPT !.stage = "query", !.gap = first - 1]
  OBVIOUS
<1>6. task["run"] = NoTask /\ task' = [task EXCEPT !["run"] = u]
  BY <1>1, <1>3, <1>4, <1>5, Zenon DEF FlushReads, Flushes, TailStarts, Becomes
<1>7. StepsOf(S) \in SUBSET Step
  <2>1. S \in SUBSET (1..Len(log))
    BY <1>2
  <2>2. QED BY <2>1, StepsOfAre
<1>8. t \in Tasks /\ t.steps = StepsOf(S)
  BY <1>4, <1>7, NoTaskIs DEF Tasks
<1>9. first \in Nat /\ (first = 0 => cursor + 1 >= first)
  <2>1. live \in [from : Nat, cut : Nat] /\ Len(log) + 1 \in Nat
    BY DEF OutType, LogType
  <2>2. first \in Nat
    BY <1>3, <2>1 DEF Observed
  <2>3. QED BY <2>2 DEF NoCursor
<1>10. u \in Tasks /\ u.steps = t.steps /\ u.stage \in {"next", "query"}
  <2>1. CASE cursor + 1 >= first
    BY <1>5, <1>8, <2>1, StagesAre DEF Tasks
  <2>2. CASE ~(cursor + 1 >= first)
    <3>1. first - 1 \in Nat
      BY <1>9, <2>2
    <3>2. QED BY <1>5, <1>8, <2>2, <3>1, StagesAre DEF Tasks
  <2>3. QED BY <2>1, <2>2
<1>11. QED BY <1>2, <1>6, <1>8, <1>10, Zenon

LEMMA TaskNext ==
  ASSUME LogType, LogFits, OutType, StepsFit, cursor \in Nat \cup {NoCursor}, Next
  PROVE  task' \in [Slots -> Tasks] /\ StepsFit'
<1>0. task \in [Slots -> Tasks] /\ \A w \in Slots : TaskFits(task[w])
  BY TasksFit DEF OutType
<1>a. TaskFits(NoTask) /\ NoTask \in Tasks /\ "run" \in Slots /\ "late" \in Slots
  BY NoTaskIs DEF TaskFits, Slots
<1>b. SUFFICES task' \in [Slots -> Tasks] /\ \A w \in Slots : TaskFits(task'[w])
  <2>1. (task \in [Slots -> Tasks] /\ StepsFit)' <=> (task \in [Slots -> Tasks] /\ \A w \in Slots : TaskFits(task[w]))'
    BY TasksFit, PTL
  <2>2. QED BY <2>1
<1>1. CASE Connection \/ Inbound \/ Agent \/ Stop \/ Acks \/ FlushSkips
  <2>1. task' = task
    <3>1. CASE Acks \/ FlushSkips
      BY <3>1, Zenon DEF Acks, FlushSkips
    <3>2. CASE Connection \/ Inbound \/ Agent \/ Stop
      BY <3>2, ConnectionKeeps, InboundKeeps, AgentKeeps, StopKeeps DEF outVars
    <3>3. QED BY <1>1, <3>1, <3>2
  <2>2. QED BY <1>0, <2>1
<1>2. ASSUME NEW w \in Slots, NEW u \in Tasks, TaskFits(u), task' = [task EXCEPT ![w] = u]
      PROVE  task' \in [Slots -> Tasks] /\ \A v \in Slots : TaskFits(task'[v])
  BY <1>0, <1>2, Zenon
<1>3. CASE FlushResets
  <2>1. PICK u : u = [Flush EXCEPT !.stage = Waits]
    OBVIOUS
  <2>2. task' = [task EXCEPT !["run"] = u]
    BY <1>3, <2>1, Zenon DEF FlushResets, Advances, Becomes
  <2>3. u \in Tasks /\ u.steps = {} /\ u.stage \in {"write", "save"}
    BY <2>1, StagesAre, NoTaskIs DEF Tasks
  <2>4. TaskFits(u)
    BY <2>3 DEF TaskFits
  <2>5. QED BY <1>2, <1>a, <2>2, <2>3, <2>4
<1>4. CASE FlushReads
  <2>1. PICK S \in SUBSET {p \in 1..Len(log) : cursor < p}, u \in Tasks :
            /\ task["run"] = NoTask /\ task' = [task EXCEPT !["run"] = u]
            /\ u.steps = StepsOf(S) /\ u.stage \in {"next", "query"}
    BY <1>4, FlushTask
  <2>2. S \in SUBSET (1..Len(log))
    BY <2>1
  <2>3. \A s, x \in u.steps : s.at = x.at \/ (s.out # 0 /\ s.out = x.out) => s = x
    BY <2>1, <2>2, StepsOfFit
  <2>4. u.stage # "send"
    BY <2>1
  <2>5. TaskFits(u)
    BY <2>3, <2>4, Zenon DEF TaskFits
  <2>6. QED BY <1>2, <1>a, <2>1, <2>5
<1>5. CASE TimesOut
  <2>1. task' = [run |-> NoTask, late |-> task["run"]]
    BY <1>5, Zenon DEF TimesOut
  <2>2. \A w \in Slots : w = "run" \/ w = "late"
    BY DEF Slots
  <2>3. DOMAIN task' = Slots /\ task'["run"] = NoTask /\ task'["late"] = task["run"]
    BY <2>1 DEF Slots
  <2>4. task' = [w \in Slots |-> task'[w]]
    BY <2>1 DEF Slots
  <2>5. \A w \in Slots : task'[w] \in Tasks /\ TaskFits(task'[w])
    BY <1>0, <1>a, <2>2, <2>3
  <2>6. QED BY <2>4, <2>5, Zenon
<1>6. ASSUME NEW w \in Slots, Working(w) PROVE task' \in [Slots -> Tasks] /\ \A v \in Slots : TaskFits(task'[v])
  <2>1. PICK u \in Tasks : /\ task' = [task EXCEPT ![w] = u] /\ u.steps \subseteq task[w].steps
                           /\ u.stage = "send" => /\ u.steps = task[w].steps /\ u.steps # {}
                                                  /\ First(u.steps).out # 0
    BY <1>6, WorkingTask
  <2>2. TaskFits(u)
    BY <1>0, <2>1, TaskShrinks
  <2>3. QED BY <1>2, <2>1, <2>2
<1>7. CASE SaveEnds
  <2>1. task' = [w \in Slots |-> [task[w] EXCEPT !.stage = CASE task[w].stage = "write" -> "next"
                                     [] task[w].stage = "save" -> "write" [] OTHER -> task[w].stage]]
    BY <1>7, Zenon DEF SaveEnds
  <2>2. ASSUME NEW w \in Slots PROVE task'[w] \in Tasks /\ TaskFits(task'[w])
    <3>1. PICK t \in Tasks : t = task[w] /\ TaskFits(t)
      BY <1>0
    <3>2. PICK x : x = CASE t.stage = "write" -> "next" [] t.stage = "save" -> "write" [] OTHER -> t.stage
      OBVIOUS
    <3>3. x \in TaskStages /\ (x = "send" => t.stage = "send")
      BY <3>1, <3>2 DEF Tasks, TaskStages
    <3>4. task'[w] = [t EXCEPT !.stage = x]
      BY <2>1, <3>1, <3>2
    <3>5. task'[w] \in Tasks /\ task'[w].steps = t.steps /\ task'[w].stage = x
      BY <3>1, <3>3, <3>4 DEF Tasks
    <3>6. t.stage = "send" => t.steps # {} /\ First(t.steps).out # 0
      BY <3>1 DEF TaskFits
    <3>7. QED BY <3>1, <3>3, <3>5, <3>6, TaskShrinks
  <2>3. QED BY <2>1, <2>2, Zenon
<1>8. CASE Crash \/ StopDone
  <2>1. task' = [w \in Slots |-> NoTask]
    BY <1>8, Zenon DEF Crash, StopDone, Begins
  <2>2. QED BY <1>a, <2>1
<1>9. QED
  BY <1>1, <1>3, <1>4, <1>5, <1>6, <1>7, <1>8, Zenon DEF Next, Outbound, Starts

LEMMA UnsentIs == ASSUME LogType, NEW c PROVE Unsent(c) \in SUBSET Outs
<1>1. ASSUME NEW p \in 1..Len(log), log[p].out # 0 PROVE log[p].out \in Outs
  <2>1. log[p] \in Events
    BY DEF LogType
  <2>2. QED BY <1>1, <2>1, Sizes DEF Events, Outs
<1>2. QED BY <1>1 DEF Unsent

LEMMA PrunedIs ==
  ASSUME OutType, NEW c \in Nat
  PROVE  /\ PrunedTo(c) \in [from : Nat, cut : Nat] /\ PrunedTo(c).from = live.from
         /\ PrunedTo(c).cut = IF c > live.cut THEN c ELSE live.cut
         /\ Observed(c) \in [from : Nat, cut : Nat] /\ Observed(c).cut = live.cut
         /\ Observed(c).from = IF live.from = 0 THEN c ELSE live.from
BY DEF OutType, PrunedTo, Observed

LEMMA FlushDueIs == FlushDue \in Seq({"flush", "ack"})
<1>1. FlushDue = <<>> \/ FlushDue = <<"flush">>
  BY Zenon DEF FlushDue
<1>2. <<>> \in Seq({"flush", "ack"}) /\ <<"flush">> \in Seq({"flush", "ack"})
  OBVIOUS
<1>3. QED BY <1>1, <1>2

LEMMA QueuedIs ==
  ASSUME OutType, NEW ks \in Seq({"flush", "ack"}), Queued(ks)
  PROVE  tail' \in Seq({"flush", "ack"})
BY DEF OutType, Queued

LEMMA OutNext ==
  ASSUME TypeOK, LogFits, StepsFit, Next
  PROVE  OutType'
<1>0. /\ WorldType /\ LogType /\ ConnType /\ InType /\ HistType /\ SaveType /\ OutType
  BY TypeParts
<1>a. /\ live \in [from : Nat, cut : Nat] /\ tail \in Seq({"flush", "ack"}) /\ dropped \in SUBSET Outs
      /\ cursor \in Nat \cup {NoCursor} /\ Len(log) \in Nat /\ [from |-> 0, cut |-> 0] \in [from : Nat, cut : Nat]
      /\ [from |-> Len(log) + 1, cut |-> 0] \in [from : Nat, cut : Nat]
      /\ <<>> \in Seq({"flush", "ack"}) /\ <<"ack">> \in Seq({"flush", "ack"}) /\ FlushDue \in Seq({"flush", "ack"})
  BY <1>0, FlushDueIs DEF OutType, SaveType, LogType
<1>1. task' \in [Slots -> Tasks]
  BY <1>0, <1>a, TaskNext
<1>2. live' \in [from : Nat, cut : Nat]
  <2>1. CASE Connection \/ SaveEnds \/ Stop
    BY <1>a, <2>1, ConnectionKeeps, SaveEndsKeeps, StopKeeps DEF outVars
  <2>2. CASE Inbound \/ Replaced \/ Crash \/ StopDone
    <3>1. live' \in {live, [from |-> 0, cut |-> 0], [from |-> Len(log) + 1, cut |-> 0]}
      <4>1. CASE Inbound
        BY <4>1, Zenon DEF Inbound, AdmitStarts, AgentAttached, AgentFails, AdmitFlushes, Receive,
             AdmitCoalesces, AdmitEnters, outVars
      <4>2. CASE Replaced \/ Crash \/ StopDone
        BY <4>2, Zenon DEF Replaced, Crash, StopDone, Begins
      <4>3. QED BY <2>2, <4>1, <4>2
    <3>2. QED BY <1>a, <3>1
  <2>3. CASE TurnStarts \/ TurnJoined \/ AgentSays \/ TurnEnds \/ GoesIdle
    <3>1. live' \in {live, Observed(Len(log) + 1)}
      BY <2>3, Zenon DEF TurnStarts, TurnJoined, AgentSays, TurnEnds, GoesIdle, Pushes, outVars
    <3>2. Len(log) + 1 \in Nat
      BY <1>a
    <3>3. QED BY <1>0, <1>a, <3>1, <3>2, PrunedIs
  <2>4. CASE Starts \/ TimesOut
    <3>1. live' \in {live, Observed(Len(log) + 1), PrunedTo(Len(log))}
      BY <2>4, Zenon DEF Starts, TimesOut, Acks, FlushSkips, FlushResets, FlushReads, Advances
    <3>2. Len(log) + 1 \in Nat
      BY <1>a
    <3>3. QED BY <1>0, <1>a, <3>1, <3>2, PrunedIs
  <2>5. ASSUME NEW w \in Slots, Working(w) PROVE live' \in [from : Nat, cut : Nat]
    <3>1. CASE QueryAnswers(w) \/ FlushEnds(w) \/ StepSends(w) \/ StepOffline(w) \/ SendFails(w)
      <4>1. live' = live
        BY <3>1, Zenon DEF QueryAnswers, FlushEnds, StepSends, StepOffline, SendFails
      <4>2. QED BY <1>a, <4>1
    <3>2. CASE QueryFails(w)
      <4>1. live' = PrunedTo(task[w].gap)
        BY <3>2, Zenon DEF QueryFails, Advances
      <4>2. task[w].gap \in Nat
        BY <1>0 DEF OutType, Tasks
      <4>3. QED BY <1>0, <4>1, <4>2, PrunedIs
    <3>3. CASE StepPasses(w) \/ SendSwallows(w) \/ SendReturns(w)
      <4>1. live' = PrunedTo(Now(w).at)
        BY <3>3, Zenon DEF StepPasses, SendSwallows, SendReturns, Advances
      <4>2. task[w].stage = "send" \/ (task[w].stage = "next" /\ task[w].steps # {})
        BY <3>3, Zenon DEF StepPasses, SendSwallows, SendReturns
      <4>3. Now(w).at \in Nat
        BY <1>0, <4>2, AtStep
      <4>4. QED BY <1>0, <4>1, <4>3, PrunedIs
    <3>4. QED BY <2>5, <3>1, <3>2, <3>3, Zenon DEF Working
  <2>6. QED BY <2>1, <2>2, <2>3, <2>4, <2>5, Zenon DEF Next, Agent, Outbound
<1>3. tail' \in Seq({"flush", "ack"})
  <2>1. CASE Connection
    <3>1. tail' = tail \/ Queued(FlushDue)
      BY <2>1, Zenon DEF Connection, Dialed, Opened, DialFails, StreamFails, StreamEnds, TimerFires,
           Sweep, Reconnect, outVars
    <3>2. QED BY <1>0, <1>a, <3>1, QueuedIs
  <2>2. CASE Inbound
    <3>1. tail' = tail \/ Queued(FlushDue) \/ Queued(<<>>) \/ Queued(<<"ack">>)
      BY <2>2, Zenon DEF Inbound, AdmitStarts, AgentAttached, AgentFails, AdmitFlushes, Receive,
           AdmitCoalesces, AdmitEnters, BusyAck, outVars
    <3>2. QED BY <1>0, <1>a, <3>1, QueuedIs
  <2>3. CASE Agent
    <3>1. tail' = tail \/ Queued(FlushDue) \/ Queued(<<>>)
      BY <2>3, Zenon DEF Agent, TurnStarts, TurnJoined, AgentSays, TurnEnds, GoesIdle, Replaced, Pushes, outVars
    <3>2. QED BY <1>0, <1>a, <3>1, QueuedIs
  <2>4. CASE Starts \/ TimesOut
    <3>1. tail' = tail \/ (tail # <<>> /\ tail' = Tail(tail))
      BY <2>4, Zenon DEF Starts, Acks, FlushSkips, FlushResets, FlushReads, Flushes, TailStarts, TimesOut
    <3>2. PICK q \in Seq({"flush", "ack"}) : q = tail
      BY <1>a
    <3>3. q # <<>> => Tail(q) \in Seq({"flush", "ack"})
      OBVIOUS
    <3>4. QED BY <3>1, <3>2, <3>3
  <2>5. ASSUME NEW w \in Slots, Working(w) PROVE tail' \in Seq({"flush", "ack"})
    BY <1>a, <2>5, WorkingKeeps
  <2>6. CASE SaveEnds
    <3>1. Queued(FlushDue) \/ Queued(<<>>)
      BY <2>6, Zenon DEF SaveEnds
    <3>2. QED BY <1>0, <1>a, <3>1, QueuedIs
  <2>7. CASE Stop \/ Crash \/ StopDone
    <3>1. tail' = tail \/ tail' = <<>>
      BY <2>7, Zenon DEF Stop, Crash, StopDone, Begins, outVars
    <3>2. QED BY <1>a, <3>1
  <2>8. QED BY <2>1, <2>2, <2>3, <2>4, <2>5, <2>6, <2>7, Zenon DEF Next, Outbound
<1>4. dropped' \in SUBSET Outs
  <2>1. CASE Connection \/ SaveEnds \/ Stop \/ Crash \/ StopDone
    BY <1>a, <2>1, ConnectionKeeps, SaveEndsKeeps, StopKeeps, CrashKeeps
  <2>2. CASE Inbound \/ Replaced \/ Starts \/ TimesOut
    <3>1. dropped' = dropped \/ dropped' = dropped \cup Unsent(Len(log))
      <4>1. CASE Inbound
        BY <4>1, Zenon DEF Inbound, AdmitStarts, AgentAttached, AgentFails, AdmitFlushes, Receive,
             AdmitCoalesces, AdmitEnters, histVars
      <4>2. CASE Replaced \/ Starts \/ TimesOut
        BY <4>2, Zenon DEF Replaced, Starts, Acks, FlushSkips, FlushResets, FlushReads, TimesOut, histVars
      <4>3. QED BY <2>2, <4>1, <4>2
    <3>2. QED BY <1>0, <1>a, <3>1, UnsentIs
  <2>3. CASE TurnStarts \/ TurnJoined \/ TurnEnds \/ GoesIdle
    <3>1. dropped' = dropped
      BY <2>3, Zenon DEF TurnStarts, TurnJoined, TurnEnds, GoesIdle, histVars
    <3>2. QED BY <1>a, <3>1
  <2>4. CASE AgentSays
    <3>1. outs < mode.outs /\ (dropped' = dropped \/ dropped' = dropped \cup {outs + 1})
      BY <2>4, Zenon DEF AgentSays
    <3>2. mode.outs \in 0..MaxOuts /\ outs \in 0..MaxOuts /\ MaxOuts \in Nat
      BY <1>0, Bounds DEF WorldType, LogType
    <3>3. outs + 1 \in Outs
      BY <3>1, <3>2 DEF Outs
    <3>4. QED BY <1>a, <3>1, <3>3
  <2>5. ASSUME NEW w \in Slots, Working(w) PROVE dropped' \in SUBSET Outs
    <3>1. CASE QueryAnswers(w) \/ FlushEnds(w) \/ StepSends(w) \/ StepOffline(w) \/ SendFails(w) \/ SendReturns(w)
      <4>1. dropped' = dropped
        BY <3>1, Zenon DEF QueryAnswers, FlushEnds, StepSends, StepOffline, SendFails, SendReturns, histVars
      <4>2. QED BY <1>a, <4>1
    <3>2. CASE QueryFails(w)
      <4>1. dropped' = dropped \cup Unsent(task[w].gap)
        BY <3>2, Zenon DEF QueryFails
      <4>2. QED BY <1>0, <1>a, <4>1, UnsentIs
    <3>3. CASE StepPasses(w) \/ SendSwallows(w)
      <4>1. dropped' = dropped \/ (Now(w).out # 0 /\ dropped' = dropped \cup {Now(w).out}) \/ (task[w].stage = "send" /\ dropped' = dropped \cup {Now(w).out})
        BY <3>3, Zenon DEF StepPasses, SendSwallows
      <4>2. task[w].stage = "send" \/ (task[w].stage = "next" /\ task[w].steps # {})
        BY <3>3, Zenon DEF StepPasses, SendSwallows
      <4>3. Now(w).out \in 0..MaxOuts /\ (task[w].stage = "send" => Now(w).out \in Outs)
        BY <1>0, <4>2, AtStep
      <4>4. Now(w).out # 0 => Now(w).out \in Outs
        BY <4>3, Sizes DEF Outs
      <4>5. QED BY <1>a, <4>1, <4>3, <4>4
    <3>4. QED BY <2>5, <3>1, <3>2, <3>3, Zenon DEF Working
  <2>6. QED BY <2>1, <2>2, <2>3, <2>4, <2>5, Zenon DEF Next, Agent, Outbound
<1>5. QED BY <1>1, <1>2, <1>3, <1>4 DEF OutType

-----------------------------------------------------------------------------
(* The inbox and the admission chain.                                       *)

LEMMA EntersIs ==
  ASSUME InboxType, NEW ms \in Seq(Msgs), ms # <<>>, NEW joins \in BOOLEAN, Enters(ms, joins)
  PROVE  InboxType'
<1>1. PICK n \in Nat : n = Len(ms)
  OBVIOUS
<1>2. n \in 1..n /\ ms[n] \in Msgs
  BY <1>1
<1>3. [msgs |-> ms, reply |-> ms[Len(ms)], joins |-> joins] \in Entry
  BY <1>1, <1>2, Sizes DEF Entry, Msgs
<1>4. inbox' = Append(inbox, [msgs |-> ms, reply |-> ms[Len(ms)], joins |-> joins])
  BY Zenon DEF Enters
<1>5. QED BY <1>3, <1>4 DEF InboxType

LEMMA InboxNext ==
  ASSUME LogType, LogFits, InboxType, ChainType, Next
  PROVE  InboxType'
<1>0. inbox \in Seq(Entry) /\ <<>> \in Seq(Entry) /\ coalesced \in Seq(Msgs)
  BY DEF InboxType, ChainType
<1>1. CASE Connection \/ Outbound \/ SaveEnds \/ Stop
  <2>1. inbox' = inbox
    BY <1>1, ConnectionKeeps, StartsKeep, WorkingKeeps, SaveEndsKeeps, StopKeeps DEF agentVars, Outbound
  <2>2. QED BY <1>0, <2>1 DEF InboxType
<1>2. CASE AdmitStarts \/ AgentFails \/ AdmitFlushes \/ \E m \in Msgs : Receive(m) \/ AdmitCoalesces(m)
  <2>1. inbox' = inbox
    BY <1>2, Zenon DEF AdmitStarts, AgentFails, AdmitFlushes, Receive, AdmitCoalesces, agentVars
  <2>2. QED BY <1>0, <2>1 DEF InboxType
<1>3. CASE AgentAttached
  <2>1. PICK S : S = {i \in 1..Len(log) : Unclaimed(i)}
    OBVIOUS
  <2>2. \/ inbox' = inbox
        \/ \E ps \in InOrder(S) :
             inbox' = [i \in DOMAIN ps |-> [msgs |-> log[ps[i]].msgs, reply |-> 0, joins |-> FALSE]]
    BY <1>3, <2>1, Zenon DEF AgentAttached
  <2>3. ASSUME NEW ps \in InOrder(S),
               inbox' = [i \in DOMAIN ps |-> [msgs |-> log[ps[i]].msgs, reply |-> 0, joins |-> FALSE]]
        PROVE  inbox' \in Seq(Entry)
    <3>1. Len(log) \in Nat /\ IsFiniteSet(1..Len(log))
      <4>1. Len(log) \in Nat
        BY DEF LogType
      <4>2. QED BY <4>1, FS_Interval
    <3>2. PICK n \in Nat : n = Cardinality(S)
      BY <2>1, <3>1, FS_Subset, FS_CardinalityType
    <3>3. ps \in [1..n -> S]
      BY <3>2 DEF InOrder
    <3>4. ASSUME NEW i \in 1..n
          PROVE  [msgs |-> log[ps[i]].msgs, reply |-> 0, joins |-> FALSE] \in Entry
      <4>1. ps[i] \in 1..Len(log) /\ Unclaimed(ps[i])
        BY <2>1, <3>3
      <4>2. log[ps[i]] \in Events /\ log[ps[i]].type = "in"
        <5>1. log[ps[i]] \in Events
          BY <4>1 DEF LogType
        <5>2. log[ps[i]].type = "in"
          BY <4>1, Zenon DEF Unclaimed
        <5>3. QED BY <5>1, <5>2
      <4>3. log[ps[i]].msgs \in Seq(Msgs) /\ log[ps[i]].msgs # <<>>
        BY <4>1, <4>2 DEF Events, LogFits
      <4>4. QED BY <4>3, Sizes DEF Entry
    <3>5. inbox' = [i \in 1..n |-> [msgs |-> log[ps[i]].msgs, reply |-> 0, joins |-> FALSE]]
      BY <2>3, <3>3
    <3>6. QED BY <3>4, <3>5
  <2>4. QED BY <1>0, <2>2, <2>3 DEF InboxType
<1>4. ASSUME NEW m \in Msgs, AdmitEnters(m) PROVE InboxType'
  <2>1. inbox' = inbox \/ Enters(<<m>>, agent = "running" /\ mode.busy = "steer")
    BY <1>4, Zenon DEF AdmitEnters
  <2>2. <<m>> \in Seq(Msgs) /\ <<m>> # <<>> /\ (agent = "running" /\ mode.busy = "steer") \in BOOLEAN
    OBVIOUS
  <2>3. CASE inbox' = inbox
    BY <1>0, <2>3 DEF InboxType
  <2>4. CASE Enters(<<m>>, agent = "running" /\ mode.busy = "steer")
    BY <2>2, <2>4, EntersIs
  <2>5. QED BY <2>1, <2>3, <2>4
<1>5. CASE TurnStarts
  <2>1. inbox' = inbox \/ (inbox # <<>> /\ inbox' = Tail(inbox))
    BY <1>5, Zenon DEF TurnStarts
  <2>2. PICK q \in Seq(Entry) : q = inbox
    BY <1>0
  <2>3. q # <<>> => Tail(q) \in Seq(Entry)
    OBVIOUS
  <2>4. QED BY <2>1, <2>2, <2>3 DEF InboxType
<1>6. CASE TurnJoined
  <2>1. PICK i \in DOMAIN inbox : inbox' = [j \in 1..(Len(inbox) - 1) |-> inbox[IF j < i THEN j ELSE j + 1]]
    BY <1>6, Zenon DEF TurnJoined
  <2>2. PICK q \in Seq(Entry), n \in Nat : q = inbox /\ n = Len(q)
    BY <1>0
  <2>3. i \in 1..n
    BY <2>2
  <2>4. n - 1 \in Nat /\ \A j \in 1..(n - 1) : q[IF j < i THEN j ELSE j + 1] \in Entry
    BY <2>2, <2>3
  <2>5. inbox' = [j \in 1..(n - 1) |-> q[IF j < i THEN j ELSE j + 1]]
    BY <2>1, <2>2
  <2>6. QED BY <2>4, <2>5 DEF InboxType
<1>7. CASE AgentSays \/ TurnEnds
  <2>1. inbox' = inbox
    BY <1>7, Zenon DEF AgentSays, TurnEnds
  <2>2. QED BY <1>0, <2>1 DEF InboxType
<1>8. CASE GoesIdle
  <2>1. inbox' = inbox \/ (coalesced # <<>> /\ Enters(coalesced, FALSE))
    BY <1>8, Zenon DEF GoesIdle
  <2>2. CASE inbox' = inbox
    BY <1>0, <2>2 DEF InboxType
  <2>3. CASE coalesced # <<>> /\ Enters(coalesced, FALSE)
    BY <1>0, <2>3, EntersIs
  <2>4. QED BY <2>1, <2>2, <2>3
<1>9. CASE Replaced \/ Crash \/ StopDone
  <2>1. inbox' = <<>>
    BY <1>9, Zenon DEF Replaced, Crash, StopDone, Begins
  <2>2. QED BY <1>0, <2>1 DEF InboxType
<1>10. QED
  BY <1>1, <1>2, <1>3, <1>4, <1>5, <1>6, <1>7, <1>8, <1>9, Zenon DEF Next, Inbound, Agent

(* What may happen to the chain: it stays, it grows by a message not seen,  *)
(* or it loses its head; and the buffer of what waits for an idle agent.     *)
ChainStep ==
  \/ UNCHANGED <<seen, admits, stage, coalesced>>
  \/ /\ stage # "none" /\ UNCHANGED <<seen, coalesced>>
     /\ \/ admits' = admits /\ stage' \in {"flush", "save", "write"}
        \/ admits' = Tail(admits) /\ stage' = "none"
  \/ /\ admits # <<>> /\ stage = "none" /\ stage' = "agent" /\ UNCHANGED <<seen, admits, coalesced>>
  \/ \E m \in Msgs \ seen : /\ seen' = seen \cup {m} /\ admits' = Append(admits, m)
                            /\ UNCHANGED <<stage, coalesced>>
  \/ /\ stage = "agent" /\ stage' \in {"save", "write"}
     /\ \E m \in Msgs : m = Head(admits) /\ coalesced' = Append(coalesced, m)
     /\ UNCHANGED <<seen, admits>>
  \/ coalesced' = <<>> /\ UNCHANGED <<seen, admits, stage>>
  \/ seen' = {} /\ coalesced' = <<>> /\ admits' = <<>> /\ stage' = "none"

LEMMA NextChain == ASSUME Next PROVE ChainStep
<1>1. CASE Connection \/ Outbound \/ Stop
  BY <1>1, ConnectionKeeps, StartsKeep, WorkingKeeps, StopKeeps DEF inVars, Outbound, ChainStep
<1>2. CASE AdmitStarts
  <2>1. admits # <<>> /\ stage = "none" /\ stage' = "agent" /\ UNCHANGED <<seen, admits, coalesced>>
    BY <1>2, Zenon DEF AdmitStarts
  <2>2. QED BY <2>1 DEF ChainStep
<1>3. CASE AgentAttached
  <2>1. UNCHANGED <<seen, admits, stage, coalesced>>
    BY <1>3, Zenon DEF AgentAttached, inVars
  <2>2. QED BY <2>1 DEF ChainStep
<1>4. CASE AgentFails
  <2>1. /\ UNCHANGED <<seen, coalesced>>
        /\ IF stage = "agent" THEN stage' = "none" /\ admits' = Tail(admits) ELSE UNCHANGED <<stage, admits>>
    BY <1>4, Zenon DEF AgentFails
  <2>2. QED BY <2>1 DEF ChainStep
<1>5. CASE AdmitFlushes
  <2>1. stage = "flush" /\ stage' = Waits /\ UNCHANGED <<seen, admits, coalesced>>
    BY <1>5, Zenon DEF AdmitFlushes
  <2>2. QED BY <2>1, StagesAre DEF ChainStep
<1>6. ASSUME NEW m \in Msgs, Receive(m) PROVE ChainStep
  <2>1. m \notin seen /\ seen' = seen \cup {m} /\ admits' = Append(admits, m) /\ UNCHANGED <<stage, coalesced>>
    BY <1>6, Zenon DEF Receive
  <2>2. QED BY <2>1 DEF ChainStep
<1>7. ASSUME NEW m \in Msgs, AdmitCoalesces(m) PROVE ChainStep
  <2>1. /\ stage = "agent" /\ m = Head(admits) /\ coalesced' = Append(coalesced, m)
        /\ stage' = Waits /\ UNCHANGED <<seen, admits>>
    BY <1>7, Zenon DEF AdmitCoalesces, Admitting
  <2>2. QED BY <2>1, StagesAre DEF ChainStep
<1>8. ASSUME NEW m \in Msgs, AdmitEnters(m) PROVE ChainStep
  <2>1. stage = "agent" /\ stage' = "flush" /\ UNCHANGED <<seen, admits, coalesced>>
    BY <1>8, Zenon DEF AdmitEnters, Admitting
  <2>2. QED BY <2>1 DEF ChainStep
<1>9. CASE TurnStarts \/ TurnJoined \/ AgentSays \/ TurnEnds \/ Replaced
  <2>1. UNCHANGED <<seen, admits, stage, coalesced>>
    BY <1>9, Zenon DEF TurnStarts, TurnJoined, AgentSays, TurnEnds, Replaced, inVars
  <2>2. QED BY <2>1 DEF ChainStep
<1>10. CASE GoesIdle
  <2>1. UNCHANGED <<seen, admits, stage>> /\ (coalesced' = coalesced \/ coalesced' = <<>>)
    BY <1>10, Zenon DEF GoesIdle
  <2>2. QED BY <2>1 DEF ChainStep
<1>11. CASE SaveEnds
  <2>1. /\ stage' = CASE stage = "write" -> "none" [] stage = "save" -> "write" [] OTHER -> stage
        /\ admits' = IF stage = "write" THEN Tail(admits) ELSE admits
        /\ UNCHANGED <<seen, coalesced>>
    BY <1>11, Zenon DEF SaveEnds
  <2>2. CASE stage = "write" \/ stage = "save"
    BY <2>1, <2>2 DEF ChainStep
  <2>3. CASE stage # "write" /\ stage # "save"
    BY <2>1, <2>3 DEF ChainStep
  <2>4. QED BY <2>2, <2>3
<1>12. CASE Crash \/ StopDone
  <2>1. seen' = {} /\ coalesced' = <<>> /\ admits' = <<>> /\ stage' = "none"
    BY <1>12, Zenon DEF Crash, StopDone, Begins
  <2>2. QED BY <2>1 DEF ChainStep
<1>13. QED
  BY <1>1, <1>2, <1>3, <1>4, <1>5, <1>6, <1>7, <1>8, <1>9, <1>10, <1>11, <1>12, Zenon DEF Next, Inbound, Agent

(* Messages are admitted one by one: none is in the chain twice, nor in the *)
(* buffer twice; all were seen; only the head, which has been admitted, can  *)
(* be in both.                                                              *)
Among(s, m) == \E i \in 1..Len(s) : s[i] = m
ChainFits ==
  /\ \A i, j \in 1..Len(admits) : admits[i] = admits[j] => i = j
  /\ \A i, j \in 1..Len(coalesced) : coalesced[i] = coalesced[j] => i = j
  /\ \A m \in Msgs : Among(admits, m) \/ Among(coalesced, m) => m \in seen
  /\ \A i \in 1..Len(admits) : Among(coalesced, admits[i]) => i = 1 /\ stage \in {"flush", "save", "write"}

LEMMA AppendIs ==
  ASSUME NEW S, NEW s \in Seq(S), NEW x \in S
  PROVE  /\ Append(s, x) \in Seq(S) /\ Len(Append(s, x)) = Len(s) + 1 /\ Append(s, x)[Len(s) + 1] = x
         /\ \A i \in 1..Len(s) : Append(s, x)[i] = s[i]
         /\ Len(s) \in Nat /\ \A i \in 1..(Len(s) + 1) : i = Len(s) + 1 \/ i \in 1..Len(s)
OBVIOUS

LEMMA TailIs ==
  ASSUME NEW S, NEW s \in Seq(S), s # <<>>
  PROVE  /\ Tail(s) \in Seq(S) /\ Len(Tail(s)) = Len(s) - 1 /\ Len(s) \in Nat /\ Len(s) # 0
         /\ \A i \in 1..(Len(s) - 1) : Tail(s)[i] = s[i + 1] /\ i + 1 \in 1..Len(s)
         /\ Head(s) = s[1] /\ 1 \in 1..Len(s) /\ Head(s) \in S
OBVIOUS

ChainInv == ChainType /\ seen \in SUBSET Msgs /\ stage \in Stages /\ AdmitFits /\ ChainFits

LEMMA ChainNext == ASSUME ChainInv, ChainStep PROVE ChainInv'
<1>0. /\ coalesced \in Seq(Msgs) /\ admits \in Seq(Msgs) /\ seen \in SUBSET Msgs /\ stage \in Stages
      /\ <<>> \in Seq(Msgs) /\ Len(<<>>) = 0
  BY DEF ChainInv, ChainType
<1>a. \A x \in {"none", "agent", "flush", "save", "write"} : x \in Stages
  BY DEF Stages
<1>1. CASE UNCHANGED <<seen, admits, stage, coalesced>>
  BY <1>1 DEF ChainInv, ChainType, AdmitFits, ChainFits, Among
<1>2. CASE stage # "none" /\ UNCHANGED <<seen, coalesced>> /\ admits' = admits /\ stage' \in {"flush", "save", "write"}
  <2>1. stage' \in Stages
    BY <1>2, <1>a
  <2>2. AdmitFits' /\ ChainType'
    BY <1>0, <1>2 DEF ChainInv, AdmitFits, ChainType
  <2>3. ChainFits'
    BY <1>2 DEF ChainInv, ChainFits, Among
  <2>4. QED BY <1>0, <1>2, <2>1, <2>2, <2>3 DEF ChainInv
<1>3. CASE stage # "none" /\ UNCHANGED <<seen, coalesced>> /\ admits' = Tail(admits) /\ stage' = "none"
  <2>1. admits # <<>>
    BY <1>3 DEF ChainInv, AdmitFits
  <2>2. PICK a \in Seq(Msgs), n \in Nat : a = admits /\ n = Len(a)
    BY <1>0
  <2>3. /\ admits' \in Seq(Msgs) /\ Len(admits') = n - 1
        /\ \A i \in 1..(n - 1) : admits'[i] = a[i + 1] /\ i + 1 \in 1..n
    BY <1>3, <2>1, <2>2, TailIs
  <2>4. AdmitFits' /\ ChainType' /\ stage' \in Stages /\ seen' \in SUBSET Msgs
    BY <1>0, <1>3, <1>a, <2>3 DEF AdmitFits, ChainType
  <2>5. \A i, j \in 1..Len(admits') : admits'[i] = admits'[j] => i = j
    <3>1. \A i, j \in 1..n : a[i] = a[j] => i = j
      BY <2>2 DEF ChainInv, ChainFits
    <3>2. QED BY <2>2, <2>3, <3>1
  <2>6. \A m \in Msgs : Among(admits', m) => Among(admits, m)
    BY <2>2, <2>3 DEF Among
  <2>7. \A m : Among(coalesced', m) <=> Among(coalesced, m)
    BY <1>3 DEF Among
  <2>8. ASSUME NEW i \in 1..Len(admits'), Among(coalesced', admits'[i]) PROVE FALSE
    <3>1. i \in 1..(n - 1) /\ admits'[i] = a[i + 1] /\ i + 1 \in 1..n /\ i + 1 # 1
      BY <2>2, <2>3
    <3>2. Among(coalesced, a[i + 1])
      BY <2>7, <2>8, <3>1
    <3>3. QED BY <2>2, <3>1, <3>2 DEF ChainInv, ChainFits
  <2>9. ChainFits'
    <3>1. \A i, j \in 1..Len(coalesced') : coalesced'[i] = coalesced'[j] => i = j
      BY <1>3 DEF ChainInv, ChainFits
    <3>2. \A m \in Msgs : Among(admits', m) \/ Among(coalesced', m) => m \in seen'
      BY <1>3, <2>6, <2>7 DEF ChainInv, ChainFits
    <3>3. QED BY <2>5, <2>8, <3>1, <3>2 DEF ChainFits
  <2>10. QED BY <2>4, <2>9 DEF ChainInv
<1>4. CASE admits # <<>> /\ stage = "none" /\ stage' = "agent" /\ UNCHANGED <<seen, admits, coalesced>>
  <2>1. stage' \in Stages /\ AdmitFits' /\ ChainType'
    BY <1>0, <1>4, <1>a DEF AdmitFits, ChainType
  <2>2. ChainFits'
    BY <1>4 DEF ChainInv, ChainFits, Among
  <2>3. QED BY <1>0, <1>4, <2>1, <2>2 DEF ChainInv
<1>5. ASSUME NEW m \in Msgs \ seen, seen' = seen \cup {m}, admits' = Append(admits, m),
             UNCHANGED <<stage, coalesced>>
      PROVE  ChainInv'
  <2>2. PICK a \in Seq(Msgs), n \in Nat : a = admits /\ n = Len(a)
    BY <1>0
  <2>3. /\ admits' \in Seq(Msgs) /\ Len(admits') = n + 1 /\ admits'[n + 1] = m
        /\ \A i \in 1..n : admits'[i] = a[i]
        /\ \A i \in 1..(n + 1) : i = n + 1 \/ i \in 1..n
    BY <1>5, <2>2, AppendIs
  <2>4. AdmitFits' /\ ChainType' /\ stage' \in Stages /\ seen' \in SUBSET Msgs
    <3>1. admits' # <<>>
      BY <2>3
    <3>2. QED BY <1>0, <1>5, <2>3, <3>1 DEF AdmitFits, ChainType
  <2>5. ~Among(admits, m) /\ ~Among(coalesced, m)
    BY <1>5 DEF ChainInv, ChainFits
  <2>6. \A i, j \in 1..Len(admits') : admits'[i] = admits'[j] => i = j
    <3>1. \A i, j \in 1..n : a[i] = a[j] => i = j
      BY <2>2 DEF ChainInv, ChainFits
    <3>2. \A i \in 1..n : a[i] # m
      BY <2>2, <2>5 DEF Among
    <3>3. QED BY <2>3, <3>1, <3>2
  <2>7. \A x \in Msgs : Among(admits', x) => x = m \/ Among(admits, x)
    BY <2>2, <2>3 DEF Among
  <2>8. \A x : Among(coalesced', x) <=> Among(coalesced, x)
    BY <1>5 DEF Among
  <2>9. ASSUME NEW i \in 1..Len(admits'), Among(coalesced', admits'[i])
        PROVE  i = 1 /\ stage' \in {"flush", "save", "write"}
    <3>1. i # n + 1
      BY <2>3, <2>5, <2>8, <2>9
    <3>2. i \in 1..n /\ admits'[i] = a[i]
      BY <2>3, <3>1
    <3>3. QED BY <1>5, <2>2, <2>8, <2>9, <3>2 DEF ChainInv, ChainFits
  <2>10. ChainFits'
    <3>1. \A i, j \in 1..Len(coalesced') : coalesced'[i] = coalesced'[j] => i = j
      BY <1>5 DEF ChainInv, ChainFits
    <3>2. \A x \in Msgs : Among(admits', x) \/ Among(coalesced', x) => x \in seen'
      BY <1>5, <2>7, <2>8 DEF ChainInv, ChainFits
    <3>3. QED BY <2>6, <2>9, <3>1, <3>2 DEF ChainFits
  <2>11. QED BY <2>4, <2>10 DEF ChainInv
<1>6. ASSUME NEW m \in Msgs, stage = "agent", stage' \in {"save", "write"}, m = Head(admits),
             coalesced' = Append(coalesced, m), UNCHANGED <<seen, admits>>
      PROVE  ChainInv'
  <2>1. admits # <<>>
    BY <1>6 DEF ChainInv, AdmitFits
  <2>2. PICK c \in Seq(Msgs), n \in Nat : c = coalesced /\ n = Len(c)
    BY <1>0
  <2>3. /\ coalesced' \in Seq(Msgs) /\ Len(coalesced') = n + 1 /\ coalesced'[n + 1] = m
        /\ \A i \in 1..n : coalesced'[i] = c[i]
        /\ \A i \in 1..(n + 1) : i = n + 1 \/ i \in 1..n
    BY <1>6, <2>2, AppendIs
  <2>4. m = admits[1] /\ 1 \in 1..Len(admits)
    BY <1>0, <1>6, <2>1, TailIs
  <2>5. ~Among(coalesced, m)
    BY <1>6, <2>4 DEF ChainInv, ChainFits
  <2>6. AdmitFits' /\ ChainType' /\ stage' \in Stages /\ seen' \in SUBSET Msgs
    BY <1>0, <1>6, <1>a, <2>1, <2>3 DEF AdmitFits, ChainType
  <2>7. \A i, j \in 1..Len(coalesced') : coalesced'[i] = coalesced'[j] => i = j
    <3>1. \A i, j \in 1..n : c[i] = c[j] => i = j
      BY <2>2 DEF ChainInv, ChainFits
    <3>2. \A i \in 1..n : c[i] # m
      BY <2>2, <2>5 DEF Among
    <3>3. QED BY <2>3, <3>1, <3>2
  <2>8. \A x : Among(coalesced', x) => x = m \/ Among(coalesced, x)
    BY <2>2, <2>3 DEF Among
  <2>9. \A x : Among(admits', x) <=> Among(admits, x)
    BY <1>6 DEF Among
  <2>10. Among(admits, m)
    BY <2>4 DEF Among
  <2>11. ASSUME NEW i \in 1..Len(admits'), Among(coalesced', admits'[i])
         PROVE  i = 1 /\ stage' \in {"flush", "save", "write"}
    <3>1. i \in 1..Len(admits) /\ admits'[i] = admits[i]
      BY <1>6
    <3>2. CASE admits[i] = m
      BY <1>6, <2>4, <3>1, <3>2 DEF ChainInv, ChainFits
    <3>3. CASE Among(coalesced, admits[i])
      BY <1>6, <3>1, <3>3 DEF ChainInv, ChainFits
    <3>4. QED BY <2>8, <2>11, <3>1, <3>2, <3>3
  <2>12. ChainFits'
    <3>1. \A i, j \in 1..Len(admits') : admits'[i] = admits'[j] => i = j
      BY <1>6 DEF ChainInv, ChainFits
    <3>2. \A x \in Msgs : Among(admits', x) \/ Among(coalesced', x) => x \in seen'
      BY <1>6, <2>8, <2>9, <2>10 DEF ChainInv, ChainFits
    <3>3. QED BY <2>7, <2>11, <3>1, <3>2 DEF ChainFits
  <2>13. QED BY <2>6, <2>12 DEF ChainInv
<1>7. CASE coalesced' = <<>> /\ UNCHANGED <<seen, admits, stage>>
  <2>1. AdmitFits' /\ ChainType' /\ stage' \in Stages /\ seen' \in SUBSET Msgs
    BY <1>0, <1>7 DEF ChainInv, AdmitFits, ChainType
  <2>2. \A x : ~Among(coalesced', x)
    BY <1>7 DEF Among
  <2>3. \A x : Among(admits', x) <=> Among(admits, x)
    BY <1>7 DEF Among
  <2>4. ChainFits'
    <3>1. \A i, j \in 1..Len(admits') : admits'[i] = admits'[j] => i = j
      BY <1>7 DEF ChainInv, ChainFits
    <3>2. \A i, j \in 1..Len(coalesced') : coalesced'[i] = coalesced'[j] => i = j
      BY <1>7
    <3>3. \A x \in Msgs : Among(admits', x) \/ Among(coalesced', x) => x \in seen'
      BY <1>7, <2>2, <2>3 DEF ChainInv, ChainFits
    <3>4. QED BY <2>2, <3>1, <3>2, <3>3 DEF ChainFits
  <2>5. QED BY <2>1, <2>4 DEF ChainInv
<1>8. CASE seen' = {} /\ coalesced' = <<>> /\ admits' = <<>> /\ stage' = "none"
  <2>1. AdmitFits' /\ ChainType' /\ stage' \in Stages /\ seen' \in SUBSET Msgs
    BY <1>0, <1>8, <1>a DEF AdmitFits, ChainType
  <2>2. ChainFits'
    BY <1>8 DEF ChainFits, Among
  <2>3. QED BY <2>1, <2>2 DEF ChainInv
<1>9. QED BY <1>1, <1>2, <1>3, <1>4, <1>5, <1>6, <1>7, <1>8 DEF ChainInv, ChainStep

BaseInv == TypeOK /\ LogFits /\ AdmitFits /\ StepsFit /\ ChainFits

(* A message the inbox answers is a message.                                *)
LEMMA InboundNext ==
  ASSUME BaseInv, Next
  PROVE  turnInbound' \in [Turns -> 0..MaxMsgs] /\ acked' \in BOOLEAN
<1>0. /\ WorldType /\ LogType /\ ConnType /\ InType /\ HistType /\ SaveType /\ OutType /\ InboxType
      /\ turnInbound \in [Turns -> 0..MaxMsgs] /\ acked \in BOOLEAN /\ StepsFit
      /\ 0 \in 0..MaxMsgs
  BY TypeParts, Sizes DEF BaseInv, InType
<1>1. turnInbound' \in [Turns -> 0..MaxMsgs]
  <2>0. ASSUME NEW t, NEW x \in 0..MaxMsgs, turnInbound' = [turnInbound EXCEPT ![t] = x]
        PROVE  turnInbound' \in [Turns -> 0..MaxMsgs]
    BY <1>0, <2>0, Zenon
  <2>1. CASE Connection \/ Inbound \/ SaveEnds \/ Stop \/ Starts \/ TimesOut
    BY <1>0, <2>1, ConnectionKeeps, InboundKeeps, SaveEndsKeeps, StopKeeps, StartsKeep DEF inVars
  <2>2. CASE TurnStarts
    <3>1. \/ turnInbound' = turnInbound
          \/ inbox # <<>> /\ turnInbound' = [turnInbound EXCEPT ![turns + 1] = Head(inbox).reply]
      BY <2>2, Zenon DEF TurnStarts
    <3>2. PICK q \in Seq(Entry) : q = inbox
      BY <1>0 DEF InboxType
    <3>3. q # <<>> => Head(q) \in Entry
      BY TailIs
    <3>4. q # <<>> => Head(q).reply \in 0..MaxMsgs
      BY <3>3 DEF Entry
    <3>5. QED BY <1>0, <2>0, <3>1, <3>2, <3>4
  <2>3. CASE TurnJoined
    <3>1. PICK i \in DOMAIN inbox : turnInbound' = [turnInbound EXCEPT ![turn] =
                                       IF inbox[i].reply = 0 THEN turnInbound[turn] ELSE inbox[i].reply]
      BY <2>3, Zenon DEF TurnJoined
    <3>2. inbox[i].reply \in 0..MaxMsgs
      BY <1>0, InboxMsgs
    <3>3. CASE turn \in Turns
      <4>1. turnInbound[turn] \in 0..MaxMsgs
        BY <1>0, <3>3
      <4>2. QED BY <2>0, <3>1, <3>2, <4>1
    <3>4. CASE turn \notin Turns
      BY <1>0, <3>1, <3>4, Zenon
    <3>5. QED BY <3>3, <3>4
  <2>4. CASE AgentSays \/ TurnEnds \/ GoesIdle \/ Replaced
    <3>1. turnInbound' = turnInbound
      BY <2>4, Zenon DEF AgentSays, TurnEnds, GoesIdle, Replaced, inVars
    <3>2. QED BY <1>0, <3>1
  <2>5. ASSUME NEW w \in Slots, Working(w) PROVE turnInbound' \in [Turns -> 0..MaxMsgs]
    <3>1. \/ turnInbound' = turnInbound
          \/ turnInbound' = [turnInbound EXCEPT ![Now(w).turn] = 0]
      <4>1. CASE QueryAnswers(w) \/ FlushEnds(w) \/ StepPasses(w) \/ StepSends(w) \/ StepOffline(w)
        BY <4>1, Zenon DEF QueryAnswers, FlushEnds, StepPasses, StepSends, StepOffline, Settles, inVars
      <4>2. CASE SendReturns(w) \/ QueryFails(w) \/ SendSwallows(w) \/ SendFails(w)
        BY <4>2, Zenon DEF SendReturns, QueryFails, SendSwallows, SendFails, Settles, inVars
      <4>3. QED BY <2>5, <4>1, <4>2, Zenon DEF Working
    <3>2. QED BY <1>0, <2>0, <3>1
  <2>6. CASE Crash \/ StopDone
    <3>1. turnInbound' = [t \in Turns |-> 0]
      BY <2>6, Zenon DEF Crash, StopDone, Begins
    <3>2. QED BY <1>0, <3>1
  <2>7. QED BY <2>1, <2>2, <2>3, <2>4, <2>5, <2>6, Zenon DEF Next, Agent, Outbound
<1>2. acked' \in BOOLEAN
  <2>1. acked' = acked \/ acked' = TRUE \/ acked' = FALSE
    <3>1. CASE Connection \/ Outbound \/ SaveEnds \/ Stop
      BY <3>1, ConnectionKeeps, StartsKeep, WorkingKeeps, SaveEndsKeeps, StopKeeps DEF inVars, Outbound
    <3>2. CASE Inbound
      BY <3>2, Zenon DEF Inbound, AdmitStarts, AgentAttached, AgentFails, AdmitFlushes, Receive,
           AdmitCoalesces, AdmitEnters, BusyAck, inVars
    <3>3. CASE Agent \/ Crash \/ StopDone
      BY <3>3, Zenon DEF Agent, TurnStarts, TurnJoined, AgentSays, TurnEnds, GoesIdle, Replaced,
           Crash, StopDone, Begins, inVars
    <3>4. QED BY <3>1, <3>2, <3>3, Zenon DEF Next
  <2>2. QED BY <1>0, <2>1
<1>3. QED BY <1>1, <1>2

(* History: what is counted per message.                                    *)
Adds(ms, m) == IF \E i \in DOMAIN ms : ms[i] = m THEN 1 ELSE 0

LEMMA HistNext ==
  ASSUME BaseInv, Next
  PROVE  HistType'
<1>0. /\ WorldType /\ LogType /\ ConnType /\ InType /\ HistType /\ SaveType /\ OutType
      /\ entered \in [Msgs -> Nat] /\ redo \in [Msgs -> Nat] /\ unlogged \in SUBSET Msgs
  BY TypeParts DEF BaseInv, HistType
<1>1. entered' \in [Msgs -> Nat]
  <2>1. entered' = entered \/ \E ms : entered' = [m \in Msgs |-> entered[m] + Adds(ms, m)]
    <3>1. CASE Connection \/ Outbound \/ SaveEnds \/ Stop \/ Crash \/ StopDone
      BY <3>1, ConnectionKeeps, StartsKeep, WorkingKeeps, SaveEndsKeeps, StopKeeps, CrashKeeps DEF Outbound
    <3>2. CASE AdmitStarts \/ AgentAttached \/ AgentFails \/ AdmitFlushes \/ \E m \in Msgs : Receive(m) \/ AdmitCoalesces(m)
      BY <3>2, Zenon DEF AdmitStarts, AgentAttached, AgentFails, AdmitFlushes, Receive, AdmitCoalesces, histVars
    <3>3. CASE GoesIdle \/ \E m \in Msgs : AdmitEnters(m)
      BY <3>3, Zenon DEF GoesIdle, AdmitEnters, Enters, Adds
    <3>4. CASE TurnStarts \/ TurnJoined \/ AgentSays \/ TurnEnds \/ Replaced
      BY <3>4, Zenon DEF TurnStarts, TurnJoined, AgentSays, TurnEnds, Replaced, histVars
    <3>5. QED BY <3>1, <3>2, <3>3, <3>4, Zenon DEF Next, Inbound, Agent
  <2>2. \A ms, m : Adds(ms, m) \in Nat
    BY DEF Adds
  <2>3. \A ms : [m \in Msgs |-> entered[m] + Adds(ms, m)] \in [Msgs -> Nat]
    BY <1>0, <2>2
  <2>4. QED BY <1>0, <2>1, <2>3
<1>2. redo' \in [Msgs -> Nat]
  <2>1. \/ redo' = redo
        \/ \E e : redo' = [m \in Msgs |-> redo[m] + IF e[m] = 0 /\ entered[m] > redo[m] THEN 1 ELSE 0]
    <3>1. CASE Connection \/ Inbound \/ Agent \/ Outbound \/ SaveEnds \/ Stop
      BY <3>1, ConnectionKeeps, InboundKeeps, AgentKeeps, StartsKeep, WorkingKeeps, SaveEndsKeeps, StopKeeps
         DEF Outbound
    <3>2. CASE Crash \/ StopDone
      <4>1. \E f : Begins(f)
        BY <3>2, Zenon DEF Crash, StopDone
      <4>2. PICK f : redo' = [m \in Msgs |-> redo[m] + IF f.entries[m] = 0 /\ entered[m] > redo[m] THEN 1 ELSE 0]
        BY <4>1, Zenon DEF Begins
      <4>3. QED BY <4>2, Zenon
    <3>3. QED BY <3>1, <3>2, Zenon DEF Next
  <2>2. \A e : [m \in Msgs |-> redo[m] + IF e[m] = 0 /\ entered[m] > redo[m] THEN 1 ELSE 0] \in [Msgs -> Nat]
    BY <1>0
  <2>3. QED BY <1>0, <2>1, <2>2
<1>3. unlogged' \in SUBSET Msgs
  <2>1. CASE Connection \/ Outbound \/ SaveEnds \/ Stop \/ Crash \/ StopDone
    BY <1>0, <2>1, ConnectionKeeps, StartsKeep, WorkingKeeps, SaveEndsKeeps, StopKeeps, CrashKeeps DEF Outbound
  <2>2. CASE AdmitStarts \/ AgentAttached \/ AgentFails \/ \E m \in Msgs : Receive(m)
    <3>1. unlogged' = unlogged
      BY <2>2, Zenon DEF AdmitStarts, AgentAttached, AgentFails, Receive, histVars
    <3>2. QED BY <1>0, <3>1
  <2>3. ASSUME NEW m \in Msgs, AdmitCoalesces(m) \/ AdmitEnters(m) PROVE unlogged' \in SUBSET Msgs
    <3>1. unlogged' = unlogged \/ unlogged' = unlogged \cup {m}
      BY <2>3, Zenon DEF AdmitCoalesces, AdmitEnters
    <3>2. QED BY <1>0, <3>1
  <2>4. CASE AdmitFlushes
    <3>1. stage = "flush" /\ (unlogged' = unlogged \/ unlogged' = unlogged \cup {Head(admits)})
      BY <2>4, Zenon DEF AdmitFlushes
    <3>2. admits \in Seq(Msgs) /\ admits # <<>>
      BY <1>0, <3>1 DEF BaseInv, AdmitFits, InType, ChainType
    <3>3. Head(admits) \in Msgs
      BY <3>2
    <3>4. QED BY <1>0, <3>1, <3>3
  <2>5. CASE Agent
    <3>1. unlogged' = unlogged \/ unlogged' = Msgs
      BY <2>5, Zenon DEF Agent, TurnStarts, TurnJoined, AgentSays, TurnEnds, GoesIdle, Replaced, histVars
    <3>2. QED BY <1>0, <3>1
  <2>6. QED BY <2>1, <2>2, <2>3, <2>4, <2>5, Zenon DEF Next, Inbound
<1>4. QED BY <1>1, <1>2, <1>3 DEF HistType

LEMMA BaseInit == Init => BaseInv
<1> SUFFICES ASSUME Init PROVE BaseInv
  OBVIOUS
<1>1. /\ mode \in Modes
      /\ file = Nothing /\ log = <<>> /\ flushed = 0
      /\ delivered = [o \in Outs |-> 0]
      /\ agent = "none" /\ inbox = <<>> /\ turn = 0 /\ turns = 0 /\ outs = 0
      /\ conn = "dialing" /\ attempts = 0 /\ handle = "none" /\ resuming = FALSE
      /\ outbox = Nothing.entries /\ cursor = NoCursor
  BY Zenon DEF Init
<1>2. /\ seen = {} /\ turnInbound = [t \in Turns |-> 0] /\ acked = FALSE
      /\ coalesced = <<>> /\ admits = <<>> /\ stage = "none"
      /\ live = [from |-> 0, cut |-> 0] /\ tail = <<>> /\ task = [w \in Slots |-> NoTask]
      /\ pending = FALSE /\ writing = Nothing
      /\ faults = 0 /\ entered = [m \in Msgs |-> 0] /\ redo = [m \in Msgs |-> 0]
      /\ unlogged = {} /\ dropped = {} /\ doubts = 0
  BY Zenon DEF Init
<1>3. /\ mode.budget \in Nat /\ <<>> \in Seq(Events) /\ <<>> \in Seq(Entry) /\ <<>> \in Seq(Msgs)
      /\ <<>> \in Seq({"flush", "ack"})
  BY <1>1, Bounds
<1>4. WorldType
  <2>1. Len(log) = 0 /\ flushed \in 0..Len(log)
    BY <1>1
  <2>2. delivered \in [Outs -> Nat]
    BY <1>1
  <2>3. faults \in 0..mode.budget /\ doubts \in Nat
    BY <1>2, <1>3
  <2>4. QED BY <1>1, <2>1, <2>2, <2>3 DEF WorldType
<1>5. LogType /\ ConnType
  <2>1. LogType
    BY <1>1, <1>3, Sizes DEF LogType
  <2>2. ConnType
    BY <1>1 DEF ConnType
  <2>3. QED BY <2>1, <2>2
<1>6. InType
  <2>1. ChainType /\ InboxType
    BY <1>1, <1>2, <1>3, Zenon DEF ChainType, InboxType
  <2>2. turnInbound \in [Turns -> 0..MaxMsgs]
    BY <1>2, Sizes
  <2>3. stage \in Stages /\ seen \in SUBSET Msgs /\ acked \in BOOLEAN
    BY <1>2 DEF Stages
  <2>4. QED BY <2>1, <2>2, <2>3 DEF InType
<1>7. HistType
  BY <1>2 DEF HistType
<1>8. SaveType
  <2>1. outbox \in [Msgs -> 0..Accepted]
    BY <1>1, NothingIs, Sizes DEF Accepted
  <2>2. QED BY <1>1, <1>2, <2>1, NothingIs DEF SaveType
<1>9. OutType
  BY <1>2, <1>3, NoTaskIs DEF OutType
<1>10. LogFits /\ AdmitFits /\ ChainFits
  BY <1>1, <1>2 DEF LogFits, AdmitFits, ChainFits, Among
<1>11. StepsFit
  <2>1. \A w \in Slots : task[w].steps = {} /\ task[w].stage = "none"
    BY <1>2, NoTaskIs
  <2>2. QED BY <2>1 DEF StepsFit
<1>12. QED BY <1>4, <1>5, <1>6, <1>7, <1>8, <1>9, <1>10, <1>11, TypeParts DEF BaseInv

LEMMA BaseNext == ASSUME BaseInv, [Next]_vars PROVE BaseInv'
<1>0. /\ TypeOK /\ WorldType /\ LogType /\ ConnType /\ InType /\ HistType /\ SaveType /\ OutType
      /\ LogFits /\ AdmitFits /\ StepsFit /\ ChainFits
      /\ ChainType /\ InboxType /\ ChainInv
  BY TypeParts DEF BaseInv, InType, ChainInv
<1>1. CASE Next
  <2>1. WorldType' /\ ConnType' /\ SaveType' /\ OutType' /\ HistType' /\ InboxType' /\ ChainInv'
    BY <1>0, <1>1, WorldNext, ConnNext, SaveNext, OutNext, HistNext, InboxNext, NextChain, ChainNext
  <2>2. LogType' /\ LogFits'
    BY <1>0, <1>1, NextLog, LogGoesOn DEF WorldType
  <2>3. StepsFit'
    BY <1>0, <1>1, TaskNext DEF SaveType
  <2>4. InType'
    BY <1>1, <2>1, InboundNext DEF InType, ChainInv
  <2>5. TypeOK' <=> (WorldType /\ LogType /\ ConnType /\ InType /\ HistType /\ SaveType /\ OutType)'
    BY TypeParts, PTL
  <2>6. QED BY <2>1, <2>2, <2>3, <2>4, <2>5 DEF BaseInv, ChainInv
<1>2. CASE UNCHANGED vars
  <2>1. /\ TypeOK' = TypeOK /\ LogFits' = LogFits /\ AdmitFits' = AdmitFits /\ StepsFit' = StepsFit
        /\ ChainFits' = ChainFits
    <3>1. /\ UNCHANGED <<worldVars, agentVars, connVars, inVars, outVars, saveVars, histVars, outbox, cursor>>
      BY <1>2 DEF vars
    <3>2. TypeOK' = TypeOK
      BY <3>1, Zenon DEF TypeOK, worldVars, agentVars, connVars, inVars, outVars, saveVars, histVars
    <3>3. LogFits' = LogFits /\ AdmitFits' = AdmitFits /\ ChainFits' = ChainFits
      <4>1. log' = log /\ turn' = turn /\ turns' = turns /\ outs' = outs
        BY <3>1, Zenon DEF worldVars, agentVars
      <4>2. coalesced' = coalesced /\ admits' = admits /\ stage' = stage /\ seen' = seen
        BY <3>1, Zenon DEF inVars
      <4>3. LogFits' = LogFits
        BY <4>1 DEF LogFits
      <4>4. AdmitFits' = AdmitFits
        BY <4>2 DEF AdmitFits
      <4>5. ChainFits' = ChainFits
        BY <4>2 DEF ChainFits, Among
      <4>6. QED BY <4>3, <4>4, <4>5
    <3>4. StepsFit' = StepsFit
      <4>1. task' = task
        BY <3>1, Zenon DEF outVars
      <4>2. QED BY <4>1 DEF StepsFit, Now
    <3>5. QED BY <3>2, <3>3, <3>4
  <2>2. QED BY <1>0, <2>1 DEF BaseInv
<1>3. QED BY <1>1, <1>2

(* The variables keep their types, the log its order, the tasks their steps *)
(* and the admission chain its messages, one entry each.                    *)
THEOREM TypeCorrect == Spec => []TypeOK
<1>1. Init => BaseInv
  BY BaseInit
<1>2. BaseInv /\ [Next]_vars => BaseInv'
  BY BaseNext
<1>3. BaseInv => TypeOK
  BY DEF BaseInv
<1>4. QED BY <1>1, <1>2, <1>3, PTL DEF Spec

-----------------------------------------------------------------------------
(* What arrives is taken in once.                                           *)

(* A message that has yet to enter the inbox: it is buffered, or it is in   *)
(* the chain and not past its admission.                                    *)
ToEnter(m) ==
  \/ Among(coalesced, m)
  \/ \E i \in 1..Len(admits) : admits[i] = m /\ (i = 1 => stage \in {"none", "agent"})
EnterFits ==
  \A m \in Msgs :
    /\ entered[m] <= 1 + redo[m]
    /\ ToEnter(m) \/ (outbox[m] = 0 /\ m \notin seen) => entered[m] <= redo[m]

(* Nothing enters, and what is to enter was to.                             *)
LEMMA NoneEnters ==
  ASSUME EnterFits, entered' = entered, redo' = redo,
         \A m \in Msgs : ToEnter(m)' => ToEnter(m) \/ (outbox[m] = 0 /\ m \notin seen),
         \A m \in Msgs : outbox'[m] = 0 /\ m \notin seen' => outbox[m] = 0 /\ m \notin seen
  PROVE  EnterFits'
BY Zenon DEF EnterFits

LEMMA SameChain ==
  ASSUME UNCHANGED <<coalesced, admits>>, stage' = stage \/ stage' \notin {"none", "agent"} \/ stage \in {"none", "agent"},
         NEW m
  PROVE  ToEnter(m)' => ToEnter(m)
BY DEF ToEnter, Among

(* The messages that enter were to, and no longer are.                      *)
LEMMA SomeEnter ==
  ASSUME EnterFits, HistType, NEW ms, entered' = [m \in Msgs |-> entered[m] + Adds(ms, m)], redo' = redo,
         \A m \in Msgs : Adds(ms, m) = 1 => ToEnter(m) /\ ~ToEnter(m)' /\ m \in seen',
         \A m \in Msgs : ToEnter(m)' => ToEnter(m),
         \A m \in Msgs : outbox'[m] = 0 /\ m \notin seen' => outbox[m] = 0 /\ m \notin seen
  PROVE  EnterFits'
<1>1. SUFFICES ASSUME NEW m \in Msgs
               PROVE  /\ entered'[m] <= 1 + redo'[m]
                      /\ ToEnter(m)' \/ (outbox'[m] = 0 /\ m \notin seen') => entered'[m] <= redo'[m]
  BY DEF EnterFits
<1>2. entered'[m] = entered[m] + Adds(ms, m) /\ Adds(ms, m) \in {0, 1} /\ entered[m] \in Nat /\ redo[m] \in Nat
  BY DEF HistType, Adds
<1>3. CASE Adds(ms, m) = 1
  <2>1. entered[m] <= redo[m]
    BY <1>3 DEF EnterFits
  <2>2. QED BY <1>2, <1>3, <2>1
<1>4. CASE Adds(ms, m) = 0
  <2>1. /\ entered[m] <= 1 + redo[m]
        /\ ToEnter(m) \/ (outbox[m] = 0 /\ m \notin seen) => entered[m] <= redo[m]
    BY Zenon DEF EnterFits
  <2>2. QED BY <1>2, <1>4, <2>1
<1>5. QED BY <1>2, <1>3, <1>4

LEMMA MarkedAt ==
  ASSUME SaveType, NEW m \in Msgs, NEW x \in Msgs
  PROVE  /\ Marked(x)[m] = 0 => outbox[m] = 0
         /\ Marked(x)[m] = Accepted => outbox[m] = Accepted \/ m = x
<1>1. Accepted # 0
  BY Sizes DEF Accepted
<1>2. QED BY <1>1 DEF Marked, SaveType

LEMMA EnterNext ==
  ASSUME BaseInv, EnterFits, Next
  PROVE  EnterFits'
<1>0. /\ WorldType /\ LogType /\ ConnType /\ InType /\ HistType /\ SaveType /\ OutType
      /\ AdmitFits /\ ChainFits /\ StepsFit /\ admits \in Seq(Msgs) /\ coalesced \in Seq(Msgs)
      /\ entered \in [Msgs -> Nat] /\ redo \in [Msgs -> Nat]
  BY TypeParts DEF BaseInv, HistType, InType, ChainType
<1>1. CASE Connection \/ Stop \/ Starts \/ TimesOut
  <2>1. UNCHANGED <<coalesced, admits, stage, seen, outbox, entered, redo>>
    BY <1>1, ConnectionKeeps, StopKeeps, StartsKeep DEF inVars
  <2>2. QED BY <2>1, NoneEnters, SameChain
<1>2. CASE AdmitStarts
  <2>1. UNCHANGED <<coalesced, admits, seen, outbox, entered, redo>> /\ stage = "none"
    BY <1>2, Zenon DEF AdmitStarts, histVars
  <2>2. QED BY <2>1, NoneEnters, SameChain
<1>3. CASE AgentAttached
  <2>1. UNCHANGED <<coalesced, admits, stage, seen, outbox, entered, redo>>
    BY <1>3, Zenon DEF AgentAttached, inVars
  <2>2. QED BY <2>1, NoneEnters, SameChain
<1>4. CASE AgentFails \/ SaveEnds
  <2>1. UNCHANGED <<coalesced, seen, outbox, entered, redo>>
    <3>1. CASE AgentFails
      BY <3>1, Zenon DEF AgentFails
    <3>2. CASE SaveEnds
      BY <3>2, SaveEndsKeeps
    <3>3. QED BY <1>4, <3>1, <3>2
  <2>2. \/ admits' = admits /\ stage' = stage
        \/ admits' = admits /\ stage' = "write"
        \/ stage # "none" /\ admits' = Tail(admits)
    <3>1. CASE AgentFails
      BY <3>1, Zenon DEF AgentFails
    <3>2. CASE SaveEnds
      <4>1. /\ stage' = CASE stage = "write" -> "none" [] stage = "save" -> "write" [] OTHER -> stage
            /\ admits' = IF stage = "write" THEN Tail(admits) ELSE admits
        BY <3>2, Zenon DEF SaveEnds
      <4>2. QED BY <4>1
    <3>3. QED BY <1>4, <3>1, <3>2
  <2>3. ASSUME stage # "none", admits' = Tail(admits), NEW m \in Msgs, ToEnter(m)' PROVE ToEnter(m)
    <3>1. admits # <<>>
      BY <1>0, <2>3 DEF AdmitFits
    <3>2. PICK a \in Seq(Msgs), n \in Nat : a = admits /\ n = Len(a)
      BY <1>0
    <3>3. Len(admits') = n - 1 /\ \A i \in 1..(n - 1) : admits'[i] = a[i + 1] /\ i + 1 \in 1..n
      BY <2>3, <3>1, <3>2, TailIs
    <3>4. Among(coalesced, m) \/ \E i \in 1..(n - 1) : a[i + 1] = m
      BY <2>1, <2>3, <3>3 DEF ToEnter, Among
    <3>5. ASSUME NEW i \in 1..(n - 1), a[i + 1] = m PROVE ToEnter(m)
      <4>1. i + 1 \in 1..n /\ i + 1 # 1
        BY <3>2
      <4>2. QED BY <3>2, <3>5, <4>1 DEF ToEnter
    <3>6. QED BY <3>4, <3>5 DEF ToEnter
  <2>4. \A m \in Msgs : ToEnter(m)' => ToEnter(m)
    <3>1. CASE admits' = admits /\ (stage' = stage \/ stage' = "write")
      BY <2>1, <3>1, SameChain
    <3>2. QED BY <2>2, <2>3, <3>1
  <2>5. QED BY <2>1, <2>4, NoneEnters
<1>5. CASE AdmitFlushes
  <2>1. /\ UNCHANGED <<coalesced, admits, seen, entered, redo>> /\ stage = "flush"
        /\ stage' = Waits /\ outbox' = Marked(Head(admits))
    BY <1>5, Zenon DEF AdmitFlushes
  <2>2. stage' \notin {"none", "agent"}
    BY <2>1, StagesAre
  <2>3. admits # <<>>
    BY <1>0, <2>1 DEF AdmitFits
  <2>4. Head(admits) \in Msgs
    BY <1>0, <2>3, TailIs
  <2>5. \A m \in Msgs : outbox'[m] = 0 => outbox[m] = 0
    BY <1>0, <2>1, <2>4, MarkedAt
  <2>6. QED BY <2>1, <2>2, <2>5, NoneEnters, SameChain
<1>6. ASSUME NEW m \in Msgs, Receive(m) PROVE EnterFits'
  <2>1. /\ UNCHANGED <<coalesced, stage, outbox, entered, redo>>
        /\ outbox[m] = 0 /\ m \notin seen /\ seen' = seen \cup {m} /\ admits' = Append(admits, m)
    BY <1>6, Zenon DEF Receive, histVars
  <2>2. PICK a \in Seq(Msgs), n \in Nat : a = admits /\ n = Len(a)
    BY <1>0
  <2>3. /\ Len(admits') = n + 1 /\ admits'[n + 1] = m /\ \A i \in 1..n : admits'[i] = a[i]
        /\ \A i \in 1..(n + 1) : i = n + 1 \/ i \in 1..n
    BY <2>1, <2>2, AppendIs
  <2>4. ASSUME NEW x \in Msgs, ToEnter(x)' PROVE ToEnter(x) \/ x = m
    <3>1. Among(coalesced, x) \/ \E i \in 1..(n + 1) : admits'[i] = x /\ (i = 1 => stage \in {"none", "agent"})
      BY <2>1, <2>3, <2>4 DEF ToEnter, Among
    <3>2. QED BY <2>2, <2>3, <3>1 DEF ToEnter
  <2>5. QED BY <2>1, <2>4, NoneEnters
<1>7. ASSUME NEW m \in Msgs, AdmitCoalesces(m) PROVE EnterFits'
  <2>1. /\ UNCHANGED <<admits, seen, entered, redo>> /\ stage = "agent" /\ m = Head(admits)
        /\ coalesced' = Append(coalesced, m) /\ stage' = Waits /\ outbox' = Marked(m)
    BY <1>7, Zenon DEF AdmitCoalesces, Admitting
  <2>2. \A x \in Msgs : outbox'[x] = 0 => outbox[x] = 0
    BY <1>0, <2>1, MarkedAt
  <2>3. admits # <<>>
    BY <1>0, <2>1 DEF AdmitFits
  <2>4. m = admits[1] /\ 1 \in 1..Len(admits)
    BY <1>0, <2>1, <2>3, TailIs
  <2>5. ToEnter(m)
    BY <2>1, <2>4 DEF ToEnter
  <2>6. PICK c \in Seq(Msgs), n \in Nat : c = coalesced /\ n = Len(c)
    BY <1>0
  <2>7. /\ Len(coalesced') = n + 1 /\ coalesced'[n + 1] = m /\ \A i \in 1..n : coalesced'[i] = c[i]
        /\ \A i \in 1..(n + 1) : i = n + 1 \/ i \in 1..n
    BY <2>1, <2>6, AppendIs
  <2>8. \A x \in Msgs : Among(coalesced', x) => x = m \/ Among(coalesced, x)
    BY <2>6, <2>7 DEF Among
  <2>9. ASSUME NEW x \in Msgs, ToEnter(x)' PROVE ToEnter(x)
    BY <2>1, <2>5, <2>8, <2>9 DEF ToEnter
  <2>10. QED BY <2>1, <2>2, <2>9, NoneEnters
<1>8. ASSUME NEW m \in Msgs, AdmitEnters(m) PROVE EnterFits'
  <2>1. /\ UNCHANGED <<coalesced, admits, seen, outbox, redo>> /\ stage = "agent" /\ stage' = "flush"
        /\ m = Head(admits)
    BY <1>8, Zenon DEF AdmitEnters, Admitting
  <2>2. entered' = entered \/ entered' = [x \in Msgs |-> entered[x] + Adds(<<m>>, x)]
    BY <1>8, Zenon DEF AdmitEnters, Enters, Adds
  <2>3. \A x \in Msgs : ToEnter(x)' => ToEnter(x)
    BY <2>1, SameChain
  <2>4. CASE entered' = entered
    BY <2>1, <2>3, <2>4, NoneEnters
  <2>5. CASE entered' = [x \in Msgs |-> entered[x] + Adds(<<m>>, x)]
    <3>1. admits # <<>>
      BY <1>0, <2>1 DEF AdmitFits
    <3>2. m = admits[1] /\ 1 \in 1..Len(admits)
      BY <1>0, <2>1, <3>1, TailIs
    <3>3. ToEnter(m) /\ Among(admits, m)
      BY <2>1, <3>2 DEF ToEnter, Among
    <3>4. ~Among(coalesced, m)
      BY <2>1, <3>2 DEF BaseInv, ChainFits
    <3>5. \A i \in 1..Len(admits) : admits[i] = m => i = 1
      BY <3>2 DEF BaseInv, ChainFits
    <3>6. ~ToEnter(m)'
      BY <2>1, <3>4, <3>5 DEF ToEnter, Among
    <3>7. m \in seen
      BY <3>3 DEF BaseInv, ChainFits
    <3>8. \A x \in Msgs : Adds(<<m>>, x) = 1 => x = m
      BY DEF Adds
    <3>9. QED BY <1>0, <2>1, <2>3, <2>5, <3>3, <3>6, <3>7, <3>8, SomeEnter
  <2>6. QED BY <2>2, <2>4, <2>5
<1>9. CASE TurnStarts \/ TurnJoined \/ AgentSays \/ TurnEnds \/ Replaced
  <2>1. UNCHANGED <<coalesced, admits, stage, seen, outbox, entered, redo>>
    BY <1>9, Zenon DEF TurnStarts, TurnJoined, AgentSays, TurnEnds, Replaced, inVars, histVars
  <2>2. QED BY <2>1, NoneEnters, SameChain
<1>10. CASE GoesIdle
  <2>1. /\ UNCHANGED <<admits, stage, seen, outbox, redo>>
        /\ \/ UNCHANGED <<coalesced, entered>>
           \/ coalesced' = <<>> /\ coalesced = <<>> /\ entered' = entered
           \/ coalesced' = <<>> /\ entered' = [x \in Msgs |-> entered[x] + Adds(coalesced, x)]
    BY <1>10, Zenon DEF GoesIdle, Enters, Adds
  <2>2. CASE UNCHANGED <<coalesced, entered>>
    BY <2>1, <2>2, NoneEnters, SameChain
  <2>3. CASE coalesced' = <<>> /\ coalesced = <<>> /\ entered' = entered
    BY <2>1, <2>3, NoneEnters, SameChain
  <2>4. CASE coalesced' = <<>> /\ entered' = [x \in Msgs |-> entered[x] + Adds(coalesced, x)]
    <3>1. \A x : ~Among(coalesced', x)
      BY <2>4 DEF Among
    <3>2. \A x \in Msgs : ToEnter(x)' => ToEnter(x)
      BY <2>1, <3>1 DEF ToEnter
    <3>3. \A x \in Msgs : Adds(coalesced, x) = 1 => Among(coalesced, x)
      BY <1>0 DEF Adds, Among
    <3>4. ASSUME NEW x \in Msgs, Among(coalesced, x) PROVE ToEnter(x) /\ ~ToEnter(x)' /\ x \in seen
      <4>1. \A i \in 1..Len(admits) : admits[i] = x => i = 1 /\ stage \in {"flush", "save", "write"}
        BY <3>4 DEF BaseInv, ChainFits
      <4>2. ~ToEnter(x)'
        BY <2>1, <3>1, <4>1 DEF ToEnter
      <4>3. QED BY <3>4, <4>2 DEF ToEnter, BaseInv, ChainFits
    <3>5. QED BY <1>0, <2>1, <2>4, <3>2, <3>3, <3>4, SomeEnter
  <2>5. QED BY <2>1, <2>2, <2>3, <2>4
<1>11. ASSUME NEW w \in Slots, Working(w) PROVE EnterFits'
  <2>1. UNCHANGED <<coalesced, admits, stage, seen, entered, redo>>
    <3>1. UNCHANGED <<coalesced, admits, stage, seen, entered>>
      BY <1>11, WorkingKeeps
    <3>2. redo' = redo
      BY <1>11, WorkingKeeps
    <3>3. QED BY <3>1, <3>2
  <2>2. \/ outbox' = outbox
        \/ /\ task[w].stage = "send"
           /\ \E m \in 1..MaxMsgs \cup {0} : outbox' = [outbox EXCEPT ![m] = Now(w).out]
    <3>1. CASE QueryAnswers(w) \/ FlushEnds(w) \/ StepPasses(w) \/ StepSends(w) \/ StepOffline(w)
      BY <3>1, Zenon DEF QueryAnswers, FlushEnds, StepPasses, StepSends, StepOffline
    <3>2. CASE QueryFails(w) \/ SendSwallows(w) \/ SendFails(w)
      BY <3>2, Zenon DEF QueryFails, SendSwallows, SendFails
    <3>3. CASE SendReturns(w)
      <4>1. task[w].stage = "send" /\ (outbox' = outbox \/ outbox' = [outbox EXCEPT ![turnInbound[Now(w).turn]] = Now(w).out])
        BY <3>3, Zenon DEF SendReturns
      <4>2. Now(w).turn \in Turns
        BY <1>0, <4>1, AtStep
      <4>3. turnInbound[Now(w).turn] \in 0..MaxMsgs
        BY <1>0, <4>2 DEF InType
      <4>4. turnInbound[Now(w).turn] \in 1..MaxMsgs \cup {0}
        BY <4>3, Sizes
      <4>5. QED BY <4>1, <4>4
    <3>4. QED BY <1>11, <3>1, <3>2, <3>3, Zenon DEF Working
  <2>3. ASSUME task[w].stage = "send", NEW m \in 1..MaxMsgs \cup {0}, outbox' = [outbox EXCEPT ![m] = Now(w).out],
               NEW x \in Msgs, outbox'[x] = 0
        PROVE  outbox[x] = 0
    <3>1. Now(w).out # 0
      BY <2>3 DEF BaseInv, StepsFit
    <3>2. QED BY <1>0, <2>3, <3>1 DEF SaveType
  <2>4. \A x \in Msgs : outbox'[x] = 0 => outbox[x] = 0
    BY <2>2, <2>3
  <2>5. QED BY <2>1, <2>4, NoneEnters, SameChain
<1>12. CASE Crash \/ StopDone
  <2>1. PICK f : /\ outbox' = f.entries /\ entered' = entered
                 /\ redo' = [m \in Msgs |-> redo[m] + IF f.entries[m] = 0 /\ entered[m] > redo[m] THEN 1 ELSE 0]
                 /\ coalesced' = <<>> /\ admits' = <<>>
    <3>1. \E f : Begins(f)
      BY <1>12, Zenon DEF Crash, StopDone
    <3>2. QED BY <3>1, Zenon DEF Begins
  <2>2. \A x : ~ToEnter(x)'
    BY <2>1 DEF ToEnter, Among
  <2>3. ASSUME NEW m \in Msgs
        PROVE  entered'[m] <= 1 + redo'[m] /\ (outbox'[m] = 0 => entered'[m] <= redo'[m])
    <3>1. entered[m] \in Nat /\ redo[m] \in Nat /\ entered[m] <= 1 + redo[m]
      BY <1>0 DEF EnterFits
    <3>2. redo'[m] = redo[m] + IF outbox'[m] = 0 /\ entered[m] > redo[m] THEN 1 ELSE 0
      BY <2>1
    <3>3. QED BY <2>1, <3>1, <3>2
  <2>4. QED BY <2>2, <2>3 DEF EnterFits
<1>13. QED
  BY <1>1, <1>2, <1>3, <1>4, <1>5, <1>6, <1>7, <1>8, <1>9, <1>10, <1>11, <1>12, Zenon
     DEF Next, Inbound, Agent, Outbound

(* What is marked as handled is in the durable log, or was never going to   *)
(* be: in the outbox, in the file and in what is being written.  What waits *)
(* for the flush to be marked is in the log.                                *)
Holds(p, m) == log[p].type = "in" /\ \E i \in DOMAIN log[p].msgs : log[p].msgs[i] = m
Kept(e) == \A m \in Msgs : e[m] = Accepted => InLog(m) \/ m \in unlogged
KeptFits ==
  /\ Kept(outbox) /\ Kept(file.entries) /\ Kept(writing.entries)
  /\ stage = "flush" => \E m \in Msgs : m = Head(admits) /\ (m \in unlogged \/ \E p \in 1..Len(log) : Holds(p, m))

LEMMA InLogIs == ASSUME NEW m PROVE InLog(m) <=> \E p \in 1..flushed : Holds(p, m)
BY Zenon DEF InLog, Holds

(* The durable log keeps what it held unless the session is replaced, and   *)
(* then everything counts as not logged.                                    *)
LEMMA InLogStays ==
  ASSUME BaseInv, Next, NEW m \in Msgs, InLog(m) \/ m \in unlogged
  PROVE  InLog(m)' \/ m \in unlogged'
<1>0. /\ WorldType /\ LogType /\ ConnType /\ InType /\ HistType /\ SaveType /\ OutType
      /\ flushed \in 0..Len(log)
  BY TypeParts DEF BaseInv, WorldType
<1>1. ASSUME flushed' \in flushed..Len(log'), \A p \in 1..flushed : log'[p] = log[p], InLog(m)
      PROVE  InLog(m)'
  <2>1. PICK p \in 1..flushed : Holds(p, m)
    BY <1>1, InLogIs
  <2>2. p \in 1..flushed' /\ log'[p] = log[p]
    BY <1>0, <1>1, <2>1 DEF LogType
  <2>3. log'[p].type = "in" /\ \E i \in DOMAIN log'[p].msgs : log'[p].msgs[i] = m
    BY <2>1, <2>2, Zenon DEF Holds
  <2>4. QED BY <2>2, <2>3 DEF InLog
<1>2. CASE unlogged' = Msgs
  BY <1>2
<1>3. ASSUME unlogged \subseteq unlogged', flushed' \in flushed..Len(log'), \A p \in 1..flushed : log'[p] = log[p]
      PROVE  InLog(m)' \/ m \in unlogged'
  BY <1>1, <1>3
<1>4. ASSUME log' = log, flushed' \in {flushed, Len(log)}, unlogged \subseteq unlogged'
      PROVE  InLog(m)' \/ m \in unlogged'
  <2>1. flushed' \in flushed..Len(log') /\ \A p \in 1..flushed : log'[p] = log[p]
    BY <1>0, <1>4 DEF LogType
  <2>2. QED BY <1>3, <1>4, <2>1
<1>5. ASSUME NEW e \in Events, log' = Append(log, e), flushed' = flushed, unlogged \subseteq unlogged'
      PROVE  InLog(m)' \/ m \in unlogged'
  <2>1. PICK n \in Nat : n = Len(log)
    BY <1>0 DEF LogType
  <2>2. Len(log') = n + 1 /\ \A p \in 1..n : log'[p] = log[p]
    BY <1>0, <1>5, <2>1, AppendIs DEF LogType
  <2>3. flushed' \in flushed..Len(log') /\ \A p \in 1..flushed : log'[p] = log[p]
    BY <1>0, <1>5, <2>1, <2>2
  <2>4. QED BY <1>3, <1>5, <2>3
<1>6. CASE Connection \/ Stop \/ SaveEnds \/ Outbound
  <2>1. log' = log /\ flushed' = flushed /\ unlogged' = unlogged
    BY <1>6, ConnectionKeeps, StopKeeps, SaveEndsKeeps, StartsKeep, WorkingKeeps DEF worldVars, Outbound
  <2>2. QED BY <1>4, <2>1
<1>7. CASE AdmitStarts \/ AgentAttached \/ AgentFails \/ AdmitFlushes \/ \E x \in Msgs : Receive(x) \/ AdmitCoalesces(x)
  <2>1. log' = log /\ (flushed' = flushed \/ flushed' = Len(log)) /\ (unlogged' = unlogged \/ \E x : unlogged' = unlogged \cup {x})
    BY <1>7, Zenon DEF AdmitStarts, AgentAttached, AgentFails, AdmitFlushes, Receive, AdmitCoalesces, worldVars, histVars
  <2>2. QED BY <1>4, <2>1
<1>8. CASE Replaced
  BY <1>2, <1>8, Zenon DEF Replaced
<1>9. CASE GoesIdle \/ TurnStarts \/ TurnJoined \/ AgentSays \/ TurnEnds \/ \E x \in Msgs : AdmitEnters(x)
  <2>1. flushed' = flushed /\ (unlogged' = unlogged \/ \E x : unlogged' = unlogged \cup {x})
    BY <1>9, Zenon DEF GoesIdle, TurnStarts, TurnJoined, AgentSays, TurnEnds, AdmitEnters, Logs, histVars
  <2>2. log' = log \/ \E e : log' = Append(log, e)
    BY <1>9, Zenon DEF GoesIdle, TurnStarts, TurnJoined, AgentSays, TurnEnds, AdmitEnters, Logs, Enters
  <2>3. ASSUME NEW e, log' = Append(log, e) PROVE e \in Events
    <3>1. PICK q \in Seq(Events), n \in Nat : q = log /\ n = Len(q)
      BY <1>0 DEF LogType
    <3>2. Append(q, e)[n + 1] = e /\ Len(Append(q, e)) = n + 1
      BY <3>1
    <3>3. LogType'
      BY <1>0, NextLog, LogGoesOn DEF BaseInv, InType, WorldType
    <3>4. log'[n + 1] \in Events
      BY <2>3, <3>1, <3>2, <3>3 DEF LogType
    <3>5. QED BY <2>3, <3>1, <3>2, <3>4
  <2>4. QED BY <1>4, <1>5, <2>1, <2>2, <2>3
<1>10. CASE Crash
  <2>1. \E n \in IF "truncate" \in mode.faults THEN flushed..Len(log) ELSE {Len(log)} :
          log' = SubSeq(log, 1, n) /\ flushed' = n
    BY <1>10, Zenon DEF Crash
  <2>2. PICK n \in flushed..Len(log) : log' = SubSeq(log, 1, n) /\ flushed' = n
    BY <1>0, <2>1 DEF LogType
  <2>3. n \in 0..Len(log) /\ flushed \in Nat /\ Len(log) \in Nat
    BY <1>0 DEF LogType
  <2>4. Len(log') = n /\ \A p \in 1..n : log'[p] = log[p]
    BY <1>0, <2>2, <2>3 DEF LogType
  <2>5. flushed' \in flushed..Len(log') /\ \A p \in 1..flushed : log'[p] = log[p]
    BY <2>2, <2>3, <2>4
  <2>6. unlogged' = unlogged
    BY <1>10, CrashKeeps
  <2>7. QED BY <1>3, <2>5, <2>6
<1>11. CASE StopDone
  <2>1. log' = log /\ flushed' = Len(log)
    BY <1>11, Zenon DEF StopDone
  <2>2. unlogged' = unlogged
    BY <1>11, CrashKeeps
  <2>3. QED BY <1>4, <2>1, <2>2
<1>12. QED
  BY <1>6, <1>7, <1>8, <1>9, <1>10, <1>11, Zenon DEF Next, Inbound, Agent

LEMMA KeptStays ==
  ASSUME BaseInv, Next, NEW e, Kept(e)
  PROVE  \A m \in Msgs : e[m] = Accepted => InLog(m)' \/ m \in unlogged'
BY InLogStays DEF Kept

(* Where the entries of the outbox and of the file come from.               *)
EntriesStep ==
  /\ \/ outbox' \in {outbox, file.entries, writing.entries}
     \/ \E m \in Msgs : outbox' = Marked(m) /\ (InLog(m)' \/ m \in unlogged')
     \/ \E m \in Msgs \cup {0}, o \in 0..MaxOuts : outbox' = [outbox EXCEPT ![m] = o]
  /\ file'.entries \in {file.entries, writing.entries, outbox}
  /\ writing'.entries \in {writing.entries, outbox', Nothing.entries}

LEMMA PersistsEntries ==
  ASSUME NEW o, NEW c, Persists(o, c)
  PROVE  file' = file /\ writing'.entries \in {writing.entries, o}
BY DEF Persists, Snapshot

LEMMA NextEntries ==
  ASSUME BaseInv, KeptFits, Next
  PROVE  EntriesStep
<1>0. /\ WorldType /\ LogType /\ ConnType /\ InType /\ HistType /\ SaveType /\ OutType
      /\ AdmitFits /\ StepsFit /\ admits \in Seq(Msgs)
  BY TypeParts DEF BaseInv, InType, ChainType
<1>1. ASSUME outbox' = outbox, file' = file, writing' = writing PROVE EntriesStep
  BY <1>1 DEF EntriesStep
<1>2. ASSUME outbox' = outbox, NEW c, Persists(outbox, c) PROVE EntriesStep
  <2>1. file' = file /\ writing'.entries \in {writing.entries, outbox}
    BY <1>2, PersistsEntries
  <2>2. QED BY <1>2, <2>1 DEF EntriesStep
<1>3. CASE Connection \/ Stop \/ Agent
  BY <1>1, <1>3, ConnectionKeeps, StopKeeps, AgentKeeps DEF saveVars
<1>4. CASE AdmitStarts \/ AgentFails \/ \E m \in Msgs : Receive(m) \/ AdmitEnters(m)
  <2>1. outbox' = outbox /\ file' = file /\ writing' = writing
    BY <1>4, Zenon DEF AdmitStarts, AgentFails, Receive, AdmitEnters, saveVars
  <2>2. QED BY <1>1, <2>1
<1>5. CASE AgentAttached
  <2>1. outbox' = outbox /\ ((file' = file /\ writing' = writing) \/ Persists(outbox, Len(log)))
    BY <1>5, Zenon DEF AgentAttached, saveVars
  <2>2. QED BY <1>1, <1>2, <2>1
<1>6. ASSUME NEW m \in Msgs, outbox' = Marked(m), InLog(m)' \/ m \in unlogged', NEW c, Persists(outbox', c)
      PROVE  EntriesStep
  <2>1. file' = file /\ writing'.entries \in {writing.entries, outbox'}
    BY <1>6, PersistsEntries
  <2>2. QED BY <1>6, <2>1 DEF EntriesStep
<1>7. CASE AdmitFlushes
  <2>1. /\ stage = "flush" /\ outbox' = Marked(Head(admits)) /\ Persists(outbox', cursor) /\ log' = log
        /\ \/ flushed' = Len(log) /\ unlogged' = unlogged
           \/ unlogged' = unlogged \cup {Head(admits)}
    BY <1>7, Zenon DEF AdmitFlushes
  <2>2. PICK m \in Msgs : m = Head(admits) /\ (m \in unlogged \/ \E p \in 1..Len(log) : Holds(p, m))
    BY <2>1 DEF KeptFits
  <2>3. InLog(m)' \/ m \in unlogged'
    <3>1. CASE unlogged' = unlogged \cup {Head(admits)}
      BY <2>2, <3>1
    <3>2. CASE flushed' = Len(log) /\ unlogged' = unlogged
      <4>1. CASE m \in unlogged
        BY <3>2, <4>1
      <4>2. ASSUME NEW p \in 1..Len(log), Holds(p, m) PROVE InLog(m)'
        BY <2>1, <3>2, <4>2 DEF InLog, Holds
      <4>3. QED BY <2>2, <4>1, <4>2
    <3>3. QED BY <2>1, <3>1, <3>2
  <2>4. QED BY <1>6, <2>1, <2>2, <2>3
<1>8. ASSUME NEW m \in Msgs, AdmitCoalesces(m) PROVE EntriesStep
  <2>1. outbox' = Marked(m) /\ Persists(outbox', cursor) /\ unlogged' = unlogged \cup {m}
    BY <1>8, Zenon DEF AdmitCoalesces
  <2>2. QED BY <1>6, <2>1
<1>9. CASE Acks \/ FlushSkips \/ FlushReads \/ TimesOut
  <2>1. outbox' = outbox /\ file' = file /\ writing' = writing
    BY <1>9, Zenon DEF Acks, FlushSkips, FlushReads, TimesOut, saveVars
  <2>2. QED BY <1>1, <2>1
<1>10. CASE FlushResets
  <2>1. outbox' = outbox /\ Persists(outbox, Len(log))
    BY <1>10, Zenon DEF FlushResets
  <2>2. QED BY <1>2, <2>1
<1>11. ASSUME NEW w \in Slots, Working(w) PROVE EntriesStep
  <2>1. CASE QueryAnswers(w) \/ FlushEnds(w) \/ StepSends(w) \/ StepOffline(w) \/ SendFails(w)
    <3>1. outbox' = outbox /\ file' = file /\ writing' = writing
      BY <2>1, Zenon DEF QueryAnswers, FlushEnds, StepSends, StepOffline, SendFails, saveVars
    <3>2. QED BY <1>1, <3>1
  <2>2. CASE QueryFails(w) \/ StepPasses(w) \/ SendSwallows(w)
    <3>1. outbox' = outbox /\ \E c : Persists(outbox, c)
      BY <2>2, Zenon DEF QueryFails, StepPasses, SendSwallows
    <3>2. QED BY <1>2, <3>1
  <2>3. CASE SendReturns(w)
    <3>1. /\ Persists(outbox', Now(w).at) /\ task[w].stage = "send"
          /\ outbox' = outbox \/ outbox' = [outbox EXCEPT ![turnInbound[Now(w).turn]] = Now(w).out]
      BY <2>3, Zenon DEF SendReturns
    <3>2. Now(w).turn \in Turns /\ Now(w).out \in 0..MaxOuts
      BY <1>0, <3>1, AtStep
    <3>3. turnInbound[Now(w).turn] \in 0..MaxMsgs
      BY <1>0, <3>2 DEF InType
    <3>4. turnInbound[Now(w).turn] \in Msgs \cup {0}
      BY <3>3, Sizes DEF Msgs
    <3>5. file' = file /\ writing'.entries \in {writing.entries, outbox'}
      BY <3>1, PersistsEntries
    <3>6. QED BY <3>1, <3>2, <3>4, <3>5, Zenon DEF EntriesStep
  <2>4. QED BY <1>11, <2>1, <2>2, <2>3, Zenon DEF Working
<1>12. CASE SaveEnds
  <2>1. /\ outbox' = outbox /\ (file' = writing \/ file' = file)
        /\ writing' = IF pending THEN Snapshot(outbox, cursor) ELSE Nothing
    BY <1>12, Zenon DEF SaveEnds
  <2>2. QED BY <2>1 DEF EntriesStep, Snapshot
<1>13. CASE Crash \/ StopDone
  <2>1. \E f \in {file, writing, Snapshot(outbox, cursor)} :
           file' = f /\ outbox' = f.entries /\ writing' = Nothing
    BY <1>13, Zenon DEF Crash, StopDone, Begins
  <2>2. QED BY <2>1 DEF EntriesStep, Snapshot
<1>14. QED
  BY <1>3, <1>4, <1>5, <1>7, <1>8, <1>9, <1>10, <1>11, <1>12, <1>13, Zenon DEF Next, Inbound, Outbound, Starts

LEMMA KeptNext ==
  ASSUME BaseInv, KeptFits, Next
  PROVE  KeptFits'
<1>0. /\ WorldType /\ LogType /\ ConnType /\ InType /\ HistType /\ SaveType /\ OutType
      /\ AdmitFits /\ admits \in Seq(Msgs) /\ outbox \in [Msgs -> 0..Accepted]
  BY TypeParts DEF BaseInv, InType, ChainType, SaveType
<1>1. EntriesStep
  BY NextEntries
<1>2. DEFINE Safe(e) == \A m \in Msgs : e[m] = Accepted => InLog(m)' \/ m \in unlogged'
<1>3. Safe(outbox) /\ Safe(file.entries) /\ Safe(writing.entries) /\ Safe(Nothing.entries)
  BY KeptStays, NothingIs DEF KeptFits
<1>4. Safe(outbox')
  <2>1. CASE outbox' \in {outbox, file.entries, writing.entries}
    BY <1>3, <2>1
  <2>2. ASSUME NEW x \in Msgs, outbox' = Marked(x), InLog(x)' \/ x \in unlogged' PROVE Safe(outbox')
    <3>1. \A m \in Msgs : Marked(x)[m] = Accepted => outbox[m] = Accepted \/ m = x
      BY <1>0, MarkedAt
    <3>2. QED BY <1>3, <2>2, <3>1
  <2>3. ASSUME NEW x \in Msgs \cup {0}, NEW o \in 0..MaxOuts, outbox' = [outbox EXCEPT ![x] = o]
        PROVE  Safe(outbox')
    <3>1. o # Accepted
      BY Sizes DEF Accepted
    <3>2. \A m \in Msgs : outbox'[m] = Accepted => outbox[m] = Accepted
      BY <1>0, <2>3, <3>1
    <3>3. QED BY <1>3, <3>2
  <2>4. QED BY <1>1, <2>1, <2>2, <2>3 DEF EntriesStep
<1>5. Safe(file'.entries) /\ Safe(writing'.entries)
  BY <1>1, <1>3, <1>4 DEF EntriesStep
<1>6. Kept(outbox)' /\ Kept(file.entries)' /\ Kept(writing.entries)'
  BY <1>4, <1>5 DEF Kept
<1>7. ASSUME stage' = "flush"
      PROVE  \E m \in Msgs : m = Head(admits') /\ (m \in unlogged' \/ \E p \in 1..Len(log') : Holds(p, m)')
  <2>1. ASSUME stage = "flush", admits' = admits \/ \E x \in Msgs : admits' = Append(admits, x),
               unlogged' = Msgs \/ (unlogged \subseteq unlogged' /\ (log' = log \/ \E e : log' = Append(log, e)))
        PROVE  \E m \in Msgs : m = Head(admits') /\ (m \in unlogged' \/ \E p \in 1..Len(log') : Holds(p, m)')
    <3>1. PICK m \in Msgs : m = Head(admits) /\ (m \in unlogged \/ \E p \in 1..Len(log) : Holds(p, m))
      BY <2>1 DEF KeptFits
    <3>2. Head(admits') = m
      <4>1. admits # <<>>
        BY <1>0, <2>1 DEF AdmitFits
      <4>2. PICK a \in Seq(Msgs) : a = admits /\ a # <<>>
        BY <1>0, <4>1
      <4>3. \A x \in Msgs : Head(Append(a, x)) = Head(a)
        BY <4>2
      <4>4. QED BY <2>1, <3>1, <4>2, <4>3
    <3>3. ASSUME NEW p \in 1..Len(log), Holds(p, m), log' = log \/ \E e : log' = Append(log, e)
          PROVE  p \in 1..Len(log') /\ Holds(p, m)'
      <4>1. PICK q \in Seq(Events), n \in Nat : q = log /\ n = Len(q)
        BY <1>0 DEF LogType
      <4>2. \A e : Len(Append(q, e)) = n + 1 /\ \A i \in 1..n : Append(q, e)[i] = q[i]
        BY <4>1
      <4>3. p \in 1..Len(log') /\ log'[p] = log[p]
        BY <3>3, <4>1, <4>2
      <4>4. QED BY <3>3, <4>3 DEF Holds
    <3>4. QED BY <2>1, <3>1, <3>2, <3>3
  <2>2. CASE Connection \/ Stop \/ Outbound
    <3>1. UNCHANGED <<admits, stage, log, unlogged>>
      BY <2>2, ConnectionKeeps, StopKeeps, StartsKeep, WorkingKeeps DEF worldVars, inVars, Outbound
    <3>2. QED BY <1>7, <2>1, <3>1
  <2>3. CASE SaveEnds
    <3>1. log' = log /\ unlogged' = unlogged
      BY <2>3, SaveEndsKeeps DEF worldVars
    <3>2. /\ stage' = CASE stage = "write" -> "none" [] stage = "save" -> "write" [] OTHER -> stage
          /\ admits' = IF stage = "write" THEN Tail(admits) ELSE admits
      BY <2>3, Zenon DEF SaveEnds
    <3>3. stage = "flush" /\ admits' = admits
      BY <1>7, <3>2
    <3>4. QED BY <2>1, <3>1, <3>3
  <2>4. CASE AgentAttached \/ \E m \in Msgs : Receive(m)
    <3>1. /\ UNCHANGED <<stage, log, unlogged>>
          /\ admits' = admits \/ \E x \in Msgs : admits' = Append(admits, x)
      BY <2>4, Zenon DEF AgentAttached, Receive, worldVars, inVars, histVars
    <3>2. QED BY <1>7, <2>1, <3>1
  <2>5. CASE AdmitStarts \/ AgentFails
    <3>1. /\ log' = log /\ unlogged' = unlogged
          /\ (stage' = "agent" \/ stage' = "none" \/ (stage' = stage /\ admits' = admits))
      BY <2>5, Zenon DEF AdmitStarts, AgentFails, worldVars, histVars
    <3>2. QED BY <1>7, <2>1, <3>1
  <2>6. CASE AdmitFlushes \/ \E m \in Msgs : AdmitCoalesces(m)
    <3>1. stage' = Waits
      BY <2>6, Zenon DEF AdmitFlushes, AdmitCoalesces
    <3>2. QED BY <1>7, <3>1, StagesAre
  <2>7. ASSUME NEW m \in Msgs, AdmitEnters(m)
        PROVE  \E x \in Msgs : x = Head(admits') /\ (x \in unlogged' \/ \E p \in 1..Len(log') : Holds(p, x)')
    <3>1. /\ m = Head(admits) /\ admits' = admits
          /\ \/ unlogged' = unlogged \cup {m}
             \/ log' = Append(log, Event("in", 0, 0, <<m>>))
      BY <2>7, Zenon DEF AdmitEnters, Admitting, Enters
    <3>2. ASSUME log' = Append(log, Event("in", 0, 0, <<m>>)) PROVE \E p \in 1..Len(log') : Holds(p, m)'
      <4>1. PICK q \in Seq(Events), n \in Nat : q = log /\ n = Len(q)
        BY <1>0 DEF LogType
      <4>2. PICK e \in Events : e = Event("in", 0, 0, <<m>>) /\ e.type = "in" /\ e.msgs = <<m>>
        <5>1. 0 \in 0..MaxTurns /\ 0 \in 0..MaxOuts
          BY Sizes
        <5>2. PICK ms \in Seq(Msgs) : ms = <<m>>
          <6>1. <<m>> \in Seq(Msgs)
            OBVIOUS
          <6>2. QED BY <6>1, Zenon
        <5>3. /\ Event("in", 0, 0, ms) \in Events /\ Event("in", 0, 0, ms).type = "in"
              /\ Event("in", 0, 0, ms).msgs = ms
          BY <5>1, EventIs
        <5>4. QED BY <5>2, <5>3
      <4>3. Append(q, e)[n + 1] = e /\ Len(Append(q, e)) = n + 1 /\ n + 1 \in 1..(n + 1)
        BY <4>1
      <4>4. log'[n + 1].type = "in" /\ n + 1 \in 1..Len(log') /\ log'[n + 1].msgs = <<m>>
        BY <3>2, <4>1, <4>2, <4>3
      <4>5. 1 \in DOMAIN <<m>> /\ <<m>>[1] = m
        OBVIOUS
      <4>6. Holds(n + 1, m)'
        BY <4>4, <4>5, Zenon DEF Holds
      <4>7. QED BY <4>4, <4>6
    <3>3. QED BY <3>1, <3>2
  <2>8. CASE Agent
    <3>1. UNCHANGED <<stage, admits>>
      BY <2>8, AgentKeeps
    <3>2. unlogged' = Msgs \/ (unlogged' = unlogged /\ (log' = log \/ \E e : log' = Append(log, e)))
      <4>1. CASE Replaced
        BY <4>1, Zenon DEF Replaced
      <4>2. CASE TurnStarts \/ TurnJoined \/ AgentSays \/ TurnEnds
        BY <4>2, Zenon DEF TurnStarts, TurnJoined, AgentSays, TurnEnds, Logs, histVars
      <4>3. CASE GoesIdle
        BY <4>3, Zenon DEF GoesIdle, Enters
      <4>4. QED BY <2>8, <4>1, <4>2, <4>3, Zenon DEF Agent
    <3>3. QED BY <1>7, <2>1, <3>1, <3>2
  <2>9. CASE Crash \/ StopDone
    <3>1. stage' = "none"
      BY <2>9, Zenon DEF Crash, StopDone, Begins
    <3>2. QED BY <1>7, <3>1
  <2>10. QED
    BY <2>2, <2>3, <2>4, <2>5, <2>6, <2>7, <2>8, <2>9, Zenon DEF Next, Inbound
<1>8. QED BY <1>6, <1>7 DEF KeptFits

LEMMA EnterUnchanged ==
  ASSUME UNCHANGED vars PROVE EnterFits' = EnterFits /\ KeptFits' = KeptFits
<1>1. /\ log' = log /\ flushed' = flushed /\ admits' = admits /\ coalesced' = coalesced /\ stage' = stage
      /\ seen' = seen /\ outbox' = outbox /\ file' = file /\ writing' = writing
      /\ entered' = entered /\ redo' = redo /\ unlogged' = unlogged
  BY Zenon DEF vars, worldVars, inVars, saveVars, histVars
<1>2. EnterFits' = EnterFits
  BY <1>1 DEF EnterFits, ToEnter, Among
<1>3. KeptFits' = KeptFits
  BY <1>1 DEF KeptFits, Kept, Holds, InLog
<1>4. QED BY <1>2, <1>3

LEMMA EnterInit == Init => EnterFits /\ KeptFits
<1> SUFFICES ASSUME Init PROVE EnterFits /\ KeptFits
  OBVIOUS
<1>1. /\ log = <<>> /\ flushed = 0 /\ admits = <<>> /\ coalesced = <<>> /\ stage = "none"
      /\ outbox = Nothing.entries /\ file = Nothing /\ writing = Nothing
      /\ entered = [m \in Msgs |-> 0] /\ redo = [m \in Msgs |-> 0]
  BY Zenon DEF Init
<1>2. EnterFits
  BY <1>1 DEF EnterFits
<1>3. KeptFits
  BY <1>1, NothingIs DEF KeptFits, Kept
<1>4. QED BY <1>2, <1>3

(* A message enters the inbox once for every process that ended without a   *)
(* record of it, and one the file says has arrived is in the durable log:   *)
(* the chain, the buffer and the marks of the outbox see to it (admit).     *)
THEOREM EntersOnceEach == Spec => []MessagesEnterOnce
<1>1. Init => BaseInv /\ EnterFits /\ KeptFits
  BY BaseInit, EnterInit
<1>2. BaseInv /\ EnterFits /\ KeptFits /\ [Next]_vars => (BaseInv /\ EnterFits /\ KeptFits)'
  BY BaseNext, EnterNext, KeptNext, EnterUnchanged
<1>3. EnterFits /\ KeptFits => MessagesEnterOnce
  BY DEF EnterFits, KeptFits, Kept, MessagesEnterOnce, EntersOnce, AcceptedIsKept
<1>4. QED BY <1>1, <1>2, <1>3, PTL DEF Spec

-----------------------------------------------------------------------------
(* What is said goes out once.                                              *)

One(b) == IF b THEN 1 ELSE 0
OutsOf(w) == {s.out : s \in task[w].steps} \ {0}
(* An output a flush may still find after the cursor.                       *)
Ahead(o) == \E p \in 1..Len(log) : cursor < p /\ log[p].out = o

(* What a task sends has been said, where the task is or before; what has   *)
(* not been said was not received.                                          *)
StepsSaid ==
  /\ \A o \in Outs : outs < o => delivered[o] = 0
  /\ \A w \in Slots : \A s \in task[w].steps :
       s.out <= outs /\ \A p \in 1..Len(log) : s.out # 0 /\ log[p].out = s.out => p <= s.at

(* An output was received, or the abandoned task has it, or the running one *)
(* has it or will find it: one of these, and one more per doubt.            *)
SentCount ==
  \A o \in Outs : delivered[o] + One(o \in OutsOf("late")) + One(o \in OutsOf("run") \/ Ahead(o)) <= 1 + doubts

(* Where the steps of a task come from: a flush read them, or they were     *)
(* this or the other task's.                                                *)
LEMMA NextTasks ==
  ASSUME BaseInv, Next, NEW w \in Slots, NEW s \in task'[w].steps
  PROVE  \/ \E v \in Slots : s \in task[v].steps
         \/ log' = log /\ outs' = outs /\ \E S \in SUBSET (1..Len(log)) : s \in StepsOf(S)
<1>0. /\ OutType /\ StepsFit /\ LogType /\ LogFits /\ SaveType /\ task \in [Slots -> Tasks]
      /\ "run" \in Slots /\ "late" \in Slots
  BY TypeParts DEF BaseInv, OutType, Slots
<1>1. CASE task' = task
  BY <1>1
<1>2. CASE Connection \/ Inbound \/ Agent \/ Stop \/ Acks \/ FlushSkips
  <2>1. task' = task
    <3>1. CASE Acks \/ FlushSkips
      BY <3>1, Zenon DEF Acks, FlushSkips
    <3>2. CASE Connection \/ Inbound \/ Agent \/ Stop
      BY <3>2, ConnectionKeeps, InboundKeeps, AgentKeeps, StopKeeps DEF outVars
    <3>3. QED BY <1>2, <3>1, <3>2
  <2>2. QED BY <1>1, <2>1
<1>3. ASSUME NEW v \in Slots, NEW u, task' = [task EXCEPT ![v] = u], u.steps \subseteq task[v].steps
      PROVE  \E x \in Slots : s \in task[x].steps
  <2>1. task'[w] = IF w = v THEN u ELSE task[w]
    BY <1>0, <1>3
  <2>2. QED BY <1>3, <2>1
<1>4. CASE FlushResets
  <2>1. task' = [task EXCEPT !["run"] = [Flush EXCEPT !.stage = Waits]]
    BY <1>4, Zenon DEF FlushResets, Advances, Becomes
  <2>2. [Flush EXCEPT !.stage = Waits].steps = {}
    BY NoTaskIs DEF Tasks
  <2>3. QED BY <1>0, <1>3, <2>1, <2>2
<1>5. CASE FlushReads
  <2>1. PICK S \in SUBSET {p \in 1..Len(log) : cursor < p}, u \in Tasks :
            task' = [task EXCEPT !["run"] = u] /\ u.steps = StepsOf(S)
    BY <1>0, <1>5, FlushTask DEF SaveType
  <2>2. log' = log /\ outs' = outs
    BY <1>5, StartsKeep DEF Starts, worldVars, agentVars
  <2>3. S \in SUBSET (1..Len(log))
    BY <2>1
  <2>4. task'[w] = IF w = "run" THEN u ELSE task[w]
    BY <1>0, <2>1
  <2>5. CASE w = "run"
    BY <2>1, <2>2, <2>3, <2>4, <2>5
  <2>6. CASE w # "run"
    BY <2>4, <2>6
  <2>7. QED BY <2>5, <2>6
<1>6. CASE TimesOut
  <2>1. task' = [run |-> NoTask, late |-> task["run"]]
    BY <1>6, Zenon DEF TimesOut
  <2>2. w = "run" \/ w = "late"
    BY DEF Slots
  <2>3. task'["run"].steps = {} /\ task'["late"] = task["run"]
    BY <2>1, NoTaskIs
  <2>4. QED BY <1>0, <2>2, <2>3
<1>7. ASSUME NEW v \in Slots, Working(v) PROVE \E x \in Slots : s \in task[x].steps
  <2>1. PICK u \in Tasks : task' = [task EXCEPT ![v] = u] /\ u.steps \subseteq task[v].steps
    BY <1>0, <1>7, WorkingTask
  <2>2. QED BY <1>3, <2>1
<1>8. CASE SaveEnds
  <2>1. task' = [v \in Slots |-> [task[v] EXCEPT !.stage = CASE task[v].stage = "write" -> "next"
                                     [] task[v].stage = "save" -> "write" [] OTHER -> task[v].stage]]
    BY <1>8, Zenon DEF SaveEnds
  <2>2. PICK t \in Tasks, x \in TaskStages \cup {task[w].stage} : t = task[w] /\ task'[w] = [t EXCEPT !.stage = x]
    BY <1>0, <2>1 DEF TaskStages
  <2>3. task'[w].steps = task[w].steps
    BY <2>2 DEF Tasks
  <2>4. QED BY <2>3
<1>9. CASE Crash \/ StopDone
  <2>1. task' = [v \in Slots |-> NoTask]
    BY <1>9, Zenon DEF Crash, StopDone, Begins
  <2>2. QED BY <2>1, NoTaskIs
<1>10. QED
  BY <1>2, <1>4, <1>5, <1>6, <1>7, <1>8, <1>9, Zenon DEF Next, Outbound, Starts

(* What a step lets the user receive is what a task was sending.            *)
Receives(w) == task[w].stage = "send" /\ delivered' = [delivered EXCEPT ![Now(w).out] = @ + 1]

LEMMA NextReceived ==
  ASSUME Next
  PROVE  \/ delivered' = delivered
         \/ (Crash \/ StopDone) /\ \E w \in Slots : Receives(w)
         \/ \E w \in Slots : (SendReturns(w) \/ SendFails(w)) /\ Receives(w)
<1>1. CASE Connection \/ Inbound \/ Agent \/ Stop \/ Starts \/ TimesOut \/ SaveEnds
  BY <1>1, ConnectionKeeps, InboundKeeps, AgentKeeps, StopKeeps, StartsKeep, SaveEndsKeeps DEF worldVars
<1>2. ASSUME NEW w \in Slots, Working(w)
      PROVE  delivered' = delivered \/ ((SendReturns(w) \/ SendFails(w)) /\ Receives(w))
  <2>1. CASE QueryAnswers(w) \/ FlushEnds(w) \/ StepPasses(w) \/ StepSends(w) \/ StepOffline(w)
    BY <2>1, Zenon DEF QueryAnswers, FlushEnds, StepPasses, StepSends, StepOffline, worldVars
  <2>2. CASE QueryFails(w) \/ SendSwallows(w)
    BY <2>2, Zenon DEF QueryFails, SendSwallows, worldVars
  <2>3. CASE SendReturns(w) \/ SendFails(w)
    BY <2>3, Zenon DEF SendReturns, SendFails, Delivers, Receives, worldVars
  <2>4. QED BY <1>2, <2>1, <2>2, <2>3, Zenon DEF Working
<1>3. CASE Crash \/ StopDone
  BY <1>3, Zenon DEF Crash, StopDone, Receives
<1>4. QED BY <1>1, <1>2, <1>3, Zenon DEF Next, Outbound

(* The log and what a task has of it.                                       *)
LEMMA OutsAppear ==
  ASSUME LogType, LogStep, NEW p \in 1..Len(log')
  PROVE  \/ p \in 1..Len(log) /\ log'[p] = log[p]
         \/ log'[p].out = 0
         \/ log'[p].out = outs + 1 /\ outs' = outs + 1
<1>1. PICK q \in Seq(Events), n \in Nat : q = log /\ n = Len(q)
  BY DEF LogType
<1>2. ASSUME NEW e, log' = Append(log, e), e.out = 0 \/ (e.out = outs + 1 /\ outs' = outs + 1)
      PROVE  \/ p \in 1..Len(log) /\ log'[p] = log[p]
             \/ log'[p].out = 0
             \/ log'[p].out = outs + 1 /\ outs' = outs + 1
  <2>1. /\ Len(Append(q, e)) = n + 1 /\ Append(q, e)[n + 1] = e /\ \A i \in 1..n : Append(q, e)[i] = q[i]
        /\ \A i \in 1..(n + 1) : i = n + 1 \/ i \in 1..n
    BY <1>1
  <2>2. QED BY <1>1, <1>2, <2>1
<1>3. CASE LogCut
  <2>1. PICK k \in 0..n : log' = SubSeq(q, 1, k)
    BY <1>1, <1>3 DEF LogCut
  <2>2. Len(SubSeq(q, 1, k)) = k /\ \A i \in 1..k : SubSeq(q, 1, k)[i] = q[i] /\ i \in 1..n
    BY <1>1
  <2>3. QED BY <1>1, <2>1, <2>2
<1>4. CASE LogSay
  <2>1. PICK ms : log' = Append(log, Event("say", turn, outs + 1, ms)) /\ outs' = outs + 1
    BY <1>4 DEF LogSay
  <2>2. Event("say", turn, outs + 1, ms).out = outs + 1
    BY DEF Event
  <2>3. QED BY <1>2, <2>1, <2>2
<1>5. CASE LogIn \/ LogStart \/ LogJoin \/ LogEnd
  <2>1. PICK type, t, ms : log' = Append(log, Event(type, t, 0, ms))
    BY <1>5, Zenon DEF LogIn, LogStart, LogJoin, LogEnd
  <2>2. Event(type, t, 0, ms).out = 0
    BY DEF Event
  <2>3. QED BY <1>2, <2>1, <2>2
<1>6. QED BY <1>3, <1>4, <1>5 DEF LogStep

LEMMA OutsGrow ==
  ASSUME LogType, LogStep
  PROVE  outs \in Nat /\ outs' \in Nat /\ outs <= outs'
<1>1. outs \in Nat
  BY Sizes DEF LogType
<1>2. outs' = outs \/ outs' = outs + 1
  BY Zenon DEF LogStep, LogCut, LogIn, LogStart, LogJoin, LogSay, LogEnd
<1>3. QED BY <1>1, <1>2

LEMMA BaseParts ==
  ASSUME BaseInv
  PROVE  /\ WorldType /\ LogType /\ ConnType /\ InType /\ HistType /\ SaveType /\ OutType
         /\ LogFits /\ AdmitFits /\ StepsFit /\ InboxType /\ ChainType
         /\ \A w \in Slots : \A s \in task[w].steps : s \in Step
BY TypeParts DEF BaseInv, InType, OutType, Tasks

LEMMA NextLogIs ==
  ASSUME BaseInv, Next
  PROVE  LogStep
BY BaseParts, NextLog DEF WorldType

LEMMA SaidNext ==
  ASSUME BaseInv, StepsSaid, Next
  PROVE  StepsSaid'
<1>0. /\ WorldType /\ LogType /\ LogFits /\ OutType /\ StepsFit /\ LogStep
      /\ \A w \in Slots : \A s \in task[w].steps : s \in Step
      /\ outs \in Nat /\ outs' \in Nat /\ outs <= outs'
  BY BaseParts, NextLogIs, OutsGrow
<1>1. ASSUME NEW o \in Outs, outs' < o PROVE delivered'[o] = 0
  <2>1. outs < o /\ delivered[o] = 0 /\ o \in Nat /\ delivered \in [Outs -> Nat]
    BY <1>0, <1>1 DEF StepsSaid, Outs, WorldType
  <2>2. ASSUME NEW w \in Slots, Receives(w) PROVE delivered'[o] = 0
    <3>1. task[w].stage = "send" /\ delivered' = [delivered EXCEPT ![Now(w).out] = @ + 1]
      BY <2>2 DEF Receives
    <3>2. Now(w) \in task[w].steps /\ Now(w).out \in Outs
      BY <1>0, <3>1, AtStep
    <3>3. Now(w).out <= outs
      BY <3>2 DEF StepsSaid
    <3>4. Now(w).out # o
      BY <1>0, <2>1, <3>2, <3>3 DEF Outs
    <3>5. QED BY <2>1, <3>1, <3>4
  <2>3. QED BY <2>1, <2>2, NextReceived
<1>2. ASSUME NEW w \in Slots, NEW s \in task'[w].steps
      PROVE  /\ s.out <= outs'
             /\ \A p \in 1..Len(log') : s.out # 0 /\ log'[p].out = s.out => p <= s.at
  <2>1. CASE \E v \in Slots : s \in task[v].steps
    <3>1. PICK v \in Slots : s \in task[v].steps
      BY <2>1
    <3>2. s \in Step /\ s.out \in Nat /\ s.out <= outs
      BY <1>0, <3>1, Sizes DEF StepsSaid, Step
    <3>3. ASSUME NEW p \in 1..Len(log'), s.out # 0, log'[p].out = s.out PROVE p <= s.at
      <4>1. s.out # outs + 1
        BY <1>0, <3>2
      <4>2. p \in 1..Len(log) /\ log'[p] = log[p]
        BY <1>0, <3>3, <4>1, OutsAppear
      <4>3. QED BY <3>1, <3>3, <4>2 DEF StepsSaid
    <3>4. QED BY <1>0, <3>2, <3>3
  <2>2. CASE log' = log /\ outs' = outs /\ \E S \in SUBSET (1..Len(log)) : s \in StepsOf(S)
    <3>1. PICK S \in SUBSET (1..Len(log)) : s \in StepsOf(S)
      BY <2>2
    <3>2. s.out \in 0..outs /\ \A p \in 1..Len(log) : s.out # 0 /\ log[p].out = s.out => p <= s.at
      BY <1>0, <3>1, StepsOfFit
    <3>3. QED BY <1>0, <2>2, <3>2
  <2>3. QED BY <2>1, <2>2, NextTasks
<1>3. QED BY <1>1, <1>2 DEF StepsSaid

LEMMA OneIs == \A b, c \in BOOLEAN : One(b) \in {0, 1} /\ (b => One(b) = 1) /\ (~b => One(b) = 0) /\ ((b => c) => One(b) <= One(c))
BY DEF One

(* Nobody receives anything, no task has more, and none finds more but what *)
(* is new or doubtful.                                                      *)
LEMMA CountStays ==
  ASSUME BaseInv, SentCount, StepsSaid, NEW o \in Outs,
         delivered'[o] = delivered[o], doubts' \in {doubts, doubts + 1},
         o \in OutsOf("late")' => o \in OutsOf("late"),
         (o \in OutsOf("run") \/ Ahead(o))' =>
            (o \in OutsOf("run") \/ Ahead(o)) \/ outs < o \/ doubts' = doubts + 1
  PROVE  (delivered[o] + One(o \in OutsOf("late")) + One(o \in OutsOf("run") \/ Ahead(o)) <= 1 + doubts)'
<1>1. /\ delivered[o] \in Nat /\ doubts \in Nat /\ o \in Nat
      /\ delivered[o] + One(o \in OutsOf("late")) + One(o \in OutsOf("run") \/ Ahead(o)) <= 1 + doubts
  BY BaseParts DEF WorldType, SentCount, Outs
<1>2. PICK l, r, l2, r2 \in {0, 1} :
         /\ l = One(o \in OutsOf("late")) /\ r = One(o \in OutsOf("run") \/ Ahead(o))
         /\ l2 = One(o \in OutsOf("late"))' /\ r2 = One(o \in OutsOf("run") \/ Ahead(o))'
  BY DEF One
<1>3. l2 <= l
  BY <1>2 DEF One
<1>4. r2 <= r \/ outs < o \/ doubts' = doubts + 1
  BY <1>2 DEF One
<1>5. CASE outs < o
  <2>1. delivered[o] = 0
    BY <1>5 DEF StepsSaid
  <2>2. \A s \in task["late"].steps : s.out <= outs
    BY DEF StepsSaid, Slots
  <2>3. \A s \in task["late"].steps : s.out \in 0..MaxOuts
    BY BaseParts DEF Step, Slots
  <2>4. o \notin OutsOf("late")
    <3>1. outs \in Nat
      BY BaseParts, Sizes DEF LogType
    <3>2. QED BY <1>1, <1>5, <2>2, <3>1 DEF OutsOf
  <2>5. l = 0
    BY <1>2, <2>4 DEF One
  <2>6. QED BY <1>1, <1>2, <1>3, <2>1, <2>5
<1>6. CASE ~(outs < o)
  BY <1>1, <1>2, <1>3, <1>4, <1>6
<1>7. QED BY <1>5, <1>6

(* What a flush will find: nothing new but what is being said, or what a    *)
(* return of the cursor uncovers.                                           *)
LEMMA AheadStays ==
  ASSUME BaseInv, LogStep, cursor' = cursor, NEW o \in Outs, Ahead(o)'
  PROVE  Ahead(o) \/ outs < o
<1>1. PICK p \in 1..Len(log') : cursor < p /\ log'[p].out = o
  BY DEF Ahead
<1>2. o # 0 /\ outs \in Nat
  BY BaseParts, Sizes DEF Outs, LogType
<1>3. CASE p \in 1..Len(log) /\ log'[p] = log[p]
  BY <1>1, <1>3 DEF Ahead
<1>4. CASE log'[p].out = outs + 1
  BY <1>1, <1>2, <1>4
<1>5. QED BY <1>1, <1>2, <1>3, <1>4, BaseParts, OutsAppear

LEMMA AheadMoves ==
  ASSUME BaseInv, log' = log, cursor' \in Nat \cup {NoCursor},
         cursor' < cursor /\ cursor' < Len(log) => doubts' = doubts + 1,
         NEW o, Ahead(o)'
  PROVE  Ahead(o) \/ doubts' = doubts + 1
<1>1. PICK p \in 1..Len(log) : cursor' < p /\ log[p].out = o
  BY DEF Ahead
<1>2. PICK n \in Nat : n = Len(log)
  BY BaseParts DEF LogType
<1>3. p \in Nat /\ p <= n
  BY <1>2
<1>4. cursor \in Nat \cup {NoCursor} /\ NoCursor = -1
  BY BaseParts DEF SaveType, NoCursor
<1>5. CASE cursor < p
  BY <1>1, <1>5 DEF Ahead
<1>6. CASE ~(cursor < p)
  <2>1. cursor' < cursor /\ cursor' < n
    BY <1>1, <1>3, <1>4, <1>6
  <2>2. QED BY <1>2, <2>1
<1>7. QED BY <1>5, <1>6

LEMMA OutsShrink ==
  ASSUME NEW w, task'[w].steps \subseteq task[w].steps, NEW o, o \in OutsOf(w)'
  PROVE  o \in OutsOf(w)
BY DEF OutsOf

LEMMA CountIs ==
  ASSUME BaseInv, SentCount, NEW o \in Outs
  PROVE  /\ delivered[o] \in Nat /\ doubts \in Nat /\ o \in Nat /\ o # 0 /\ delivered \in [Outs -> Nat]
         /\ delivered[o] + One(o \in OutsOf("late")) + One(o \in OutsOf("run") \/ Ahead(o)) <= 1 + doubts
BY BaseParts DEF WorldType, SentCount, Outs

(* One receives it that a task was sending.                                 *)
LEMMA CountFalls ==
  ASSUME BaseInv, SentCount, NEW o \in Outs, NEW w \in Slots, o \in OutsOf(w),
         delivered'[o] = delivered[o] + 1, doubts' \in {doubts, doubts + 1},
         doubts' = doubts =>
           /\ o \in OutsOf("late")' => o \in OutsOf("late") /\ w # "late"
           /\ (o \in OutsOf("run") \/ Ahead(o))' => (o \in OutsOf("run") \/ Ahead(o)) /\ w # "run",
         doubts' # doubts => o \notin OutsOf("late")' \/ (o \in OutsOf("late") /\ w = "run")
                             \/ (o \in OutsOf("late") /\ ((o \in OutsOf("run") \/ Ahead(o))' => (o \in OutsOf("run") \/ Ahead(o))))
  PROVE  (delivered[o] + One(o \in OutsOf("late")) + One(o \in OutsOf("run") \/ Ahead(o)) <= 1 + doubts)'
<1>1. /\ delivered[o] \in Nat /\ doubts \in Nat
      /\ delivered[o] + One(o \in OutsOf("late")) + One(o \in OutsOf("run") \/ Ahead(o)) <= 1 + doubts
  BY CountIs
<1>2. PICK l, r, l2, r2 \in {0, 1} :
         /\ l = One(o \in OutsOf("late")) /\ r = One(o \in OutsOf("run") \/ Ahead(o))
         /\ l2 = One(o \in OutsOf("late"))' /\ r2 = One(o \in OutsOf("run") \/ Ahead(o))'
  BY DEF One
<1>3. /\ l = 1 <=> o \in OutsOf("late")
      /\ r = 1 <=> o \in OutsOf("run") \/ Ahead(o)
      /\ l2 = 1 <=> (o \in OutsOf("late"))'
      /\ r2 = 1 <=> (o \in OutsOf("run") \/ Ahead(o))'
  BY <1>2 DEF One
<1>4. w = "late" \/ w = "run"
  BY DEF Slots
<1>5. (w = "late" => l = 1) /\ (w = "run" => r = 1)
  BY <1>3
<1>6. CASE doubts' = doubts
  <2>1. l2 = 1 => l = 1 /\ w # "late"
    BY <1>3, <1>6
  <2>2. r2 = 1 => r = 1 /\ w # "run"
    BY <1>3, <1>6
  <2>3. QED BY <1>1, <1>2, <1>4, <1>5, <1>6, <2>1, <2>2
<1>7. CASE doubts' # doubts
  <2>1. l2 = 0 \/ (l = 1 /\ w = "run") \/ (l = 1 /\ (r2 = 1 => r = 1))
    BY <1>3, <1>7
  <2>2. QED BY <1>1, <1>2, <1>4, <1>5, <1>7, <2>1
<1>8. QED BY <1>6, <1>7

(* Everything that lets nobody receive anything.                            *)
LEMMA CountKeeps ==
  ASSUME BaseInv, StepsSaid, SentCount, NEW o \in Outs, LogStep,
         delivered' = delivered, doubts' \in {doubts, doubts + 1}, cursor' \in Nat \cup {NoCursor},
         \A w \in Slots : task'[w].steps \subseteq task[w].steps,
         \/ cursor' = cursor
         \/ log' = log /\ (cursor' < cursor /\ cursor' < Len(log) => doubts' = doubts + 1)
  PROVE  (delivered[o] + One(o \in OutsOf("late")) + One(o \in OutsOf("run") \/ Ahead(o)) <= 1 + doubts)'
<1>1. "late" \in Slots /\ "run" \in Slots
  BY DEF Slots
<1>2. ASSUME Ahead(o)' PROVE Ahead(o) \/ outs < o \/ doubts' = doubts + 1
  BY <1>2, AheadStays, AheadMoves
<1>3. o \in OutsOf("late")' => o \in OutsOf("late")
  BY <1>1, OutsShrink
<1>4. o \in OutsOf("run")' => o \in OutsOf("run")
  BY <1>1, OutsShrink
<1>5. delivered'[o] = delivered[o]
  OBVIOUS
<1>6. (o \in OutsOf("run") \/ Ahead(o))' => (o \in OutsOf("run") \/ Ahead(o)) \/ outs < o \/ doubts' = doubts + 1
  BY <1>2, <1>4
<1>7. QED BY <1>3, <1>5, <1>6, CountStays

(* Advances, as the count sees it.                                          *)
LEMMA AdvancesIs ==
  ASSUME BaseInv, NEW w \in Slots, NEW t, NEW c \in Nat, Advances(w, t, c)
  PROVE  /\ cursor' = c /\ doubts' \in {doubts, doubts + 1}
         /\ cursor' < cursor /\ cursor' < Len(log) => doubts' = doubts + 1
BY DEF Advances

LEMMA CountQuiet ==
  ASSUME BaseInv, StepsSaid, SentCount, NEW o \in Outs, LogStep, SaveType',
         Connection \/ Inbound \/ Agent \/ Stop \/ Acks \/ FlushSkips \/ SaveEnds
  PROVE  (delivered[o] + One(o \in OutsOf("late")) + One(o \in OutsOf("run") \/ Ahead(o)) <= 1 + doubts)'
<1>1. cursor' \in Nat \cup {NoCursor} /\ doubts \in {doubts, doubts + 1}
  BY DEF SaveType
<1>2. CASE Acks \/ FlushSkips
  <2>1. delivered' = delivered /\ doubts' = doubts /\ cursor' = cursor /\ task' = task
    BY <1>2, Zenon DEF Acks, FlushSkips, worldVars, histVars
  <2>2. QED BY <1>1, <2>1, CountKeeps
<1>3. CASE Connection \/ Agent \/ Stop
  <2>1. delivered' = delivered /\ doubts' = doubts /\ cursor' = cursor /\ task' = task
    BY <1>3, ConnectionKeeps, AgentKeeps, StopKeeps DEF worldVars, outVars
  <2>2. QED BY <1>1, <2>1, CountKeeps
<1>4. CASE SaveEnds
  <2>1. delivered' = delivered /\ doubts' = doubts /\ cursor' = cursor
    BY <1>4, SaveEndsKeeps DEF worldVars
  <2>2. task' = [v \in Slots |-> [task[v] EXCEPT !.stage = CASE task[v].stage = "write" -> "next"
                                     [] task[v].stage = "save" -> "write" [] OTHER -> task[v].stage]]
    BY <1>4, Zenon DEF SaveEnds
  <2>3. ASSUME NEW w \in Slots PROVE task'[w].steps \subseteq task[w].steps
    <3>1. PICK t \in Tasks, x \in TaskStages \cup {task[w].stage} : t = task[w] /\ task'[w] = [t EXCEPT !.stage = x]
      BY <2>2, BaseParts DEF OutType, TaskStages
    <3>2. QED BY <3>1 DEF Tasks
  <2>4. QED BY <1>1, <2>1, <2>3, CountKeeps
<1>5. CASE Inbound
  <2>1. delivered' = delivered /\ doubts' = doubts /\ task' = task
    BY <1>5, InboundKeeps
  <2>2. cursor' = cursor \/ (log' = log /\ cursor = NoCursor)
    BY <1>5, Zenon DEF Inbound, AdmitStarts, AgentAttached, AgentFails, AdmitFlushes, Receive,
                       AdmitCoalesces, AdmitEnters, worldVars
  <2>3. cursor' = cursor \/ (log' = log /\ (cursor' < cursor /\ cursor' < Len(log) => doubts' = doubts + 1))
    BY <1>1, <2>2 DEF NoCursor
  <2>4. QED BY <1>1, <2>1, <2>3, CountKeeps
<1>6. QED BY <1>2, <1>3, <1>4, <1>5

LEMMA CountWorks ==
  ASSUME BaseInv, StepsSaid, SentCount, NEW o \in Outs, LogStep, SaveType', NEW w \in Slots,
         Working(w), ~SendReturns(w), ~SendFails(w)
  PROVE  (delivered[o] + One(o \in OutsOf("late")) + One(o \in OutsOf("run") \/ Ahead(o)) <= 1 + doubts)'
<1>1. PICK u \in Tasks : task' = [task EXCEPT ![w] = u] /\ u.steps \subseteq task[w].steps
  BY BaseParts, WorkingTask
<1>2. ASSUME NEW v \in Slots PROVE task'[v].steps \subseteq task[v].steps
  <2>1. task'[v] = IF v = w THEN u ELSE task[v]
    BY <1>1, BaseParts DEF OutType
  <2>2. QED BY <1>1, <2>1
<1>3. log' = log /\ cursor' \in Nat \cup {NoCursor}
  BY WorkingKeeps DEF SaveType
<1>4. CASE QueryAnswers(w) \/ FlushEnds(w) \/ StepSends(w) \/ StepOffline(w)
  <2>1. delivered' = delivered /\ doubts' = doubts /\ cursor' = cursor
    BY <1>4, Zenon DEF QueryAnswers, FlushEnds, StepSends, StepOffline, worldVars, histVars
  <2>2. QED BY <1>2, <1>3, <2>1, CountKeeps
<1>5. CASE StepPasses(w) \/ SendSwallows(w)
  <2>1. delivered' = delivered /\ Advances(w, Later(w), Now(w).at)
    BY <1>5, Zenon DEF StepPasses, SendSwallows, worldVars
  <2>2. task[w].stage = "send" \/ (task[w].stage = "next" /\ task[w].steps # {})
    BY <1>5, Zenon DEF StepPasses, SendSwallows
  <2>3. Now(w).at \in Nat
    BY <2>2, BaseParts, AtStep
  <2>4. QED BY <1>2, <1>3, <2>1, <2>3, AdvancesIs, CountKeeps
<1>6. CASE QueryFails(w)
  <2>1. delivered' = delivered /\ Advances(w, Flush, task[w].gap)
    BY <1>6, Zenon DEF QueryFails, worldVars
  <2>2. task[w].gap \in Nat
    BY BaseParts DEF OutType, Tasks
  <2>3. QED BY <1>2, <1>3, <2>1, <2>2, AdvancesIs, CountKeeps
<1>7. QED BY <1>4, <1>5, <1>6, Zenon DEF Working

LEMMA CountStarts ==
  ASSUME BaseInv, StepsSaid, SentCount, NEW o \in Outs, LogStep, SaveType',
         FlushResets \/ FlushReads \/ TimesOut
  PROVE  (delivered[o] + One(o \in OutsOf("late")) + One(o \in OutsOf("run") \/ Ahead(o)) <= 1 + doubts)'
<1>0. /\ log' = log /\ delivered' = delivered /\ outs' = outs /\ cursor' \in Nat \cup {NoCursor}
      /\ task \in [Slots -> Tasks] /\ "run" \in Slots /\ "late" \in Slots
      /\ \A v \in Slots : v = "run" \/ v = "late"
  BY StartsKeep, BaseParts DEF Starts, worldVars, agentVars, SaveType, OutType, Slots
<1>1. CASE FlushResets
  <2>1. /\ Advances("run", Flush, Len(log))
        /\ task' = [task EXCEPT !["run"] = [Flush EXCEPT !.stage = Waits]]
    BY <1>1, Zenon DEF FlushResets, Advances, Becomes
  <2>2. [Flush EXCEPT !.stage = Waits].steps = {}
    BY NoTaskIs DEF Tasks
  <2>3. ASSUME NEW v \in Slots PROVE task'[v].steps \subseteq task[v].steps
    BY <1>0, <2>1, <2>2
  <2>4. Len(log) \in Nat
    BY BaseParts DEF LogType
  <2>5. /\ cursor' = Len(log) /\ doubts' \in {doubts, doubts + 1}
        /\ cursor' < cursor /\ cursor' < Len(log) => doubts' = doubts + 1
    BY <1>0, <2>1, <2>4, AdvancesIs
  <2>6. QED BY <1>0, <2>3, <2>5, CountKeeps
<1>2. CASE FlushReads
  <2>1. PICK S \in SUBSET {p \in 1..Len(log) : cursor < p}, u \in Tasks :
            /\ task["run"] = NoTask /\ task' = [task EXCEPT !["run"] = u]
            /\ u.steps = StepsOf(S)
    BY <1>2, BaseParts, FlushTask DEF SaveType
  <2>2. doubts' = doubts /\ cursor' = cursor
    BY <1>2, Zenon DEF FlushReads, histVars
  <2>3. task'["run"] = u /\ task'["late"] = task["late"] /\ S \in SUBSET (1..Len(log))
    BY <1>0, <2>1
  <2>4. ASSUME o \in OutsOf("run")' PROVE Ahead(o)
    <3>1. PICK s \in StepsOf(S) : s.out = o /\ o # 0
      BY <2>1, <2>3, <2>4 DEF OutsOf
    <3>2. SaysBy(s.out, S, s.at)
      BY <2>3, <3>1, BaseParts, StepsOfAre
    <3>3. PICK q \in S : log[q].out = o
      BY <3>1, <3>2 DEF SaysBy
    <3>4. q \in 1..Len(log) /\ cursor < q
      BY <2>1
    <3>5. QED BY <3>3, <3>4 DEF Ahead
  <2>5. Ahead(o)' => Ahead(o)
    BY <1>0, <2>2 DEF Ahead
  <2>6. o \in OutsOf("late")' => o \in OutsOf("late")
    BY <2>3, OutsShrink
  <2>7. (o \in OutsOf("run") \/ Ahead(o))' => (o \in OutsOf("run") \/ Ahead(o)) \/ outs < o \/ doubts' = doubts + 1
    BY <2>4, <2>5
  <2>8. delivered'[o] = delivered[o] /\ doubts' \in {doubts, doubts + 1}
    BY <1>0, <2>2
  <2>9. QED BY <2>6, <2>7, <2>8, CountStays
<1>3. CASE TimesOut
  <2>1. task' = [run |-> NoTask, late |-> task["run"]] /\ task["late"] = NoTask /\ doubts' = doubts + 1
    BY <1>3, Zenon DEF TimesOut
  <2>2. o \notin OutsOf("late") /\ (o \in OutsOf("late")' => o \in OutsOf("run"))
    BY <2>1, NoTaskIs DEF OutsOf
  <2>3. PICK l, r, l2, r2 \in {0, 1} :
           /\ l = One(o \in OutsOf("late")) /\ r = One(o \in OutsOf("run") \/ Ahead(o))
           /\ l2 = One(o \in OutsOf("late"))' /\ r2 = One(o \in OutsOf("run") \/ Ahead(o))'
    BY DEF One
  <2>4. l2 <= r
    BY <2>2, <2>3 DEF One
  <2>5. /\ delivered[o] \in Nat /\ doubts \in Nat
        /\ delivered[o] + l + r <= 1 + doubts
    BY <2>3, CountIs
  <2>6. delivered'[o] + l2 + r2 <= 1 + doubts'
    BY <1>0, <2>1, <2>3, <2>4, <2>5
  <2>7. QED BY <2>3, <2>6
<1>4. QED BY <1>1, <1>2, <1>3

(* A send that returns, or of which it is not known whether it has.         *)
LEMMA CountSends ==
  ASSUME BaseInv, StepsSaid, SentCount, NEW o \in Outs, LogStep, SaveType', NEW w \in Slots,
         SendReturns(w) \/ SendFails(w)
  PROVE  (delivered[o] + One(o \in OutsOf("late")) + One(o \in OutsOf("run") \/ Ahead(o)) <= 1 + doubts)'
<1>0. /\ Working(w) /\ task \in [Slots -> Tasks] /\ log' = log /\ cursor' \in Nat \cup {NoCursor}
      /\ "run" \in Slots /\ "late" \in Slots /\ (w = "run" \/ w = "late")
  BY BaseParts, WorkingKeeps DEF OutType, Working, SaveType, Slots
<1>1. PICK u \in Tasks : task' = [task EXCEPT ![w] = u] /\ u.steps \subseteq task[w].steps
  BY <1>0, BaseParts, WorkingTask
<1>2. ASSUME NEW v \in Slots PROVE task'[v].steps \subseteq task[v].steps /\ (v # w => task'[v] = task[v])
  <2>1. task'[v] = IF v = w THEN u ELSE task[v]
    BY <1>0, <1>1
  <2>2. QED BY <1>1, <2>1
<1>3. task[w].stage = "send"
  BY Zenon DEF SendReturns, SendFails
<1>4. Now(w) \in task[w].steps /\ Now(w).at \in Nat /\ Now(w).out \in Outs
  BY <1>3, BaseParts, AtStep
<1>5. Now(w).out \in OutsOf(w)
  BY <1>4, Sizes DEF OutsOf, Outs
<1>6. CASE SendReturns(w)
  <2>1. /\ Advances(w, Later(w), Now(w).at) /\ delivered' = [delivered EXCEPT ![Now(w).out] = @ + 1]
        /\ task' = [task EXCEPT ![w] = [Later(w) EXCEPT !.stage = Waits]]
    BY <1>6, Zenon DEF SendReturns, Delivers, Advances, Becomes
  <2>2. /\ cursor' = Now(w).at /\ doubts' \in {doubts, doubts + 1}
        /\ cursor' < cursor /\ cursor' < Len(log) => doubts' = doubts + 1
    BY <1>4, <2>1, AdvancesIs
  <2>3. CASE o # Now(w).out
    <3>1. delivered'[o] = delivered[o]
      BY <2>1, <2>3, CountIs
    <3>2. o \in OutsOf("late")' => o \in OutsOf("late")
      BY <1>0, <1>2, OutsShrink
    <3>3. o \in OutsOf("run")' => o \in OutsOf("run")
      BY <1>0, <1>2, OutsShrink
    <3>4. Ahead(o)' => Ahead(o) \/ doubts' = doubts + 1
      BY <1>0, <2>2, AheadMoves
    <3>5. (o \in OutsOf("run") \/ Ahead(o))' => (o \in OutsOf("run") \/ Ahead(o)) \/ outs < o \/ doubts' = doubts + 1
      BY <3>3, <3>4
    <3>6. QED BY <2>2, <3>1, <3>2, <3>5, CountStays
  <2>4. CASE o = Now(w).out
    <3>1. delivered'[o] = delivered[o] + 1
      BY <2>1, <2>4, CountIs
    <3>2. ~Ahead(o)'
      <4>1. ASSUME NEW p \in 1..Len(log), log[p].out = o PROVE ~(cursor' < p)
        <5>1. p <= Now(w).at
          BY <1>4, <2>4, <4>1, CountIs DEF StepsSaid
        <5>2. p \in Nat
          BY BaseParts DEF LogType
        <5>3. QED BY <1>4, <2>2, <5>1, <5>2
      <4>2. QED BY <1>0, <4>1 DEF Ahead
    <3>3. o \notin OutsOf(w)'
      <4>1. PICK r \in Tasks : r = task[w]
        BY <1>0
      <4>2. Later(w) = [r EXCEPT !.steps = r.steps \ {Now(w)}]
        BY <4>1 DEF Later
      <4>3. task'[w].steps = task[w].steps \ {Now(w)}
        BY <1>0, <2>1, <4>1, <4>2 DEF Tasks
      <4>4. ASSUME NEW s \in task[w].steps, s.out = o PROVE s = Now(w)
        BY <1>4, <2>4, <4>4, BaseParts, CountIs DEF StepsFit
      <4>5. QED BY <4>3, <4>4 DEF OutsOf
    <3>4. /\ o \in OutsOf("late")' => o \in OutsOf("late") /\ w # "late"
          /\ (o \in OutsOf("run") \/ Ahead(o))' => (o \in OutsOf("run") \/ Ahead(o)) /\ w # "run"
      BY <1>0, <1>2, <3>2, <3>3, OutsShrink
    <3>5. doubts' # doubts => o \notin OutsOf("late")' \/ (o \in OutsOf("late") /\ w = "run")
                             \/ (o \in OutsOf("late") /\ ((o \in OutsOf("run") \/ Ahead(o))' => (o \in OutsOf("run") \/ Ahead(o))))
      BY <3>4
    <3>6. o \in OutsOf(w)
      BY <1>5, <2>4
    <3>7. QED BY <2>2, <3>1, <3>4, <3>5, <3>6, CountFalls
  <2>5. QED BY <2>3, <2>4
<1>7. CASE SendFails(w)
  <2>1. /\ cursor' = cursor
        /\ \/ delivered' = delivered /\ doubts' = doubts
           \/ delivered' = [delivered EXCEPT ![Now(w).out] = @ + 1] /\ doubts' = doubts + 1
    BY <1>7, Zenon DEF SendFails, Delivers, worldVars
  <2>2. CASE delivered' = delivered /\ doubts' = doubts
    BY <1>0, <1>2, <2>1, <2>2, CountKeeps
  <2>3. CASE delivered' = [delivered EXCEPT ![Now(w).out] = @ + 1] /\ doubts' = doubts + 1 /\ o # Now(w).out
    <3>1. delivered'[o] = delivered[o]
      BY <2>3, CountIs
    <3>2. o \in OutsOf("late")' => o \in OutsOf("late")
      BY <1>0, <1>2, OutsShrink
    <3>3. QED BY <2>3, <3>1, <3>2, CountStays
  <2>4. CASE delivered' = [delivered EXCEPT ![Now(w).out] = @ + 1] /\ doubts' = doubts + 1 /\ o = Now(w).out
    <3>1. delivered'[o] = delivered[o] + 1
      BY <2>4, CountIs
    <3>2. o \in OutsOf(w) /\ o \notin OutsOf(w)'
      <4>1. task' = [task EXCEPT ![w] = NoTask]
        BY <1>7, Zenon DEF SendFails, Becomes
      <4>2. task'[w].steps = {}
        BY <1>0, <4>1, NoTaskIs
      <4>3. QED BY <1>5, <2>4, <4>2 DEF OutsOf
    <3>3. o \in OutsOf("late")' => o \in OutsOf("late")
      BY <1>0, <1>2, OutsShrink
    <3>4. o \notin OutsOf("late")' \/ (o \in OutsOf("late") /\ w = "run")
      BY <1>0, <3>2, <3>3
    <3>5. doubts' # doubts
      BY <2>4, CountIs
    <3>6. QED BY <2>4, <3>1, <3>2, <3>4, <3>5, CountFalls
  <2>5. QED BY <2>1, <2>2, <2>3, <2>4
<1>8. QED BY <1>6, <1>7

(* The process ends.                                                        *)
LEMMA CountEnds ==
  ASSUME BaseInv, StepsSaid, SentCount, NEW o \in Outs, LogStep, SaveType', Crash \/ StopDone
  PROVE  (delivered[o] + One(o \in OutsOf("late")) + One(o \in OutsOf("run") \/ Ahead(o)) <= 1 + doubts)'
<1>1. task' = [w \in Slots |-> NoTask]
  BY Zenon DEF Crash, StopDone, Begins
<1>2. o \notin OutsOf("late")' /\ o \notin OutsOf("run")'
  BY <1>1, NoTaskIs DEF OutsOf, Slots
<1>3. delivered' = delivered \/ \E w \in Slots : Receives(w)
  BY Zenon DEF Crash, StopDone, Receives
<1>4. /\ Crash => doubts' = doubts + 1
      /\ StopDone => /\ doubts' = doubts /\ log' = log /\ cursor' = Snapshot(outbox, cursor).cursor
                     /\ task["run"] = NoTask
  BY Zenon DEF Crash, StopDone, Begins
<1>5. Snapshot(outbox, cursor).cursor = cursor
  BY DEF Snapshot
<1>6. CASE delivered'[o] = delivered[o]
  <2>1. Ahead(o)' => Ahead(o) \/ doubts' = doubts + 1
    BY <1>4, <1>5 DEF Ahead
  <2>2. (o \in OutsOf("run") \/ Ahead(o))' => (o \in OutsOf("run") \/ Ahead(o)) \/ outs < o \/ doubts' = doubts + 1
    BY <1>2, <2>1
  <2>3. doubts' \in {doubts, doubts + 1}
    BY <1>4
  <2>4. QED BY <1>2, <1>6, <2>2, <2>3, CountStays
<1>7. ASSUME NEW w \in Slots, Receives(w), Now(w).out = o
      PROVE  (delivered[o] + One(o \in OutsOf("late")) + One(o \in OutsOf("run") \/ Ahead(o)) <= 1 + doubts)'
  <2>1. task[w].stage = "send" /\ delivered'[o] = delivered[o] + 1
    BY <1>7, CountIs DEF Receives
  <2>2. Now(w) \in task[w].steps
    BY <2>1, BaseParts, AtStep
  <2>3. o \in OutsOf(w)
    BY <1>7, <2>2, CountIs DEF OutsOf
  <2>4. doubts' \in {doubts, doubts + 1}
    BY <1>4
  <2>5. ASSUME doubts' = doubts
        PROVE  (o \in OutsOf("run") \/ Ahead(o))' => (o \in OutsOf("run") \/ Ahead(o)) /\ w # "run"
    <3>1. StopDone
      BY <1>4, <2>5, CountIs
    <3>2. w # "run"
      BY <1>4, <2>1, <3>1, NoTaskIs
    <3>3. QED BY <1>2, <1>4, <1>5, <3>1, <3>2 DEF Ahead
  <2>6. doubts' # doubts => o \notin OutsOf("late")'
    BY <1>2
  <2>7. QED BY <1>2, <2>1, <2>3, <2>4, <2>5, <2>6, CountFalls
<1>8. ASSUME NEW w \in Slots, Receives(w), Now(w).out # o PROVE delivered'[o] = delivered[o]
  BY <1>8, CountIs DEF Receives
<1>9. QED BY <1>3, <1>6, <1>7, <1>8

LEMMA CountNext ==
  ASSUME BaseInv, StepsSaid, SentCount, Next
  PROVE  SentCount'
<1>1. LogStep /\ SaveType'
  <2>1. BaseInv'
    BY BaseNext
  <2>2. (BaseInv => SaveType)'
    BY BaseParts, PTL
  <2>3. QED BY <2>1, <2>2, NextLogIs
<1>2. SUFFICES ASSUME NEW o \in Outs
               PROVE  (delivered[o] + One(o \in OutsOf("late")) + One(o \in OutsOf("run") \/ Ahead(o)) <= 1 + doubts)'
  BY DEF SentCount
<1>3. CASE Connection \/ Inbound \/ Agent \/ Stop \/ Acks \/ FlushSkips \/ SaveEnds
  BY <1>1, <1>3, CountQuiet
<1>4. CASE FlushResets \/ FlushReads \/ TimesOut
  BY <1>1, <1>4, CountStarts
<1>5. ASSUME NEW w \in Slots, Working(w)
      PROVE  (delivered[o] + One(o \in OutsOf("late")) + One(o \in OutsOf("run") \/ Ahead(o)) <= 1 + doubts)'
  BY <1>1, <1>5, CountWorks, CountSends
<1>6. CASE Crash \/ StopDone
  BY <1>1, <1>6, CountEnds
<1>7. QED BY <1>3, <1>4, <1>5, <1>6, Zenon DEF Next, Outbound, Starts

LEMMA SentUnchanged ==
  ASSUME StepsSaid, SentCount, UNCHANGED vars
  PROVE  StepsSaid' /\ SentCount'
<1>1. /\ task' = task /\ log' = log /\ outs' = outs /\ delivered' = delivered
      /\ cursor' = cursor /\ doubts' = doubts
  BY DEF vars, worldVars, agentVars, outVars, histVars
<1>2. StepsSaid'
  BY <1>1, SMT DEF StepsSaid
<1>3. SentCount'
  BY <1>1, SMT DEF SentCount, OutsOf, Ahead
<1>4. QED BY <1>2, <1>3

LEMMA SentInit == Init => StepsSaid /\ SentCount
<1> SUFFICES ASSUME Init PROVE StepsSaid /\ SentCount
  OBVIOUS
<1>1. /\ log = <<>> /\ outs = 0 /\ delivered = [o \in Outs |-> 0] /\ doubts = 0
      /\ task = [w \in Slots |-> NoTask]
  BY Zenon DEF Init
<1>2. \A w \in Slots : task[w].steps = {}
  BY <1>1, NoTaskIs
<1>3. StepsSaid
  BY <1>1, <1>2 DEF StepsSaid
<1>4. ASSUME NEW o \in Outs
      PROVE  delivered[o] + One(o \in OutsOf("late")) + One(o \in OutsOf("run") \/ Ahead(o)) <= 1 + doubts
  <2>1. o \notin OutsOf("late") /\ o \notin OutsOf("run")
    BY <1>2 DEF OutsOf, Slots
  <2>2. ~Ahead(o)
    BY <1>1 DEF Ahead
  <2>3. QED BY <1>1, <2>1, <2>2 DEF One
<1>5. QED BY <1>3, <1>4 DEF SentCount

(* Nobody receives an output more often than the doubts allow.              *)
THEOREM SentOnceEach == Spec => []SentOnce
<1>1. Init => BaseInv /\ StepsSaid /\ SentCount
  BY BaseInit, SentInit
<1>2. BaseInv /\ StepsSaid /\ SentCount /\ [Next]_vars => (BaseInv /\ StepsSaid /\ SentCount)'
  BY BaseNext, SaidNext, CountNext, SentUnchanged
<1>3. BaseInv /\ SentCount => SentOnce
  <2>1. ASSUME BaseInv, SentCount, NEW o \in Outs PROVE delivered[o] <= 1 + doubts
    <3>1. One(o \in OutsOf("late")) \in {0, 1} /\ One(o \in OutsOf("run") \/ Ahead(o)) \in {0, 1}
      BY DEF One
    <3>2. QED BY <2>1, <3>1, CountIs
  <2>2. QED BY <2>1 DEF SentOnce
<1>4. QED BY <1>1, <1>2, <1>3, PTL DEF Spec

-----------------------------------------------------------------------------
(* What is owed: in mode "message" all that was said; in mode "turn" the    *)
(* last thing a turn said, unless the turn broke off.                       *)
Due(q) ==
  /\ log[q].type = "say"
  /\ \/ mode.reply = "message"
     \/ /\ \A p \in 1..Len(log) : q < p /\ log[p].type = "say" => log[p].turn # log[q].turn
        /\ \/ log[q].turn = turn
           \/ \E e \in 1..Len(log) : log[e].type = "end" /\ log[e].turn = log[q].turn
Done(o) == o \in dropped \/ delivered[o] > 0
Handled(c) == \A q \in 1..Len(log) : q <= c /\ Due(q) => Done(log[q].out)

(* Nothing owed lies before a cursor, nor among what was pruned.            *)
CursorsFit == Handled(cursor) /\ Handled(file.cursor) /\ Handled(writing.cursor) /\ Handled(live.cut)

(* What is owed before a step of a task is sent by a step that is not later. *)
Covered(steps) ==
  \A s \in steps : \A q \in 1..Len(log) : q <= s.at /\ Due(q) =>
    Done(log[q].out) \/ \E u \in steps : u.at <= s.at /\ u.out = log[q].out
TasksCover == \A w \in Slots : Covered(task[w].steps)

(* The session as this process knows it.                                    *)
UpTo(t, n) == t.gap <= n /\ \A s \in t.steps : s.at <= n
WithinLog ==
  /\ live.cut <= Len(log) /\ live.from <= Len(log) + 1
  /\ \A w \in Slots : UpTo(task[w], Len(log))

(* What is asked of the next state, of a position and of steps.             *)
DoneNext(o) == o \in dropped' \/ delivered'[o] > 0
HandledNext(c) == \A q \in 1..Len(log') : q <= c /\ Due(q)' => DoneNext(log'[q].out)
CoveredNext(steps) ==
  \A s \in steps : \A q \in 1..Len(log') : q <= s.at /\ Due(q)' =>
    DoneNext(log'[q].out) \/ \E u \in steps : u.at <= s.at /\ u.out = log'[q].out

(* How a log gets shorter: with the process, or with the session.           *)
LEMMA NextCut ==
  ASSUME Next
  PROVE  (log' = log /\ turn' \in {0, turn}) \/ log' = <<>> \/ turn' = 0 \/ \E e : log' = Append(log, e)
<1>1. CASE Connection \/ Outbound \/ SaveEnds \/ Stop
  BY <1>1, ConnectionKeeps, StartsKeep, WorkingKeeps, SaveEndsKeeps, StopKeeps
     DEF worldVars, agentVars, Outbound
<1>2. CASE Inbound
  BY <1>2, Zenon DEF Inbound, AdmitStarts, AgentAttached, AgentFails, AdmitFlushes, Receive,
                     AdmitCoalesces, AdmitEnters, Enters, worldVars, agentVars
<1>3. CASE Agent
  BY <1>3, Zenon DEF Agent, TurnStarts, TurnJoined, AgentSays, TurnEnds, GoesIdle, Replaced, Logs, Enters
<1>4. CASE Crash \/ StopDone
  BY <1>4, Zenon DEF Crash, StopDone, Begins
<1>5. QED BY <1>1, <1>2, <1>3, <1>4 DEF Next

(* What is owed was owed before, or is being said.                          *)
LEMMA DueAppend ==
  ASSUME LogType, LogFits, mode' = mode, NEW e, log' = Append(log, e), NEW q \in 1..Len(log'), Due(q)',
         turn' = turn \/ turn' > turns \/ turn' = 0, e.type = "end" => e.turn = turn
  PROVE  \/ q \in 1..Len(log) /\ log'[q] = log[q] /\ Due(q)
         \/ q = Len(log) + 1 /\ log'[q] = e
<1>1. PICK r \in Seq(Events), n \in Nat : r = log /\ n = Len(r)
  BY DEF LogType
<1>2. /\ Len(Append(r, e)) = n + 1 /\ Append(r, e)[n + 1] = e /\ \A i \in 1..n : Append(r, e)[i] = r[i]
      /\ \A i \in 1..(n + 1) : i = n + 1 \/ i \in 1..n
      /\ \A i \in 1..n : i \in 1..(n + 1)
  BY <1>1
<1>3. CASE q = n + 1
  BY <1>1, <1>2, <1>3
<1>4. CASE q \in 1..n
  <2>1. log'[q] = log[q] /\ q \in 1..Len(log)
    BY <1>1, <1>2, <1>4
  <2>2. log[q].type = "say"
    BY <2>1 DEF Due
  <2>3. CASE mode.reply = "message"
    BY <2>1, <2>2, <2>3 DEF Due
  <2>4. CASE mode.reply # "message"
    <3>1. ASSUME NEW p \in 1..Len(log), q < p, log[p].type = "say" PROVE log[p].turn # log[q].turn
      <4>1. p \in 1..Len(log') /\ log'[p] = log[p]
        BY <1>1, <1>2
      <4>2. QED BY <2>1, <2>4, <3>1, <4>1 DEF Due
    <3>2. log[q].turn \in 1..turns /\ turns \in Nat
      BY <2>1, <2>2, Sizes DEF LogFits, LogType
    <3>3. CASE log[q].turn = turn'
      <4>1. log[q].turn = turn
        BY <3>2, <3>3
      <4>2. QED BY <2>1, <2>2, <3>1, <4>1 DEF Due
    <3>4. ASSUME NEW x \in 1..Len(log'), log'[x].type = "end", log'[x].turn = log[q].turn PROVE Due(q)
      <4>1. CASE x = n + 1
        <5>1. log[q].turn = turn
          BY <1>1, <1>2, <3>4, <4>1
        <5>2. QED BY <2>2, <3>1, <5>1 DEF Due
      <4>2. CASE x \in 1..n
        <5>1. x \in 1..Len(log) /\ log'[x] = log[x]
          BY <1>1, <1>2, <4>2
        <5>2. QED BY <2>2, <3>1, <3>4, <5>1 DEF Due
      <4>3. QED BY <1>1, <1>2, <4>1, <4>2
    <3>5. log[q].turn = turn' \/ \E x \in 1..Len(log') : log'[x].type = "end" /\ log'[x].turn = log[q].turn
      BY <2>1, <2>4 DEF Due
    <3>6. QED BY <2>1, <2>2, <3>1, <3>3, <3>4, <3>5 DEF Due
  <2>5. QED BY <2>3, <2>4
<1>5. QED BY <1>1, <1>2, <1>3, <1>4

LEMMA DueCut ==
  ASSUME LogType, LogFits, mode' = mode, LogCut, NEW q \in 1..Len(log'), Due(q)',
         log' = log \/ turn' = 0
  PROVE  q \in 1..Len(log) /\ log'[q] = log[q] /\ Due(q)
<1>1. PICK n \in 0..Len(log) : log' = SubSeq(log, 1, n)
  BY DEF LogCut
<1>2. /\ Len(log') = n /\ n <= Len(log) /\ Len(log) \in Nat
      /\ \A p \in 1..n : log'[p] = log[p] /\ p \in 1..Len(log)
  BY <1>1 DEF LogType
<1>3. q \in 1..Len(log) /\ log'[q] = log[q] /\ log[q].type = "say" /\ q \in Nat
  BY <1>2 DEF Due
<1>4. log[q].turn \in 1..turns /\ turns \in Nat
  BY <1>3, Sizes DEF LogFits, LogType
<1>5. CASE mode.reply = "message"
  BY <1>3, <1>5 DEF Due
<1>6. CASE mode.reply # "message" /\ log' = log
  <2>1. turn' = 0 \/ turn' = turn
    BY DEF LogCut
  <2>2. log[q].turn # 0
    BY <1>4
  <2>3. log[q].turn = turn' => log[q].turn = turn
    BY <2>1, <2>2
  <2>4. QED BY <1>3, <1>6, <2>3 DEF Due
<1>7. CASE mode.reply # "message" /\ turn' = 0
  <2>1. PICK e \in 1..Len(log') : log'[e].type = "end" /\ log'[e].turn = log[q].turn
    BY <1>3, <1>4, <1>7 DEF Due
  <2>2. e \in 1..Len(log) /\ log[e].type = "end" /\ log[e].turn = log[q].turn /\ e <= n /\ e \in Nat
    BY <1>2, <2>1
  <2>3. ASSUME NEW p \in 1..Len(log), q < p, log[p].type = "say", log[p].turn = log[q].turn PROVE FALSE
    <3>1. p \in Nat /\ ~(e < p)
      <4>1. e < p => log[e].turn < log[p].turn
        BY <2>2, <2>3 DEF LogFits
      <4>2. QED BY <1>2, <1>4, <2>2, <2>3, <4>1
    <3>2. p \in 1..Len(log') /\ log'[p] = log[p]
      BY <1>2, <2>2, <3>1
    <3>3. QED BY <1>3, <1>7, <2>3, <3>2 DEF Due
  <2>4. QED BY <1>3, <2>2, <2>3 DEF Due
<1>8. QED BY <1>5, <1>6, <1>7

LEMMA DueStays ==
  ASSUME BaseInv, Next, NEW q \in 1..Len(log'), Due(q)'
  PROVE  \/ q \in 1..Len(log) /\ log'[q] = log[q] /\ Due(q)
         \/ q = Len(log) + 1 /\ log'[q].out = outs + 1 /\ outs' = outs + 1
<1>0. LogType /\ LogFits /\ LogStep /\ mode' = mode /\ log \in Seq(Events)
  <2>1. mode' = mode
    <3>1. CASE SaveEnds \/ Stop \/ Crash \/ StopDone
      BY <3>1, SaveEndsKeeps, StopKeeps, CrashKeeps DEF worldVars
    <3>2. CASE Connection \/ Inbound \/ Agent
      BY <3>2, ConnectionKeeps, InboundKeeps, AgentKeeps DEF worldVars
    <3>3. CASE Outbound
      BY <3>3, StartsKeep, WorkingKeeps DEF worldVars, Outbound
    <3>4. QED BY <3>1, <3>2, <3>3 DEF Next
  <2>2. QED BY <2>1, BaseParts, NextLogIs DEF LogType
<1>1. turn \in 0..turns /\ turns \in Nat
  BY <1>0, Sizes DEF LogType
<1>2. ASSUME NEW type, NEW t, NEW o, NEW ms, log' = Append(log, Event(type, t, o, ms)),
             turn' = turn \/ turn' > turns \/ turn' = 0, type = "end" => t = turn
      PROVE  \/ q \in 1..Len(log) /\ log'[q] = log[q] /\ Due(q)
             \/ q = Len(log) + 1 /\ log'[q].out = o /\ type = "say"
  <2>1. PICK e : e = Event(type, t, o, ms)
    OBVIOUS
  <2>2. e.type = type /\ e.turn = t /\ e.out = o
    BY <2>1 DEF Event
  <2>3. log' = Append(log, e)
    BY <1>2, <2>1
  <2>4. \/ q \in 1..Len(log) /\ log'[q] = log[q] /\ Due(q)
        \/ q = Len(log) + 1 /\ log'[q] = e
    BY <1>0, <1>2, <2>2, <2>3, DueAppend
  <2>5. log'[q].type = "say"
    BY DEF Due
  <2>6. QED BY <2>2, <2>4, <2>5
<1>3. CASE LogCut
  <2>1. CASE log' = <<>>
    BY <2>1
  <2>2. CASE \E e : log' = Append(log, e)
    <3>1. PICK e : log' = Append(log, e)
      BY <2>2
    <3>2. PICK r \in Seq(Events), n \in Nat : r = log /\ n <= Len(r) /\ log' = SubSeq(r, 1, n)
      BY <1>0, <1>3 DEF LogCut
    <3>3. Len(Append(r, e)) = Len(r) + 1 /\ Len(SubSeq(r, 1, n)) = n /\ Len(r) \in Nat
      BY <3>2
    <3>a. Len(r) + 1 = n
      BY <3>1, <3>2, <3>3
    <3>4. QED BY <3>2, <3>3, <3>a
  <2>3. CASE (log' = log /\ turn' \in {0, turn}) \/ turn' = 0
    BY <1>0, <1>3, <2>3, DueCut
  <2>4. QED BY <2>1, <2>2, <2>3, NextCut
<1>4. CASE LogIn
  <2>1. PICK ms : log' = Append(log, Event("in", 0, 0, ms)) /\ turn' = turn
    BY <1>4 DEF LogIn
  <2>2. QED BY <1>2, <2>1
<1>5. CASE LogStart
  <2>1. PICK ms : log' = Append(log, Event("start", turns + 1, 0, ms)) /\ turn' = turns + 1
    BY <1>5 DEF LogStart
  <2>2. turn' > turns
    BY <1>1, <2>1
  <2>3. QED BY <1>2, <2>1, <2>2
<1>6. CASE LogJoin
  <2>1. PICK ms : log' = Append(log, Event("join", turn, 0, ms)) /\ turn' = turn
    BY <1>6 DEF LogJoin
  <2>2. QED BY <1>2, <2>1
<1>7. CASE LogSay
  <2>1. PICK ms : log' = Append(log, Event("say", turn, outs + 1, ms)) /\ turn' = turn /\ outs' = outs + 1
    BY <1>7 DEF LogSay
  <2>2. QED BY <1>2, <2>1
<1>8. CASE LogEnd
  <2>1. PICK ms : log' = Append(log, Event("end", turn, 0, ms)) /\ turn' = 0
    BY <1>8 DEF LogEnd
  <2>2. QED BY <1>2, <2>1
<1>9. QED BY <1>0, <1>3, <1>4, <1>5, <1>6, <1>7, <1>8 DEF LogStep

(* Nothing becomes undone.                                                  *)
LEMMA NextDropped == ASSUME Next PROVE dropped \subseteq dropped'
<1>1. CASE Connection \/ SaveEnds \/ Stop \/ Crash \/ StopDone
  BY <1>1, ConnectionKeeps, SaveEndsKeeps, StopKeeps, CrashKeeps
<1>2. CASE Inbound
  <2>1. dropped' = dropped \/ dropped' = dropped \cup Unsent(Len(log))
    BY <1>2, Zenon DEF Inbound, AdmitStarts, AgentAttached, AgentFails, AdmitFlushes, Receive,
                       AdmitCoalesces, AdmitEnters, histVars
  <2>2. QED BY <2>1
<1>3. CASE Agent
  <2>1. dropped' = dropped \/ \E S : dropped' = dropped \cup S
    BY <1>3, Zenon DEF Agent, TurnStarts, TurnJoined, AgentSays, TurnEnds, GoesIdle, Replaced, histVars
  <2>2. QED BY <2>1
<1>4. CASE Starts \/ TimesOut
  <2>1. dropped' = dropped \/ \E S : dropped' = dropped \cup S
    BY <1>4, Zenon DEF Starts, Acks, FlushSkips, FlushResets, FlushReads, TimesOut, histVars
  <2>2. QED BY <2>1
<1>5. ASSUME NEW w \in Slots, Working(w) PROVE dropped \subseteq dropped'
  <2>1. CASE QueryAnswers(w) \/ FlushEnds(w) \/ StepPasses(w) \/ StepSends(w) \/ StepOffline(w)
    <3>1. dropped' = dropped \/ \E S : dropped' = dropped \cup S
      BY <2>1, Zenon DEF QueryAnswers, FlushEnds, StepPasses, StepSends, StepOffline, histVars
    <3>2. QED BY <3>1
  <2>2. CASE SendReturns(w) \/ QueryFails(w) \/ SendSwallows(w) \/ SendFails(w)
    <3>1. dropped' = dropped \/ \E S : dropped' = dropped \cup S
      BY <2>2, Zenon DEF SendReturns, QueryFails, SendSwallows, SendFails
    <3>2. QED BY <3>1
  <2>3. QED BY <1>5, <2>1, <2>2, Zenon DEF Working
<1>6. QED BY <1>1, <1>2, <1>3, <1>4, <1>5, Zenon DEF Next, Outbound

LEMMA DoneStays ==
  ASSUME BaseInv, Next, NEW o \in Outs, Done(o)
  PROVE  DoneNext(o)
<1>1. delivered \in [Outs -> Nat]
  BY BaseParts DEF WorldType
<1>2. ASSUME NEW w \in Slots, delivered' = [delivered EXCEPT ![Now(w).out] = @ + 1]
      PROVE  delivered[o] > 0 => delivered'[o] > 0
  BY <1>1, <1>2
<1>3. delivered[o] > 0 => delivered'[o] > 0
  BY <1>2, NextReceived DEF Receives
<1>4. QED BY <1>3, NextDropped DEF Done, DoneNext

(* What is owed is an output.                                               *)
LEMMA DueIs ==
  ASSUME BaseInv, NEW q \in 1..Len(log), Due(q)
  PROVE  q \in Nat /\ log[q].type = "say" /\ log[q].out \in Outs /\ log[q].out # 0 /\ log[q].turn \in 1..turns
<1>1. q \in Nat /\ outs \in 0..MaxOuts /\ log[q].type = "say"
  BY BaseParts DEF LogType, Due
<1>2. log[q].out \in 1..outs /\ log[q].turn \in 1..turns
  BY <1>1, BaseParts DEF LogFits
<1>3. QED BY <1>1, <1>2, Sizes DEF Outs

LEMMA HandledGoesOn ==
  ASSUME BaseInv, Next, NEW c \in Int, Handled(c), outs' = outs + 1 /\ Len(log) < c => outs + 1 \in dropped'
  PROVE  HandledNext(c)
<1>1. ASSUME NEW q \in 1..Len(log'), q <= c, Due(q)' PROVE DoneNext(log'[q].out)
  <2>1. CASE q \in 1..Len(log) /\ log'[q] = log[q] /\ Due(q)
    <3>1. Done(log[q].out)
      BY <1>1, <2>1 DEF Handled
    <3>2. log[q].out \in Outs
      BY <2>1, DueIs
    <3>3. PICK o \in Outs : o = log[q].out
      BY <3>2
    <3>4. DoneNext(o)
      BY <3>1, <3>3, DoneStays
    <3>5. log'[q].out = o
      BY <2>1, <3>3
    <3>6. QED BY <3>4, <3>5 DEF Done, DoneNext
  <2>2. CASE q = Len(log) + 1 /\ log'[q].out = outs + 1 /\ outs' = outs + 1
    <3>1. Len(log) < c
      BY <1>1, <2>2, BaseParts DEF LogType
    <3>2. QED BY <2>2, <3>1 DEF Done, DoneNext
  <2>3. QED BY <1>1, <2>1, <2>2, DueStays
<1>2. QED BY <1>1 DEF HandledNext

(* What was given up to a position is no longer owed there.                 *)
LEMMA HandledUnsent ==
  ASSUME BaseInv, Next, NEW c \in Int, log' = log, dropped' = dropped \cup Unsent(c)
  PROVE  HandledNext(c)
<1>1. ASSUME NEW q \in 1..Len(log), q <= c, Due(q)' PROVE DoneNext(log[q].out)
  <2>1. Due(q)
    <3>1. q \in 1..Len(log') /\ Len(log) \in Nat /\ q \in Nat
      BY BaseParts DEF LogType
    <3>2. QED BY <1>1, <3>1, DueStays
  <2>2. PICK o \in Outs : o = log[q].out /\ o # 0
    BY <2>1, DueIs
  <2>3. delivered[o] > 0 \/ o \in Unsent(c)
    BY <1>1, <2>2 DEF Unsent
  <2>4. delivered[o] > 0 => DoneNext(o)
    BY DoneStays DEF Done, DoneNext
  <2>5. o \in Unsent(c) => DoneNext(o)
    BY DEF Done, DoneNext
  <2>6. DoneNext(o)
    BY <2>3, <2>4, <2>5
  <2>7. QED BY <2>2, <2>6 DEF Done, DoneNext
<1>2. QED BY <1>1 DEF HandledNext

(* The step a task is done with.                                            *)
LEMMA HandledStep ==
  ASSUME BaseInv, TasksCover, Next, log' = log, NEW w \in Slots,
         task[w].stage = "send" \/ (task[w].stage = "next" /\ task[w].steps # {}),
         Now(w).out # 0 => DoneNext(Now(w).out)
  PROVE  HandledNext(Now(w).at)
<1>0. /\ task[w].steps \in SUBSET Step /\ Now(w) \in task[w].steps /\ Now(w).at \in Nat
      /\ task[w].steps # {}
  BY BaseParts, AtStep
<1>1. ASSUME NEW q \in 1..Len(log), q <= Now(w).at, Due(q)' PROVE DoneNext(log[q].out)
  <2>1. Due(q)
    <3>1. q \in 1..Len(log') /\ Len(log) \in Nat /\ q \in Nat
      BY BaseParts DEF LogType
    <3>2. QED BY <1>1, <3>1, DueStays
  <2>2. PICK o \in Outs : o = log[q].out /\ o # 0
    BY <2>1, DueIs
  <2>3. CASE Done(o)
    <3>1. DoneNext(o)
      BY <2>3, DoneStays
    <3>2. QED BY <2>2, <3>1 DEF Done, DoneNext
  <2>4. CASE ~Done(o)
    <3>1. PICK u \in task[w].steps : u.at <= Now(w).at /\ u.out = o
      BY <1>0, <1>1, <2>1, <2>2, <2>4 DEF TasksCover, Covered
    <3>2. u.at \in Nat /\ Now(w).at <= u.at
      BY <1>0, NowIs DEF Step
    <3>3. u.at = Now(w).at
      BY <1>0, <3>1, <3>2
    <3>4. u = Now(w)
      BY <1>0, <3>3, BaseParts DEF StepsFit
    <3>5. DoneNext(Now(w).out) /\ Now(w).out = o
      BY <2>2, <3>1, <3>4
    <3>6. QED BY <2>2, <3>5 DEF Done, DoneNext
  <2>5. QED BY <2>3, <2>4
<1>2. QED BY <1>1 DEF HandledNext

LEMMA CoveredGoesOn ==
  ASSUME BaseInv, Next, NEW old \in SUBSET Step, NEW new, new \subseteq old, Covered(old),
         \A s \in old : s.at <= Len(log),
         \A s \in old : s \in new \/ s.out = 0 \/ (s.out \in Outs /\ DoneNext(s.out))
  PROVE  CoveredNext(new)
<1>1. ASSUME NEW s \in new, NEW q \in 1..Len(log'), q <= s.at, Due(q)'
      PROVE  DoneNext(log'[q].out) \/ \E u \in new : u.at <= s.at /\ u.out = log'[q].out
  <2>1. q \in 1..Len(log) /\ log'[q] = log[q] /\ Due(q)
    <3>1. s \in Step /\ s.at \in Nat /\ s.at <= Len(log) /\ Len(log) \in Nat
      BY BaseParts DEF Step, LogType
    <3>2. q # Len(log) + 1
      BY <1>1, <3>1
    <3>3. QED BY <1>1, <3>2, DueStays
  <2>2. PICK o \in Outs : o = log[q].out /\ o = log'[q].out /\ o # 0
    BY <2>1, DueIs
  <2>3. CASE Done(o)
    <3>1. DoneNext(o)
      BY <2>3, DoneStays
    <3>2. QED BY <2>2, <3>1 DEF Done, DoneNext
  <2>4. CASE ~Done(o)
    <3>1. PICK u \in old : u.at <= s.at /\ u.out = o
      BY <1>1, <2>1, <2>2, <2>4 DEF Covered
    <3>2. CASE u \in new
      BY <2>2, <3>1, <3>2
    <3>3. CASE u.out \in Outs /\ DoneNext(u.out)
      BY <2>2, <3>1, <3>3 DEF Done, DoneNext
    <3>4. QED BY <2>2, <3>1, <3>2, <3>3
  <2>5. QED BY <2>3, <2>4
<1>2. QED BY <1>1 DEF CoveredNext

(* What a flush reads covers what is owed after the cursor and not pruned:  *)
(* in mode "turn" the end of a turn sends the last thing the turn said.     *)
LEMMA ClosingSends ==
  ASSUME BaseInv, NEW S \in SUBSET (1..Len(log)), NEW q \in S, NEW e \in S,
         log[q].type = "say", log[e].type = "end", log[e].turn = log[q].turn,
         \A p \in 1..Len(log) : q < p /\ log[p].type = "say" => log[p].turn # log[q].turn
  PROVE  ClosingOutput(S, e) = log[q].out
<1>0. /\ LogType /\ LogFits /\ Len(log) \in Nat /\ \A p \in S : p \in Nat /\ p \in 1..Len(log)
      /\ log[q].turn \in 1..turns /\ turns \in Nat /\ log[q].out # 0 /\ MaxTurns \in Nat
  <2>1. LogType /\ LogFits
    BY BaseParts
  <2>2. turns \in Nat /\ Len(log) \in Nat /\ outs \in Nat
    BY <2>1, Sizes DEF LogType
  <2>3. log[q].turn \in 1..turns /\ log[q].out \in 1..outs
    BY <2>1 DEF LogFits
  <2>4. QED BY <2>1, <2>2, <2>3, Sizes
<1>a. S \subseteq 0..Len(log)
  <2>1. ASSUME NEW x \in S PROVE x \in 0..Len(log)
    <3>1. x \in 1..Len(log)
      OBVIOUS
    <3>2. QED BY <1>0, <3>1
  <2>2. QED BY <2>1
<1>1. q < e
  <2>1. q # e
    OBVIOUS
  <2>2. e < q => log[e].turn < log[q].turn
    BY <1>0 DEF LogFits
  <2>3. QED BY <1>0, <2>1, <2>2
<1>2. PICK resets : resets = {x \in S : x < e /\ log[x].type \in {"start", "end"}}
  OBVIOUS
<1>3. PICK since : since = IF resets = {} THEN 0 ELSE MaxOf(resets)
  OBVIOUS
<1>4. PICK texts : texts = {x \in S : since < x /\ x < e /\ log[x].out # 0 /\ log[x].turn = log[e].turn}
  OBVIOUS
<1>5. ClosingOutput(S, e) = IF texts = {} THEN 0 ELSE log[MaxOf(texts)].out
  BY <1>2, <1>3, <1>4, Zenon DEF ClosingOutput
<1>6. ASSUME NEW x \in resets PROVE x < q
  <2>1. x \in S /\ x < e /\ log[x].type \in {"start", "end"} /\ log[x].type # "in" /\ x # q
    BY <1>2
  <2>2. log[x].turn \in 1..turns
    BY <1>0, <2>1 DEF LogFits
  <2>3. q < x /\ log[x].type = "start" => log[q].turn < log[x].turn
    BY <1>0, <2>1 DEF LogFits
  <2>4. log[x].turn <= log[e].turn
    BY <1>0, <2>1 DEF LogFits
  <2>5. log[x].type = "end" => log[x].turn < log[e].turn
    BY <1>0, <2>1 DEF LogFits
  <2>6. q < x => log[q].turn <= log[x].turn
    BY <1>0, <2>1 DEF LogFits
  <2>7. QED BY <1>0, <2>1, <2>2, <2>3, <2>4, <2>5, <2>6
<1>7. since < q
  <2>1. CASE resets = {}
    BY <1>0, <1>3, <2>1
  <2>2. CASE resets # {}
    <3>1. resets \in SUBSET (0..Len(log))
      BY <1>a, <1>2
    <3>2. MaxOf(resets) \in resets
      BY <1>0, <2>2, <3>1, MaxOfIs
    <3>3. QED BY <1>3, <1>6, <2>2, <3>2
  <2>3. QED BY <2>1, <2>2
<1>8. q \in texts
  BY <1>0, <1>1, <1>4, <1>7
<1>9. ASSUME NEW x \in texts PROVE x <= q
  <2>1. x \in S /\ log[x].out # 0 /\ log[x].turn = log[q].turn
    BY <1>4
  <2>2. log[x].type = "say"
    BY <1>0, <2>1 DEF LogFits
  <2>3. ~(q < x)
    BY <1>0, <2>1, <2>2
  <2>4. QED BY <1>0, <2>1, <2>3
<1>10. texts \in SUBSET (0..Len(log)) /\ texts # {}
  BY <1>a, <1>4, <1>8
<1>11. MaxOf(texts) \in texts /\ q <= MaxOf(texts)
  BY <1>0, <1>8, <1>10, MaxOfIs
<1>12. MaxOf(texts) = q
  <2>1. MaxOf(texts) <= q /\ MaxOf(texts) \in Nat
    BY <1>0, <1>4, <1>9, <1>11
  <2>2. QED BY <1>0, <1>11, <2>1
<1>13. QED BY <1>5, <1>10, <1>12

LEMMA ReadCovers ==
  ASSUME BaseInv, Next, log' = log, Handled(cursor), Handled(live.cut), NEW S \in SUBSET (1..Len(log)),
         \A p \in 1..Len(log) : cursor < p /\ live.cut < p => p \in S
  PROVE  CoveredNext(StepsOf(S))
<1>0. /\ LogType /\ LogFits /\ Len(log) \in Nat /\ cursor \in Int /\ live.cut \in Nat
      /\ turn \in 0..turns /\ turns \in Nat /\ (turn # 0 => turn = turns)
  BY BaseParts, Sizes DEF LogType, LogFits, SaveType, OutType, NoCursor
<1>1. ASSUME NEW s \in StepsOf(S), NEW q \in 1..Len(log), q <= s.at, Due(q)', ~DoneNext(log[q].out)
      PROVE  \E u \in StepsOf(S) : u.at <= s.at /\ u.out = log[q].out
  <2>1. Due(q)
    <3>1. q \in 1..Len(log') /\ q \in Nat
      BY <1>0
    <3>2. QED BY <1>0, <1>1, <3>1, DueStays
  <2>2. /\ q \in Nat /\ log[q].type = "say" /\ log[q].out \in Outs /\ log[q].out # 0
        /\ log[q].turn \in 1..turns
    BY <2>1, DueIs
  <2>3. ~Done(log[q].out)
    <3>1. PICK o \in Outs : o = log[q].out
      BY <2>2
    <3>2. Done(o) => DoneNext(o)
      BY DoneStays DEF Done, DoneNext
    <3>3. QED BY <1>1, <3>1, <3>2
  <2>4. cursor < q /\ live.cut < q
    BY <1>0, <2>1, <2>2, <2>3 DEF Handled
  <2>5. q \in S
    BY <2>4
  <2>6. /\ s \in Step /\ s.at \in S /\ s.at \in Nat /\ s.at \in 1..Len(log)
        /\ mode.reply # "message" => log[s.at].type = "end"
    BY <1>0, StepsOfAre DEF Step
  <2>7. CASE mode.reply = "message"
    <3>1. PICK u : u = [at |-> q, turn |-> log[q].turn, out |-> log[q].out]
      OBVIOUS
    <3>2. u \in StepsOf(S)
      BY <2>2, <2>5, <2>7, <3>1 DEF StepsOf
    <3>3. QED BY <1>1, <3>1, <3>2
  <2>8. CASE mode.reply # "message"
    <3>1. log[s.at].type = "end" /\ log[s.at].turn \in 1..turns /\ log[s.at].turn # turn
      BY <1>0, <2>6, <2>8 DEF LogFits
    <3>2. log[q].turn <= log[s.at].turn
      <4>1. q # s.at
        BY <2>2, <3>1
      <4>2. q < s.at
        BY <1>1, <2>2, <2>6, <4>1
      <4>3. QED BY <1>0, <2>2, <2>6, <3>1, <4>2 DEF LogFits
    <3>3. log[q].turn # turn
      BY <1>0, <2>2, <3>1, <3>2
    <3>4. PICK e \in 1..Len(log) : log[e].type = "end" /\ log[e].turn = log[q].turn
      BY <2>1, <2>8, <3>3 DEF Due
    <3>5. e \in Nat /\ q < e /\ e <= s.at
      <4>1. e \in Nat /\ e # q
        BY <1>0, <2>2, <3>4
      <4>2. e < q => log[e].turn < log[q].turn
        BY <1>0, <2>2, <3>4 DEF LogFits
      <4>3. s.at < e => log[s.at].turn < log[e].turn
        BY <1>0, <2>6, <3>1, <3>4 DEF LogFits
      <4>4. QED BY <1>0, <2>2, <2>6, <3>1, <3>2, <3>4, <4>1, <4>2, <4>3
    <3>6. e \in S
      BY <1>0, <2>2, <2>4, <3>5
    <3>7. \A p \in 1..Len(log) : q < p /\ log[p].type = "say" => log[p].turn # log[q].turn
      BY <2>1, <2>8 DEF Due
    <3>8. ClosingOutput(S, e) = log[q].out
      BY <2>2, <2>5, <3>4, <3>6, <3>7, ClosingSends
    <3>9. PICK u : u = [at |-> e, turn |-> log[e].turn, out |-> ClosingOutput(S, e)]
      OBVIOUS
    <3>10. u \in StepsOf(S)
      <4>1. e \in {x \in S : log[x].type \in {"end"}}
        BY <3>4, <3>6
      <4>2. QED BY <2>8, <3>9, <4>1, Zenon DEF StepsOf
    <3>11. u.at <= s.at /\ u.out = log[q].out
      BY <3>5, <3>8, <3>9
    <3>12. QED BY <3>10, <3>11
  <2>9. QED BY <2>7, <2>8
<1>2. QED BY <1>1 DEF CoveredNext

-----------------------------------------------------------------------------
(* Where the cursors come from.                                             *)
CursorStep ==
  /\ cursor' \in {cursor, file.cursor, writing.cursor} \/ HandledNext(cursor')
  /\ file'.cursor \in {file.cursor, writing.cursor, cursor}
  /\ writing'.cursor \in {writing.cursor, cursor', NoCursor}
  /\ live'.cut \in {0, live.cut, cursor'}

LEMMA PersistsCursor ==
  ASSUME NEW o, NEW c, Persists(o, c)
  PROVE  file' = file /\ writing'.cursor \in {writing.cursor, c}
BY DEF Persists, Snapshot

LEMMA AdvancesStep ==
  ASSUME BaseInv, NEW w, NEW t, NEW c \in Nat, NEW o, Advances(w, t, c), Persists(o, c), HandledNext(c)
  PROVE  CursorStep
<1>1. cursor' = c /\ live' = PrunedTo(c)
  BY Zenon DEF Advances
<1>2. live'.cut \in {live.cut, c}
  BY <1>1, BaseParts, PrunedIs
<1>3. file' = file /\ writing'.cursor \in {writing.cursor, c}
  BY PersistsCursor
<1>4. QED BY <1>1, <1>2, <1>3 DEF CursorStep

LEMMA DoneSends ==
  ASSUME BaseInv, NEW w \in Slots, StepPasses(w) \/ SendReturns(w) \/ SendSwallows(w)
  PROVE  /\ task[w].stage = "send" \/ (task[w].stage = "next" /\ task[w].steps # {})
         /\ Now(w).out # 0 => Now(w).out \in Outs /\ DoneNext(Now(w).out)
<1>1. task[w].stage = "send" \/ (task[w].stage = "next" /\ task[w].steps # {})
  BY Zenon DEF StepPasses, SendReturns, SendSwallows
<1>2. Now(w).out \in 0..MaxOuts
  BY <1>1, BaseParts, AtStep
<1>3. CASE StepPasses(w) \/ SendSwallows(w)
  <2>1. Now(w).out = 0 \/ dropped' = dropped \cup {Now(w).out}
    BY <1>3, Zenon DEF StepPasses, SendSwallows
  <2>2. QED BY <1>1, <1>2, <2>1, Sizes DEF DoneNext, Outs
<1>4. CASE SendReturns(w)
  <2>1. delivered' = [delivered EXCEPT ![Now(w).out] = @ + 1] /\ delivered \in [Outs -> Nat]
    <3>1. delivered' = [delivered EXCEPT ![Now(w).out] = @ + 1]
      BY <1>4, Zenon DEF SendReturns, Delivers
    <3>2. QED BY <3>1, BaseParts DEF WorldType
  <2>2. PICK o \in Nat : o = Now(w).out
    BY <1>2
  <2>3. o # 0 => o \in Outs
    BY <1>2, <2>2, Sizes DEF Outs
  <2>4. o \in Outs => delivered'[o] > 0
    BY <2>1, <2>2
  <2>5. QED BY <1>1, <2>2, <2>3, <2>4 DEF DoneNext
<1>5. QED BY <1>3, <1>4

LEMMA NextCursors ==
  ASSUME BaseInv, TasksCover, Next
  PROVE  CursorStep
<1>0. live \in [from : Nat, cut : Nat] /\ OutType /\ Len(log) \in Nat /\ Len(log) + 1 \in Nat
  BY BaseParts DEF OutType, LogType
<1>1. ASSUME cursor' = cursor, file' = file, writing' = writing, live'.cut \in {0, live.cut} PROVE CursorStep
  BY <1>1 DEF CursorStep
<1>2. ASSUME cursor' = cursor, NEW o, Persists(o, cursor), live' = live PROVE CursorStep
  BY <1>2, PersistsCursor DEF CursorStep
<1>3. CASE Connection \/ Stop
  <2>1. cursor' = cursor /\ file' = file /\ writing' = writing /\ live' = live
    BY <1>3, ConnectionKeeps, StopKeeps DEF saveVars, outVars
  <2>2. QED BY <1>1, <2>1
<1>4. CASE Agent
  <2>1. cursor' = cursor /\ file' = file /\ writing' = writing
    BY <1>4, AgentKeeps DEF saveVars
  <2>2. live' = live \/ live' = Observed(Len(log) + 1) \/ live' = [from |-> 0, cut |-> 0]
    <3>1. CASE TurnStarts \/ AgentSays \/ TurnEnds
      <4>1. live' = IF Served /\ ~Stopped THEN Observed(Len(log) + 1) ELSE live
        BY <3>1, Zenon DEF TurnStarts, AgentSays, TurnEnds, Pushes
      <4>2. QED BY <4>1
    <3>2. CASE TurnJoined \/ GoesIdle
      BY <3>2, Zenon DEF TurnJoined, GoesIdle, outVars
    <3>3. CASE Replaced
      BY <3>3, Zenon DEF Replaced
    <3>4. QED BY <1>4, <3>1, <3>2, <3>3 DEF Agent
  <2>3. [from |-> 0, cut |-> 0].cut = 0 /\ Observed(Len(log) + 1).cut = live.cut
    BY <1>0, PrunedIs
  <2>a. live'.cut \in {0, live.cut}
    BY <2>2, <2>3
  <2>4. QED BY <1>1, <2>1, <2>a
<1>5. CASE AdmitStarts \/ AgentFails \/ \E m \in Msgs : Receive(m) \/ AdmitEnters(m)
  <2>1. cursor' = cursor /\ file' = file /\ writing' = writing /\ live' = live
    BY <1>5, Zenon DEF AdmitStarts, AgentFails, Receive, AdmitEnters, saveVars, outVars
  <2>2. QED BY <1>1, <2>1
<1>6. CASE AgentAttached
  <2>1. /\ live' = [from |-> Len(log) + 1, cut |-> 0]
        /\ \/ cursor' = cursor /\ file' = file /\ writing' = writing
           \/ /\ cursor' = Len(log) /\ Persists(outbox, Len(log)) /\ log' = log
              /\ dropped' = dropped \cup Unsent(Len(log))
    BY <1>6, Zenon DEF AgentAttached, saveVars, worldVars
  <2>2. live'.cut = 0
    BY <2>1
  <2>3. CASE cursor' = cursor /\ file' = file /\ writing' = writing
    BY <1>1, <2>2, <2>3
  <2>4. CASE cursor' = Len(log) /\ Persists(outbox, Len(log)) /\ log' = log /\ dropped' = dropped \cup Unsent(Len(log))
    <3>1. HandledNext(Len(log))
      BY <1>0, <2>4, HandledUnsent
    <3>2. file' = file /\ writing'.cursor \in {writing.cursor, Len(log)}
      BY <2>4, PersistsCursor
    <3>3. HandledNext(cursor')
      BY <2>4, <3>1, Zenon
    <3>4. QED BY <2>2, <2>4, <3>2, <3>3 DEF CursorStep
  <2>5. QED BY <2>1, <2>3, <2>4
<1>7. CASE AdmitFlushes \/ \E m \in Msgs : AdmitCoalesces(m)
  <2>1. cursor' = cursor /\ live' = live /\ \E o : Persists(o, cursor)
    BY <1>7, Zenon DEF AdmitFlushes, AdmitCoalesces, outVars
  <2>2. QED BY <1>2, <2>1
<1>8. CASE Acks \/ FlushSkips \/ FlushReads \/ TimesOut
  <2>1. cursor' = cursor /\ file' = file /\ writing' = writing
    BY <1>8, Zenon DEF Acks, FlushSkips, FlushReads, TimesOut, saveVars
  <2>2. live' \in {live, Observed(Len(log) + 1)}
    BY <1>8, Zenon DEF Acks, FlushSkips, FlushReads, TimesOut
  <2>a. Observed(Len(log) + 1).cut = live.cut
    BY <1>0, PrunedIs
  <2>3. live'.cut = live.cut
    BY <2>2, <2>a
  <2>4. QED BY <1>1, <2>1, <2>3
<1>9. CASE FlushResets
  <2>1. Advances("run", Flush, Len(log)) /\ Persists(outbox, Len(log)) /\ dropped' = dropped \cup Unsent(Len(log)) /\ log' = log
    BY <1>9, Zenon DEF FlushResets, worldVars
  <2>2. HandledNext(Len(log))
    BY <1>0, <2>1, HandledUnsent
  <2>3. QED BY <1>0, <2>1, <2>2, AdvancesStep
<1>10. ASSUME NEW w \in Slots, Working(w) PROVE CursorStep
  <2>1. CASE QueryAnswers(w) \/ FlushEnds(w) \/ StepSends(w) \/ StepOffline(w) \/ SendFails(w)
    <3>1. cursor' = cursor /\ file' = file /\ writing' = writing /\ live' = live
      BY <2>1, Zenon DEF QueryAnswers, FlushEnds, StepSends, StepOffline, SendFails, saveVars
    <3>2. QED BY <1>1, <3>1
  <2>2. CASE QueryFails(w)
    <3>1. /\ Advances(w, Flush, task[w].gap) /\ Persists(outbox, task[w].gap) /\ log' = log
          /\ dropped' = dropped \cup Unsent(task[w].gap)
      BY <2>2, Zenon DEF QueryFails, worldVars
    <3>2. task[w].gap \in Nat
      BY <1>0 DEF OutType, Tasks
    <3>3. HandledNext(task[w].gap)
      BY <3>1, <3>2, HandledUnsent
    <3>4. QED BY <3>1, <3>2, <3>3, AdvancesStep
  <2>3. CASE StepPasses(w) \/ SendReturns(w) \/ SendSwallows(w)
    <3>1. Advances(w, Later(w), Now(w).at) /\ (\E o : Persists(o, Now(w).at)) /\ log' = log
      BY <2>3, Zenon DEF StepPasses, SendReturns, SendSwallows, Delivers, worldVars
    <3>2. Now(w).at \in Nat
      BY <2>3, BaseParts, DoneSends, AtStep
    <3>3. HandledNext(Now(w).at)
      BY <2>3, <3>1, DoneSends, HandledStep
    <3>4. QED BY <3>1, <3>2, <3>3, AdvancesStep
  <2>4. QED BY <1>10, <2>1, <2>2, <2>3, Zenon DEF Working
<1>11. CASE SaveEnds
  <2>1. /\ cursor' = cursor /\ (file' = writing \/ file' = file) /\ live' = live
        /\ writing' = IF pending THEN Snapshot(outbox, cursor) ELSE Nothing
    BY <1>11, Zenon DEF SaveEnds
  <2>2. QED BY <2>1, NothingIs DEF CursorStep, Snapshot
<1>12. CASE Crash \/ StopDone
  <2>1. /\ \E f \in {file, writing, Snapshot(outbox, cursor)} :
             file' = f /\ cursor' = f.cursor /\ writing' = Nothing
        /\ live' = [from |-> 0, cut |-> 0]
    BY <1>12, Zenon DEF Crash, StopDone, Begins
  <2>2. QED BY <2>1, NothingIs DEF CursorStep, Snapshot
<1>13. QED
  BY <1>3, <1>4, <1>5, <1>6, <1>7, <1>8, <1>9, <1>10, <1>11, <1>12, Zenon
     DEF Next, Inbound, Outbound, Starts

(* What is said behind a cursor of a longer log is given up.                *)
LEMMA SaysStale ==
  ASSUME BaseInv, Next, outs' = outs + 1, NEW c \in {cursor, file.cursor, writing.cursor}, Len(log) < c
  PROVE  outs + 1 \in dropped'
<1>0. outs \in Nat /\ Len(log) \in Nat
  BY BaseParts, Sizes DEF LogType
<1>1. outs' # outs
  BY <1>0
<1>2. CASE AgentSays
  <2>1. c # NoCursor
    BY <1>0 DEF NoCursor
  <2>2. Stale
    BY <2>1 DEF Stale
  <2>3. dropped' = IF Stale THEN dropped \cup {outs + 1} ELSE dropped
    BY <1>2, Zenon DEF AgentSays
  <2>4. QED BY <2>2, <2>3
<1>3. CASE Connection \/ Inbound \/ Outbound \/ SaveEnds \/ Stop \/ Crash \/ StopDone
  <2>1. outs' = outs
    BY <1>3, ConnectionKeeps, InboundKeeps, StartsKeep, WorkingKeeps, SaveEndsKeeps, StopKeeps, CrashKeeps
       DEF agentVars, Outbound
  <2>2. QED BY <1>1, <2>1
<1>4. CASE TurnStarts \/ TurnJoined \/ TurnEnds \/ GoesIdle \/ Replaced
  <2>1. outs' = outs
    BY <1>4, Zenon DEF TurnStarts, TurnJoined, TurnEnds, GoesIdle, Replaced
  <2>2. QED BY <1>1, <2>1
<1>5. QED BY <1>2, <1>3, <1>4 DEF Next, Agent

LEMMA CursorsNext ==
  ASSUME BaseInv, CursorsFit, TasksCover, WithinLog, Next
  PROVE  CursorsFit'
<1>0. /\ cursor \in Int /\ file.cursor \in Int /\ writing.cursor \in Int /\ live.cut \in Int
      /\ Len(log) \in Nat /\ outs \in Nat /\ NoCursor \in Int /\ NoCursor < 0
  <2>1. cursor \in Nat \cup {NoCursor} /\ file \in State /\ writing \in State /\ live.cut \in Nat
    BY BaseParts DEF SaveType, OutType
  <2>2. file.cursor \in Nat \cup {NoCursor} /\ writing.cursor \in Nat \cup {NoCursor}
    BY <2>1 DEF State
  <2>3. QED BY <2>1, <2>2, BaseParts, Sizes DEF LogType, NoCursor
<1>1. CursorStep
  BY NextCursors
<1>2. HandledNext(cursor) /\ HandledNext(file.cursor) /\ HandledNext(writing.cursor)
  BY <1>0, HandledGoesOn, SaysStale DEF CursorsFit
<1>3. HandledNext(live.cut)
  BY <1>0, HandledGoesOn DEF CursorsFit, WithinLog
<1>4. HandledNext(0) /\ HandledNext(NoCursor)
  BY <1>0 DEF HandledNext
<1>5. HandledNext(cursor')
  <2>1. CASE cursor' \in {cursor, file.cursor, writing.cursor}
    BY <1>2, <2>1, Zenon
  <2>2. QED BY <1>1, <2>1 DEF CursorStep
<1>6. HandledNext(file'.cursor)
  BY <1>1, <1>2, Zenon DEF CursorStep
<1>7. HandledNext(writing'.cursor)
  BY <1>1, <1>2, <1>4, <1>5, Zenon DEF CursorStep
<1>8. HandledNext(live'.cut)
  BY <1>1, <1>3, <1>4, <1>5, Zenon DEF CursorStep
<1>9. QED BY <1>5, <1>6, <1>7, <1>8 DEF CursorsFit, Handled, HandledNext, Done, DoneNext

(* What a task that does something has left.                                *)
LEMMA WorkingLeaves ==
  ASSUME BaseInv, NEW w \in Slots, Working(w)
  PROVE  /\ \A v \in Slots : v # w => task'[v] = task[v]
         /\ task'[w].gap \in {0, task[w].gap}
         /\ \/ task'[w].steps = {}
            \/ task'[w].steps = task[w].steps
            \/ /\ StepPasses(w) \/ SendReturns(w) \/ SendSwallows(w)
               /\ task'[w].steps = task[w].steps \ {Now(w)}
<1>0. task \in [Slots -> Tasks]
  BY BaseParts DEF OutType
<1>1. PICK t \in Tasks : t = task[w]
  BY <1>0
<1>2. ASSUME NEW u, task' = [task EXCEPT ![w] = u]
      PROVE  task'[w] = u /\ \A v \in Slots : v # w => task'[v] = task[v]
  BY <1>0, <1>2
<1>3. CASE FlushEnds(w) \/ StepOffline(w) \/ SendFails(w)
  <2>1. task' = [task EXCEPT ![w] = NoTask]
    BY <1>3, Zenon DEF FlushEnds, StepOffline, SendFails, Becomes
  <2>2. QED BY <1>2, <2>1, NoTaskIs
<1>4. CASE QueryAnswers(w)
  <2>1. task' = [task EXCEPT ![w] = [task[w] EXCEPT !.stage = "next", !.gap = 0]]
    BY <1>4, Zenon DEF QueryAnswers, Becomes
  <2>2. [t EXCEPT !.stage = "next", !.gap = 0].steps = t.steps /\ [t EXCEPT !.stage = "next", !.gap = 0].gap = 0
    BY DEF Tasks
  <2>3. QED BY <1>1, <1>2, <2>1, <2>2
<1>5. CASE StepSends(w)
  <2>1. task' = [task EXCEPT ![w] = [task[w] EXCEPT !.stage = "send"]]
    BY <1>5, Zenon DEF StepSends, AtStage, Becomes
  <2>2. [t EXCEPT !.stage = "send"].steps = t.steps /\ [t EXCEPT !.stage = "send"].gap = t.gap
    BY DEF Tasks
  <2>3. QED BY <1>1, <1>2, <2>1, <2>2
<1>6. CASE QueryFails(w)
  <2>1. task' = [task EXCEPT ![w] = [Flush EXCEPT !.stage = Waits]]
    BY <1>6, Zenon DEF QueryFails, Advances, Becomes
  <2>2. [Flush EXCEPT !.stage = Waits].steps = {} /\ [Flush EXCEPT !.stage = Waits].gap = 0
    BY NoTaskIs DEF Tasks
  <2>3. QED BY <1>2, <2>1, <2>2
<1>7. CASE StepPasses(w) \/ SendReturns(w) \/ SendSwallows(w)
  <2>1. task' = [task EXCEPT ![w] = [Later(w) EXCEPT !.stage = Waits]]
    BY <1>7, Zenon DEF StepPasses, SendReturns, SendSwallows, Advances, Becomes
  <2>2. PICK u \in Tasks : u = Later(w) /\ u.steps = task[w].steps \ {Now(w)} /\ u.gap = task[w].gap
    <3>1. PICK left \in SUBSET Step : left = t.steps \ {Now(w)}
      BY DEF Tasks
    <3>2. Later(w) = [t EXCEPT !.steps = left]
      BY <1>1, <3>1 DEF Later
    <3>3. Later(w) \in Tasks /\ Later(w).steps = left /\ Later(w).gap = t.gap
      BY <3>2 DEF Tasks
    <3>4. QED BY <1>1, <3>1, <3>3
  <2>3. [u EXCEPT !.stage = Waits].steps = u.steps /\ [u EXCEPT !.stage = Waits].gap = u.gap
    BY DEF Tasks
  <2>4. task'[w] = [u EXCEPT !.stage = Waits] /\ \A v \in Slots : v # w => task'[v] = task[v]
    BY <1>2, <2>1, <2>2
  <2>5. QED BY <1>7, <2>2, <2>3, <2>4
<1>8. QED BY <1>3, <1>4, <1>5, <1>6, <1>7, Zenon DEF Working

(* What a flush reads.                                                      *)
LEMMA ReadTask ==
  ASSUME BaseInv, WithinLog, FlushReads
  PROVE  \E S \in SUBSET (1..Len(log)) : \E u \in Tasks :
            /\ task' = [task EXCEPT !["run"] = u] /\ u.steps = StepsOf(S) /\ u.gap <= Len(log)
            /\ \A p \in 1..Len(log) : cursor < p /\ live.cut < p => p \in S
<1>1. PICK S : S = {p \in 1..Len(log) : cursor < p /\ p < Observed(Len(log) + 1).from} \cup Buffered(cursor)
  OBVIOUS
<1>2. PICK first : first = Observed(Len(log) + 1).from
  OBVIOUS
<1>3. PICK n \in Nat : n = Len(log)
  BY BaseParts DEF LogType
<1>4. /\ live.from \in Nat /\ live.cut \in Nat /\ cursor \in Int
      /\ first = IF live.from = 0 THEN n + 1 ELSE live.from
      /\ first <= n + 1 /\ first \in Nat
  <2>1. OutType /\ n + 1 \in Nat /\ live.from \in Nat /\ live.cut \in Nat /\ cursor \in Int
    BY BaseParts DEF OutType, SaveType, NoCursor
  <2>2. first = IF live.from = 0 THEN n + 1 ELSE live.from
    BY <1>2, <1>3, <2>1, PrunedIs
  <2>3. live.from <= n + 1
    BY <1>3 DEF WithinLog
  <2>4. QED BY <2>1, <2>2, <2>3
<1>5. S \in SUBSET (1..Len(log))
  BY <1>1 DEF Buffered
<1>6. ASSUME NEW p \in 1..Len(log), cursor < p, live.cut < p PROVE p \in S
  <2>1. p \in 1..n /\ p \in Nat
    BY <1>3
  <2>2. CASE p < first
    BY <1>1, <1>2, <1>6, <2>2
  <2>3. CASE ~(p < first)
    <3>1. live.from # 0 /\ p >= live.from
      BY <1>4, <2>1, <2>3
    <3>2. p \in Buffered(cursor)
      BY <1>4, <1>6, <2>1, <3>1 DEF Buffered
    <3>3. QED BY <1>1, <3>2
  <2>4. QED BY <2>2, <2>3
<1>7. PICK t : t = [Flush EXCEPT !.steps = StepsOf(S)]
  OBVIOUS
<1>8. PICK u : u = IF cursor + 1 >= first THEN [t EXCEPT !.stage = "next"]
                   ELSE [t EXCEPT !.stage = "query", !.gap = first - 1]
  OBVIOUS
<1>9. task' = [task EXCEPT !["run"] = u]
  BY <1>1, <1>2, <1>7, <1>8, Zenon DEF FlushReads, Becomes
<1>10. StepsOf(S) \in SUBSET Step
  BY <1>5, BaseParts, StepsOfAre
<1>11. t \in Tasks /\ t.steps = StepsOf(S) /\ t.gap = 0
  BY <1>7, <1>10, NoTaskIs DEF Tasks
<1>12. u \in Tasks /\ u.steps = t.steps /\ u.gap <= n
  <2>1. CASE cursor + 1 >= first
    <3>1. u \in Tasks /\ u.steps = t.steps /\ u.gap = t.gap
      BY <1>8, <1>11, <2>1, StagesAre DEF Tasks
    <3>2. QED BY <1>11, <3>1
  <2>2. CASE ~(cursor + 1 >= first)
    <3>1. first # 0
      BY <1>4, <2>2, BaseParts DEF SaveType, NoCursor
    <3>2. first - 1 \in Nat /\ first - 1 <= n
      BY <1>4, <3>1
    <3>3. u \in Tasks /\ u.steps = t.steps /\ u.gap = first - 1
      BY <1>8, <1>11, <2>2, <3>2, StagesAre DEF Tasks
    <3>4. QED BY <3>2, <3>3
  <2>3. QED BY <2>1, <2>2
<1>13. QED BY <1>3, <1>5, <1>6, <1>9, <1>11, <1>12

LEMMA SaveEndsTask ==
  ASSUME BaseInv, SaveEnds, NEW w \in Slots
  PROVE  task'[w].steps = task[w].steps /\ task'[w].gap = task[w].gap
<1>1. task' = [v \in Slots |-> [task[v] EXCEPT !.stage = CASE task[v].stage = "write" -> "next"
                                   [] task[v].stage = "save" -> "write" [] OTHER -> task[v].stage]]
  BY Zenon DEF SaveEnds
<1>2. PICK t \in Tasks, x \in TaskStages \cup {task[w].stage} : t = task[w] /\ task'[w] = [t EXCEPT !.stage = x]
  BY <1>1, BaseParts DEF OutType, TaskStages
<1>3. QED BY <1>2 DEF Tasks

LEMMA CoversNext ==
  ASSUME BaseInv, CursorsFit, TasksCover, WithinLog, Next
  PROVE  TasksCover'
<1>0. /\ task \in [Slots -> Tasks] /\ "run" \in Slots /\ "late" \in Slots
      /\ \A w \in Slots : task[w].steps \in SUBSET Step
  BY BaseParts DEF OutType, Tasks, Slots
<1>1. CoveredNext({})
  BY DEF CoveredNext
<1>2. ASSUME NEW w \in Slots PROVE CoveredNext(task[w].steps)
  <2>1. Covered(task[w].steps) /\ \A s \in task[w].steps : s.at <= Len(log)
    BY DEF TasksCover, WithinLog, UpTo
  <2>2. QED BY <1>0, <2>1, CoveredGoesOn
<1>3. SUFFICES \A w \in Slots : CoveredNext(task'[w].steps)
  BY DEF TasksCover, Covered, CoveredNext, Done, DoneNext
<1>4. CASE Connection \/ Inbound \/ Agent \/ Stop \/ Acks \/ FlushSkips
  <2>1. task' = task
    <3>1. CASE Acks \/ FlushSkips
      BY <3>1, Zenon DEF Acks, FlushSkips
    <3>2. CASE Connection \/ Inbound \/ Agent \/ Stop
      BY <3>2, ConnectionKeeps, InboundKeeps, AgentKeeps, StopKeeps DEF outVars
    <3>3. QED BY <1>4, <3>1, <3>2
  <2>2. QED BY <1>2, <2>1
<1>5. CASE FlushResets
  <2>1. task' = [task EXCEPT !["run"] = [Flush EXCEPT !.stage = Waits]]
    BY <1>5, Zenon DEF FlushResets, Advances, Becomes
  <2>2. [Flush EXCEPT !.stage = Waits].steps = {}
    BY NoTaskIs DEF Tasks
  <2>3. \A w \in Slots : task'[w].steps = {} \/ task'[w] = task[w]
    BY <1>0, <2>1, <2>2
  <2>4. QED BY <1>1, <1>2, <2>3
<1>6. CASE FlushReads
  <2>1. PICK S \in SUBSET (1..Len(log)), u \in Tasks :
            /\ task' = [task EXCEPT !["run"] = u] /\ u.steps = StepsOf(S)
            /\ \A p \in 1..Len(log) : cursor < p /\ live.cut < p => p \in S
    BY <1>6, ReadTask
  <2>2. log' = log
    BY <1>6, StartsKeep DEF Starts, worldVars
  <2>3. CoveredNext(StepsOf(S))
    BY <2>1, <2>2, ReadCovers DEF CursorsFit
  <2>4. \A w \in Slots : task'[w] = u \/ task'[w] = task[w]
    BY <1>0, <2>1
  <2>5. QED BY <1>2, <2>1, <2>3, <2>4
<1>7. CASE TimesOut
  <2>1. task' = [run |-> NoTask, late |-> task["run"]]
    BY <1>7, Zenon DEF TimesOut
  <2>2. task'["run"].steps = {} /\ task'["late"] = task["run"]
    BY <2>1, NoTaskIs
  <2>3. \A w \in Slots : w = "run" \/ w = "late"
    BY DEF Slots
  <2>4. QED BY <1>0, <1>1, <1>2, <2>2, <2>3
<1>8. ASSUME NEW w \in Slots, Working(w) PROVE \A v \in Slots : CoveredNext(task'[v].steps)
  <2>1. CASE task'[w].steps = {}
    BY <1>1, <1>2, <1>8, <2>1, WorkingLeaves
  <2>2. CASE task'[w].steps = task[w].steps
    BY <1>2, <1>8, <2>2, WorkingLeaves
  <2>3. CASE StepPasses(w) \/ SendReturns(w) \/ SendSwallows(w)
    <3>1. Covered(task[w].steps) /\ \A s \in task[w].steps : s.at <= Len(log)
      BY DEF TasksCover, WithinLog, UpTo
    <3>2. Now(w).out # 0 => Now(w).out \in Outs /\ DoneNext(Now(w).out)
      BY <2>3, DoneSends
    <3>3. PICK rest : rest = task[w].steps \ {Now(w)}
      OBVIOUS
    <3>4. \A s \in task[w].steps : s \in rest \/ s.out = 0 \/ (s.out \in Outs /\ DoneNext(s.out))
      BY <3>2, <3>3
    <3>5. rest \subseteq task[w].steps
      BY <3>3
    <3>6. CoveredNext(rest)
      BY <1>0, <3>1, <3>4, <3>5, CoveredGoesOn
    <3>7. QED BY <1>1, <1>2, <1>8, <3>3, <3>6, WorkingLeaves
  <2>4. QED BY <1>8, <2>1, <2>2, <2>3, WorkingLeaves
<1>9. CASE SaveEnds
  BY <1>2, <1>9, SaveEndsTask
<1>10. CASE Crash \/ StopDone
  <2>1. task' = [w \in Slots |-> NoTask]
    BY <1>10, Zenon DEF Crash, StopDone, Begins
  <2>2. QED BY <1>1, <2>1, NoTaskIs
<1>11. QED
  BY <1>4, <1>5, <1>6, <1>7, <1>8, <1>9, <1>10, Zenon DEF Next, Outbound, Starts

LEMMA LogGrows ==
  ASSUME BaseInv, Connection \/ Inbound \/ Outbound \/ SaveEnds \/ Stop
                  \/ TurnStarts \/ TurnJoined \/ AgentSays \/ TurnEnds \/ GoesIdle
  PROVE  Len(log) <= Len(log')
<1>0. log \in Seq(Events)
  BY BaseParts DEF LogType
<1>1. log' = log \/ \E e : log' = Append(log, e)
  <2>1. CASE Connection \/ Outbound \/ SaveEnds \/ Stop
    BY <2>1, ConnectionKeeps, StartsKeep, WorkingKeeps, SaveEndsKeeps, StopKeeps DEF worldVars, Outbound
  <2>2. CASE Inbound
    BY <2>2, Zenon DEF Inbound, AdmitStarts, AgentAttached, AgentFails, AdmitFlushes, Receive,
                       AdmitCoalesces, AdmitEnters, Enters, worldVars
  <2>3. CASE TurnStarts \/ TurnJoined \/ AgentSays \/ TurnEnds \/ GoesIdle
    BY <2>3, Zenon DEF TurnStarts, TurnJoined, AgentSays, TurnEnds, GoesIdle, Logs, Enters
  <2>4. QED BY <2>1, <2>2, <2>3
<1>2. ASSUME NEW e, log' = Append(log, e) PROVE Len(log) <= Len(log')
  <2>1. PICK r \in Seq(Events) : r = log
    BY <1>0
  <2>2. Len(Append(r, e)) = Len(r) + 1 /\ Len(r) \in Nat
    BY <2>1
  <2>3. QED BY <1>2, <2>1, <2>2
<1>3. Len(log) \in Nat
  BY <1>0
<1>4. QED BY <1>1, <1>2, <1>3

NeverOvertakes == \A m \in Modes : "overtake" \notin m.faults

LEMMA ReplacedAlone ==
  ASSUME NeverOvertakes, BaseInv, Replaced
  PROVE  \A w \in Slots : task[w] = NoTask
<1>1. Fault(IF \A w \in Slots : task[w] = NoTask THEN "replace" ELSE "overtake")
  BY Zenon DEF Replaced
<1>2. (IF \A w \in Slots : task[w] = NoTask THEN "replace" ELSE "overtake") \in mode.faults
  BY <1>1, Zenon DEF Fault
<1>3. "overtake" \notin mode.faults
  BY BaseParts DEF NeverOvertakes, WorldType
<1>4. QED BY <1>2, <1>3

(* The pruned part and where a session is observed from.                    *)
LEMMA LiveWithin ==
  ASSUME BaseInv, WithinLog, Next
  PROVE  live'.cut <= Len(log') /\ live'.from <= Len(log') + 1
<1>0. /\ live \in [from : Nat, cut : Nat] /\ OutType /\ Len(log) \in Nat /\ Len(log) + 1 \in Nat
      /\ Len(log') \in Nat /\ live.cut <= Len(log) /\ live.from <= Len(log) + 1
      /\ live.cut \in Nat /\ live.from \in Nat
  <2>1. (BaseInv => LogType)'
    BY BaseParts, PTL
  <2>2. BaseInv'
    BY BaseNext
  <2>3. Len(log') \in Nat
    BY <2>1, <2>2 DEF LogType
  <2>4. QED BY <2>3, BaseParts DEF OutType, LogType, WithinLog
<1>1. ASSUME live' = [from |-> 0, cut |-> 0] PROVE live'.cut <= Len(log') /\ live'.from <= Len(log') + 1
  BY <1>0, <1>1
<1>2. ASSUME live'.cut <= Len(log), live'.from <= Len(log) + 1, Len(log) <= Len(log'), live' \in [from : Nat, cut : Nat]
      PROVE  live'.cut <= Len(log') /\ live'.from <= Len(log') + 1
  <2>1. live'.cut \in Nat /\ live'.from \in Nat
    BY <1>2
  <2>2. QED BY <1>0, <1>2, <2>1
<1>3. ASSUME live' = live, Len(log) <= Len(log') PROVE live'.cut <= Len(log') /\ live'.from <= Len(log') + 1
  BY <1>0, <1>2, <1>3
<1>4. ASSUME live' = Observed(Len(log) + 1), Len(log) <= Len(log')
      PROVE  live'.cut <= Len(log') /\ live'.from <= Len(log') + 1
  <2>1. /\ Observed(Len(log) + 1) \in [from : Nat, cut : Nat] /\ Observed(Len(log) + 1).cut = live.cut
        /\ Observed(Len(log) + 1).from = IF live.from = 0 THEN Len(log) + 1 ELSE live.from
    BY <1>0, PrunedIs
  <2>2. live' \in [from : Nat, cut : Nat] /\ live'.cut <= Len(log) /\ live'.from <= Len(log) + 1
    BY <1>0, <1>4, <2>1
  <2>3. QED BY <1>2, <1>4, <2>2
<1>5. ASSUME NEW c \in Nat, live' = PrunedTo(c), c <= Len(log), log' = log
      PROVE  live'.cut <= Len(log') /\ live'.from <= Len(log') + 1
  <2>1. /\ PrunedTo(c) \in [from : Nat, cut : Nat] /\ PrunedTo(c).from = live.from
        /\ PrunedTo(c).cut = IF c > live.cut THEN c ELSE live.cut
    BY <1>0, PrunedIs
  <2>2. live' \in [from : Nat, cut : Nat] /\ live'.cut <= Len(log) /\ live'.from <= Len(log) + 1
    BY <1>0, <1>5, <2>1
  <2>3. QED BY <1>0, <1>2, <1>5, <2>2
<1>6. CASE Connection \/ SaveEnds \/ Stop \/ TurnJoined \/ GoesIdle
  <2>1. live' = live
    <3>1. CASE Connection \/ SaveEnds \/ Stop
      BY <3>1, ConnectionKeeps, SaveEndsKeeps, StopKeeps DEF outVars
    <3>2. CASE TurnJoined \/ GoesIdle
      BY <3>2, Zenon DEF TurnJoined, GoesIdle, outVars
    <3>3. QED BY <1>6, <3>1, <3>2
  <2>2. Len(log) <= Len(log')
    BY <1>6, LogGrows
  <2>3. QED BY <1>3, <2>1, <2>2
<1>7. CASE TurnStarts \/ AgentSays \/ TurnEnds
  <2>1. live' = live \/ live' = Observed(Len(log) + 1)
    <3>1. live' = IF Served /\ ~Stopped THEN Observed(Len(log) + 1) ELSE live
      BY <1>7, Zenon DEF TurnStarts, AgentSays, TurnEnds, Pushes
    <3>2. QED BY <3>1
  <2>2. Len(log) <= Len(log')
    BY <1>7, LogGrows
  <2>3. QED BY <1>3, <1>4, <2>1, <2>2
<1>8. CASE Inbound
  <2>1. live' = live \/ live' = [from |-> Len(log) + 1, cut |-> 0]
    BY <1>8, Zenon DEF Inbound, AdmitStarts, AgentAttached, AgentFails, AdmitFlushes, Receive,
                       AdmitCoalesces, AdmitEnters, outVars
  <2>2. Len(log) <= Len(log')
    BY <1>8, LogGrows
  <2>3. live' = [from |-> Len(log) + 1, cut |-> 0] =>
          live' \in [from : Nat, cut : Nat] /\ live'.cut <= Len(log) /\ live'.from <= Len(log) + 1
    BY <1>0
  <2>4. QED BY <1>2, <1>3, <2>1, <2>2, <2>3
<1>9. CASE Acks \/ FlushSkips \/ FlushReads \/ TimesOut
  <2>1. live' \in {live, Observed(Len(log) + 1)}
    BY <1>9, Zenon DEF Acks, FlushSkips, FlushReads, TimesOut
  <2>2. Len(log) <= Len(log')
    BY <1>9, LogGrows DEF Outbound, Starts
  <2>3. QED BY <1>3, <1>4, <2>1, <2>2
<1>10. CASE FlushResets
  <2>1. live' = PrunedTo(Len(log)) /\ log' = log
    BY <1>10, Zenon DEF FlushResets, Advances, worldVars
  <2>2. QED BY <1>0, <1>5, <2>1
<1>11. ASSUME NEW w \in Slots, Working(w) PROVE live'.cut <= Len(log') /\ live'.from <= Len(log') + 1
  <2>0. log' = log /\ Len(log) <= Len(log') /\ task[w] \in Tasks /\ UpTo(task[w], Len(log))
    BY <1>0, <1>11, WorkingKeeps DEF OutType, WithinLog
  <2>1. CASE QueryAnswers(w) \/ FlushEnds(w) \/ StepSends(w) \/ StepOffline(w) \/ SendFails(w)
    <3>1. live' = live
      BY <2>1, Zenon DEF QueryAnswers, FlushEnds, StepSends, StepOffline, SendFails
    <3>2. QED BY <1>3, <2>0, <3>1
  <2>2. CASE QueryFails(w)
    <3>1. live' = PrunedTo(task[w].gap)
      BY <2>2, Zenon DEF QueryFails, Advances
    <3>2. task[w].gap \in Nat /\ task[w].gap <= Len(log)
      BY <2>0 DEF Tasks, UpTo
    <3>3. QED BY <1>5, <2>0, <3>1, <3>2
  <2>3. CASE StepPasses(w) \/ SendReturns(w) \/ SendSwallows(w)
    <3>1. live' = PrunedTo(Now(w).at)
      BY <2>3, Zenon DEF StepPasses, SendReturns, SendSwallows, Advances
    <3>2. Now(w) \in task[w].steps /\ Now(w).at \in Nat
      BY <2>3, BaseParts, DoneSends, AtStep
    <3>3. Now(w).at <= Len(log)
      BY <2>0, <3>2 DEF UpTo
    <3>4. QED BY <1>5, <2>0, <3>1, <3>2, <3>3
  <2>4. QED BY <1>11, <2>1, <2>2, <2>3, Zenon DEF Working
<1>12. CASE Replaced \/ Crash \/ StopDone
  <2>1. live' = [from |-> 0, cut |-> 0]
    BY <1>12, Zenon DEF Replaced, Crash, StopDone, Begins
  <2>2. QED BY <1>1, <2>1
<1>13. QED
  BY <1>6, <1>7, <1>8, <1>9, <1>10, <1>11, <1>12, Zenon DEF Next, Agent, Outbound, Starts

LEMMA TasksWithin ==
  ASSUME NeverOvertakes, BaseInv, WithinLog, Next
  PROVE  \A w \in Slots : UpTo(task'[w], Len(log'))
<1>0. /\ task \in [Slots -> Tasks] /\ "run" \in Slots /\ "late" \in Slots
      /\ \A w \in Slots : task[w].steps \in SUBSET Step /\ task[w].gap \in Nat
      /\ Len(log) \in Nat /\ Len(log') \in Nat
  <2>1. (BaseInv => LogType)'
    BY BaseParts, PTL
  <2>2. BaseInv'
    BY BaseNext
  <2>3. Len(log') \in Nat
    BY <2>1, <2>2 DEF LogType
  <2>4. QED BY <2>3, BaseParts DEF OutType, LogType, Tasks, Slots
<1>1. ASSUME NEW t, t.gap = 0, t.steps = {} PROVE UpTo(t, Len(log'))
  BY <1>0, <1>1 DEF UpTo
<1>2. UpTo(NoTask, Len(log'))
  BY <1>1, NoTaskIs
<1>3. ASSUME Len(log) <= Len(log'), NEW w \in Slots, NEW t, t.gap \in {0, task[w].gap}, t.steps \subseteq task[w].steps
      PROVE  UpTo(t, Len(log'))
  <2>1. task[w].gap <= Len(log) /\ \A s \in task[w].steps : s.at <= Len(log) /\ s.at \in Nat
    BY <1>0 DEF WithinLog, UpTo, Step
  <2>2. t.gap <= Len(log')
    BY <1>0, <1>3, <2>1
  <2>3. \A s \in t.steps : s.at <= Len(log')
    BY <1>0, <1>3, <2>1
  <2>4. QED BY <2>2, <2>3 DEF UpTo
<1>4. CASE Connection \/ Inbound \/ Stop \/ TurnStarts \/ TurnJoined \/ AgentSays \/ TurnEnds \/ GoesIdle
           \/ Acks \/ FlushSkips
  <2>1. task' = task
    <3>1. CASE Acks \/ FlushSkips
      BY <3>1, Zenon DEF Acks, FlushSkips
    <3>2. CASE Connection \/ Inbound \/ Agent \/ Stop
      BY <3>2, ConnectionKeeps, InboundKeeps, AgentKeeps, StopKeeps DEF outVars
    <3>3. QED BY <1>4, <3>1, <3>2 DEF Agent
  <2>2. Len(log) <= Len(log')
    BY <1>4, LogGrows DEF Outbound, Starts
  <2>3. QED BY <1>3, <2>1, <2>2
<1>5. CASE Replaced \/ Crash \/ StopDone
  <2>1. \A w \in Slots : task'[w] = NoTask
    <3>1. CASE Crash \/ StopDone
      BY <3>1, Zenon DEF Crash, StopDone, Begins
    <3>2. CASE Replaced
      <4>1. task' = task
        BY <3>2, Zenon DEF Replaced
      <4>2. QED BY <3>2, <4>1, ReplacedAlone
    <3>3. QED BY <1>5, <3>1, <3>2
  <2>2. QED BY <1>2, <2>1
<1>6. CASE FlushResets \/ FlushReads \/ TimesOut \/ SaveEnds \/ \E w \in Slots : Working(w)
  <2>0. Len(log) <= Len(log')
    BY <1>6, LogGrows DEF Outbound, Starts
  <2>1. CASE FlushResets
    <3>1. task' = [task EXCEPT !["run"] = [Flush EXCEPT !.stage = Waits]]
      BY <2>1, Zenon DEF FlushResets, Advances, Becomes
    <3>2. [Flush EXCEPT !.stage = Waits].steps = {} /\ [Flush EXCEPT !.stage = Waits].gap = 0
      BY NoTaskIs DEF Tasks
    <3>3. \A w \in Slots : task'[w] = [Flush EXCEPT !.stage = Waits] \/ task'[w] = task[w]
      BY <1>0, <3>1
    <3>4. UpTo([Flush EXCEPT !.stage = Waits], Len(log'))
      BY <1>1, <3>2
    <3>5. \A w \in Slots : UpTo(task[w], Len(log'))
      BY <1>3, <2>0
    <3>6. QED BY <3>3, <3>4, <3>5
  <2>2. CASE FlushReads
    <3>1. PICK S \in SUBSET (1..Len(log)), u \in Tasks :
              task' = [task EXCEPT !["run"] = u] /\ u.steps = StepsOf(S) /\ u.gap <= Len(log)
      BY <2>2, ReadTask
    <3>2. ASSUME NEW s \in u.steps PROVE s.at <= Len(log')
      <4>1. s.at \in 1..Len(log)
        BY <3>1, BaseParts, StepsOfAre
      <4>2. QED BY <1>0, <2>0, <4>1
    <3>3. UpTo(u, Len(log'))
      <4>1. u.gap \in Nat
        BY DEF Tasks
      <4>2. QED BY <1>0, <2>0, <3>1, <3>2, <4>1 DEF UpTo
    <3>4. \A w \in Slots : task'[w] = u \/ task'[w] = task[w]
      BY <1>0, <3>1
    <3>5. QED BY <1>3, <2>0, <3>3, <3>4
  <2>3. CASE TimesOut
    <3>1. task' = [run |-> NoTask, late |-> task["run"]]
      BY <2>3, Zenon DEF TimesOut
    <3>2. task'["run"] = NoTask /\ task'["late"] = task["run"]
      BY <3>1
    <3>3. \A w \in Slots : w = "run" \/ w = "late"
      BY DEF Slots
    <3>4. UpTo(task["run"], Len(log'))
      BY <1>0, <1>3, <2>0
    <3>5. QED BY <1>2, <3>2, <3>3, <3>4
  <2>4. CASE SaveEnds
    BY <1>3, <2>0, <2>4, SaveEndsTask
  <2>5. ASSUME NEW w \in Slots, Working(w) PROVE \A v \in Slots : UpTo(task'[v], Len(log'))
    <3>1. /\ \A v \in Slots : v # w => task'[v] = task[v]
          /\ task'[w].gap \in {0, task[w].gap}
          /\ task'[w].steps \subseteq task[w].steps
      BY <2>5, WorkingLeaves
    <3>2. UpTo(task'[w], Len(log'))
      BY <1>3, <2>0, <3>1
    <3>3. QED BY <1>3, <2>0, <3>1, <3>2
  <2>6. QED BY <1>6, <2>1, <2>2, <2>3, <2>4, <2>5
<1>7. QED
  BY <1>4, <1>5, <1>6, Zenon DEF Next, Agent, Outbound, Starts

LEMMA WithinNext ==
  ASSUME NeverOvertakes, BaseInv, WithinLog, Next
  PROVE  WithinLog'
<1>1. live'.cut <= Len(log') /\ live'.from <= Len(log') + 1
  BY LiveWithin
<1>2. \A w \in Slots : UpTo(task'[w], Len(log'))
  BY TasksWithin
<1>3. QED BY <1>1, <1>2 DEF WithinLog, UpTo

LEMMA SkipInit == Init => CursorsFit /\ TasksCover /\ WithinLog
<1> SUFFICES ASSUME Init PROVE CursorsFit /\ TasksCover /\ WithinLog
  OBVIOUS
<1>1. log = <<>> /\ live = [from |-> 0, cut |-> 0] /\ task = [w \in Slots |-> NoTask]
  BY Zenon DEF Init
<1>2. Len(log) = 0
  BY <1>1
<1>3. \A w \in Slots : task[w].steps = {} /\ task[w].gap = 0
  BY <1>1, NoTaskIs
<1>4. CursorsFit
  BY <1>2 DEF CursorsFit, Handled
<1>5. TasksCover
  BY <1>3 DEF TasksCover, Covered
<1>6. WithinLog
  BY <1>1, <1>2, <1>3 DEF WithinLog, UpTo
<1>7. QED BY <1>4, <1>5, <1>6

LEMMA SkipUnchanged ==
  ASSUME CursorsFit, TasksCover, WithinLog, UNCHANGED vars
  PROVE  CursorsFit' /\ TasksCover' /\ WithinLog'
<1>1. /\ task' = task /\ log' = log /\ live' = live /\ delivered' = delivered /\ dropped' = dropped
      /\ cursor' = cursor /\ file' = file /\ writing' = writing /\ mode' = mode /\ turn' = turn
  BY DEF vars, worldVars, agentVars, outVars, saveVars, histVars
<1>2. CursorsFit'
  BY <1>1, SMT DEF CursorsFit, Handled, Due, Done
<1>3. TasksCover'
  BY <1>1, SMT DEF TasksCover, Covered, Due, Done
<1>4. WithinLog'
  BY <1>1, SMT DEF WithinLog, UpTo
<1>5. QED BY <1>2, <1>3, <1>4

(* What a turn that ended owes is due, and said before the turn ended.      *)
LEMMA SaidBefore ==
  ASSUME BaseInv, NEW e \in 1..Len(log), log[e].type = "end", NEW p \in Said(log[e].turn)
  PROVE  /\ p \in 1..Len(log) /\ p < e
         /\ mode.reply = "message" => Due(p)
         /\ (\A q \in Said(log[e].turn) : q <= p) => Due(p) \/ mode.reply # "turn"
<1>0. Len(log) \in Nat /\ turns \in Nat
  BY BaseParts DEF LogType
<1>1. p \in 1..Len(log) /\ log[p].type = "say" /\ log[p].turn = log[e].turn
  BY DEF Said
<1>2. log[e].turn \in 1..turns
  BY BaseParts DEF LogFits
<1>3. ~(e < p)
  <2>1. SUFFICES ASSUME e < p PROVE FALSE
    OBVIOUS
  <2>2. log[e].turn < log[p].turn
    BY <1>1, <2>1, BaseParts DEF LogFits
  <2>3. QED BY <1>0, <1>1, <1>2, <2>2
<1>4. e # p
  BY <1>1
<1>5. p < e
  BY <1>0, <1>1, <1>3, <1>4
<1>6. ASSUME \A q \in Said(log[e].turn) : q <= p, mode.reply = "turn" PROVE Due(p)
  <2>1. ASSUME NEW q \in 1..Len(log), p < q, log[q].type = "say" PROVE log[q].turn # log[p].turn
    <3>1. SUFFICES ASSUME log[q].turn = log[p].turn PROVE FALSE
      OBVIOUS
    <3>2. q \in Said(log[e].turn)
      BY <1>1, <2>1, <3>1 DEF Said
    <3>3. QED BY <1>0, <1>1, <1>6, <2>1, <3>2
  <2>2. QED BY <1>1, <1>6, <2>1 DEF Due
<1>7. QED BY <1>1, <1>5, <1>6 DEF Due

LEMMA OwedHandled ==
  ASSUME BaseInv, CursorsFit
  PROVE  NothingSkipped
<1>0. Len(log) \in Nat
  BY BaseParts DEF LogType
<1>1. /\ cursor \in Nat \cup {NoCursor} /\ file.cursor \in Nat \cup {NoCursor}
      /\ mode.reply \in {"turn", "message"}
  BY BaseParts, ModesAssumption DEF SaveType, State, WorldType
<1>2. SUFFICES ASSUME NEW c \in {cursor, file.cursor} \ {NoCursor}, NEW o \in Owed(c)
               PROVE  Received(o) \/ o \in dropped
  BY DEF NothingSkipped
<1>3. c \in Nat /\ Handled(c)
  BY <1>1 DEF CursorsFit
<1>4. PICK e \in {p \in 1..Len(log) : p <= c /\ log[p].type = "end"} :
        o \in (IF mode.reply = "message" THEN {log[p].out : p \in Said(log[e].turn)}
               ELSE IF Said(log[e].turn) = {} THEN {} ELSE {log[MaxOf(Said(log[e].turn))].out})
  BY DEF Owed
<1>5. e \in 1..Len(log) /\ e <= c /\ log[e].type = "end" /\ e \in Nat
  BY <1>0
<1>6. ASSUME NEW p \in 1..Len(log), p < e, Due(p), log[p].out = o
      PROVE  Received(o) \/ o \in dropped
  <2>1. p <= c
    BY <1>0, <1>3, <1>5, <1>6
  <2>2. Done(log[p].out)
    BY <1>3, <1>6, <2>1 DEF Handled
  <2>3. QED BY <1>6, <2>2 DEF Done, Received
<1>7. CASE mode.reply = "message"
  <2>1. PICK p \in Said(log[e].turn) : log[p].out = o
    BY <1>4, <1>7
  <2>2. p \in 1..Len(log) /\ p < e /\ Due(p)
    BY <1>5, <1>7, SaidBefore
  <2>3. QED BY <1>6, <2>1, <2>2
<1>8. CASE mode.reply = "turn"
  <2>1. Said(log[e].turn) # {} /\ o = log[MaxOf(Said(log[e].turn))].out
    BY <1>4, <1>8
  <2>2. Said(log[e].turn) \subseteq 1..Len(log)
    BY DEF Said
  <2>3. PICK p \in Said(log[e].turn) : p = MaxOf(Said(log[e].turn)) /\ \A q \in Said(log[e].turn) : q <= p
    <3>1. Said(log[e].turn) \in SUBSET (0..Len(log))
      BY <1>0, <2>2
    <3>2. /\ MaxOf(Said(log[e].turn)) \in Said(log[e].turn)
          /\ \A q \in Said(log[e].turn) : q <= MaxOf(Said(log[e].turn))
      BY <1>0, <2>1, <3>1, MaxOfIs
    <3>3. QED BY <3>2
  <2>4. p \in 1..Len(log) /\ p < e /\ Due(p)
    BY <1>5, <1>8, <2>3, SaidBefore
  <2>5. QED BY <1>6, <2>1, <2>3, <2>4
<1>9. QED BY <1>1, <1>7, <1>8

(* Where no session is replaced under a task that works on it, what the     *)
(* cursor has passed was received or given up for a named reason, in memory *)
(* and on disk, and nobody receives more than the doubts allow.             *)
THEOREM RepliesOnce == NeverOvertakes => (Spec => []RepliesGoOutOnce)
<1> SUFFICES ASSUME NeverOvertakes PROVE Spec => []RepliesGoOutOnce
  OBVIOUS
<1> DEFINE SkipInv == BaseInv /\ CursorsFit /\ TasksCover /\ WithinLog
<1>1. Init => SkipInv
  BY BaseInit, SkipInit
<1>2. SkipInv /\ [Next]_vars => SkipInv'
  <2>1. ASSUME SkipInv, Next PROVE SkipInv'
    BY <2>1, BaseNext, CursorsNext, CoversNext, WithinNext
  <2>2. ASSUME SkipInv, UNCHANGED vars PROVE SkipInv'
    <3>1. BaseInv'
      BY <2>2, BaseNext
    <3>2. QED BY <2>2, <3>1, SkipUnchanged
  <2>3. QED BY <2>1, <2>2
<1>3. SkipInv => NothingSkipped
  BY OwedHandled
<1>4. Spec => []SentOnce
  BY SentOnceEach
<1>5. NothingSkipped /\ SentOnce => RepliesGoOutOnce
  BY DEF RepliesGoOutOnce
<1> HIDE DEF SkipInv
<1>6. QED BY <1>1, <1>2, <1>3, <1>4, <1>5, PTL DEF Spec

=============================================================================
