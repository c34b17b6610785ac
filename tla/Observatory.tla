----------------------------- MODULE Observatory -----------------------------
(***************************************************************************)
(* The observatory (dsh-observatory): what the agent's plugins do is told   *)
(* to it by events, of which it appends rows to a ledger file and keeps the *)
(* rest in memory; every PollMs it asks the other programs how they are and  *)
(* writes all that to a live file.  A server in another process makes the   *)
(* dashboard's snapshot of the two files.                                   *)
(*                                                                         *)
(* A file is a sequence of lines; a crash in the middle of an append leaves  *)
(* a line that is cut and not ended, so the next append adds to it.  A full  *)
(* file is renamed first: between that and the append there is none.        *)
(***************************************************************************)
EXTENDS Integers, Sequences, SequencesExt

CONSTANTS MaxLines,     \* rows a ledger file holds before it is rotated
          MaxRows,      \* rows ever told, a bound of the exploration
          Poll,         \* time between two ticks
          Limit,        \* timed probe -> the time after which it gives up
          MaxTime,      \* bounds of the exploration
          MaxVersion

(* All but the one that reads the acquisition ledger, a file, give up.       *)
Timed == {"supervisor", "qbittorrent", "transmission", "prowlarr"}
Probes == Timed \cup {"acquire"}

ASSUME ObservatoryAssumption ==
    /\ MaxLines \in Nat \ {0} /\ Poll \in Nat
    /\ Limit \in [Timed -> Nat]

VARIABLES events,     \* events.jsonl: [lines, open]
          rotated,    \* events.jsonl.1
          told,       \* history: the rows the events made
          owed,       \* rows the event under way has still to append
          tear,       \* history: an append was cut
          gap,        \* history: an append ended behind its rotation, and
                      \* none has come after it
          clock, nextTick,
          mind,       \* what is kept in memory: [treasury, gate]
          ticks,      \* ticks under way: [start, view, asked], oldest first
          live        \* live.json

ledgerVars_ == <<events, rotated, told, owed, tear, gap>>
liveVars == <<clock, nextTick, mind, ticks, live>>

Junk == [kind |-> "junk"]
Row(kind, n) == [kind |-> kind, n |-> n]

LedgerInit ==
    /\ events = [lines |-> <<>>, open |-> FALSE]
    /\ rotated = <<>>
    /\ told = <<>>
    /\ owed = <<>>
    /\ tear = FALSE /\ gap = FALSE

(***************************************************************************)
(* The ledger.                                                             *)
(***************************************************************************)
(* Mutant: a full ledger is emptied.                                        *)
RotateAway == [now |-> [lines |-> <<>>, open |-> FALSE], before |-> rotated]

(* A full ledger takes the place of the one rotated before.                 *)
Rotate ==
    IF Len(events.lines) < MaxLines THEN [now |-> events, before |-> rotated]
    ELSE [now |-> [lines |-> <<>>, open |-> FALSE], before |-> events.lines]

(* A row behind a line that was not ended makes one line with it.           *)
AppendLine(row) ==
    LET file == Rotate.now
    IN  /\ events' = [lines |-> IF file.open THEN Front(file.lines) \o <<Junk>> ELSE Append(file.lines, row),
                      open |-> row = Junk]
        /\ rotated' = Rotate.before

(* An expense is a row, and one of inference a second one; revenue, a launch *)
(* and a state are a row, and balances a row each.                          *)
Told(kinds) ==
    /\ owed = <<>> /\ Len(told) + Len(kinds) <= MaxRows
    /\ owed' = [i \in DOMAIN kinds |-> Row(kinds[i], Len(told) + i)]
    /\ UNCHANGED <<events, rotated, told, tear, gap>>

EventKinds == {<<"burn">>, <<"burn", "tokens">>, <<"revenue">>, <<"other">>, <<"other", "other">>}

append ==
    /\ owed # <<>>
    /\ AppendLine(Head(owed))
    /\ told' = Append(told, Head(owed))
    /\ owed' = Tail(owed)
    /\ gap' = FALSE
    /\ UNCHANGED tear

(* The process ends or the disk refuses: before anything is done, behind the *)
(* rotation, or in the middle of the line.  The event's other rows are lost. *)
CrashInAppend ==
    /\ owed # <<>>
    /\ \/ UNCHANGED <<events, rotated, tear, gap>>
       \/ /\ events' = Rotate.now /\ rotated' = Rotate.before
          /\ gap' = (gap \/ events' # events)
          /\ UNCHANGED tear
       \/ AppendLine(Junk) /\ tear' = TRUE /\ gap' = FALSE
    /\ owed' = <<>>
    /\ UNCHANGED told

(* One line that does not parse hides all of them.                          *)
readLedger == IF Junk \in ToSet(events.lines) THEN <<>> ELSE events.lines

(* The rows of a kind; their order is that of the file.                     *)
filterLedger(rows, kind) == {row \in ToSet(rows) : row.kind = kind}

(***************************************************************************)
(* The live file.                                                          *)
(***************************************************************************)
Null == [treasury |-> 0, gate |-> "absent"]

LiveInit ==
    /\ clock = 0 /\ nextTick = 0
    /\ mind = Null
    /\ ticks = <<>>
    /\ live = [start |-> -1, view |-> Null]

StateChanged ==
    /\ mind.treasury < MaxVersion
    /\ mind' = [mind EXCEPT !.treasury = @ + 1]
    /\ UNCHANGED <<clock, nextTick, ticks, live>>

(* catalog/upsert, and synapse/pinned, which keeps what is known.            *)
Upsert ==
    /\ mind.gate # "nft"
    /\ mind' = [mind EXCEPT !.gate = "nft"]
    /\ UNCHANGED <<clock, nextTick, ticks, live>>

Pinned ==
    /\ mind.gate = "absent"
    /\ mind' = [mind EXCEPT !.gate = "none"]
    /\ UNCHANGED <<clock, nextTick, ticks, live>>

tick ==
    /\ clock = nextTick
    /\ nextTick' = clock + Poll
    /\ ticks' = Append(ticks, [start |-> clock, view |-> mind, asked |-> Probes])
    /\ UNCHANGED <<clock, mind, live>>

(* A probe is answered, or it gives up; a file read ends when it does.      *)
ProbeEnds(i, p) ==
    /\ i \in DOMAIN ticks /\ p \in ticks[i].asked
    /\ ticks' = [ticks EXCEPT ![i].asked = @ \ {p}]
    /\ UNCHANGED <<clock, nextTick, mind, live>>

(* The file is written once all have ended, whatever they brought.           *)
refreshLive(i) ==
    /\ i \in DOMAIN ticks /\ ticks[i].asked = {}
    /\ live' = [start |-> ticks[i].start, view |-> ticks[i].view]
    /\ ticks' = RemoveAt(ticks, i)
    /\ UNCHANGED <<clock, nextTick, mind>>

(* Mutant: a probe gives up a step late.                                    *)
DueLate(now) == \E i \in DOMAIN ticks : \E p \in ticks[i].asked \cap Timed : now > ticks[i].start + Limit[p]

(* A probe that gives up now.                                               *)
Due(now) == \E i \in DOMAIN ticks : \E p \in ticks[i].asked \cap Timed : now >= ticks[i].start + Limit[p]

(* Time passes when nothing is to be done at once.                          *)
TimePasses ==
    /\ clock < MaxTime /\ clock < nextTick
    /\ ~ Due(clock)
    /\ \A i \in DOMAIN ticks : ticks[i].asked # {}
    /\ clock' = clock + 1
    /\ UNCHANGED <<nextTick, mind, ticks, live>>

(* The agent starts again: with nothing in memory, and a tick at once.       *)
RestartAgent ==
    /\ ticks # <<>> \/ mind # Null
    /\ mind' = Null
    /\ ticks' = <<>>
    /\ nextTick' = clock
    /\ UNCHANGED <<clock, live>>

(***************************************************************************)
(* The two files share nothing: a crash of the agent is a step of each.     *)
(***************************************************************************)
LedgerNext == (\E kinds \in EventKinds : Told(kinds)) \/ append \/ CrashInAppend

LiveNext ==
    \/ StateChanged \/ Upsert \/ Pinned
    \/ tick \/ TimePasses \/ RestartAgent
    \/ \E i \in DOMAIN ticks :
         \/ refreshLive(i)
         \/ \E p \in Probes : ProbeEnds(i, p)

ObservatoryNext ==
    \/ LedgerNext /\ UNCHANGED liveVars
    \/ LiveNext /\ UNCHANGED ledgerVars_

ObservatorySpec == LedgerInit /\ LiveInit /\ [][ObservatoryNext]_<<ledgerVars_, liveVars>>

(***************************************************************************)
(* Properties.                                                             *)
(***************************************************************************)
(* However rotations fall between the rows of one event, the newest         *)
(* MaxLines rows are on disk in their order, in the ledger and the one       *)
(* before it, unless a crash cut a line; and the dashboard, which reads the  *)
(* ledger alone, is blind only while a cut line is in it or, after an append *)
(* that ended behind its rotation, until the next row comes.                *)
LedgerKeepsNewest ==
    /\ ~ tear =>
         LET disk == rotated \o events.lines
         IN  /\ disk = SubSeq(told, Len(told) - Len(disk) + 1, Len(told))
             /\ Len(disk) = Len(told) \/ Len(disk) >= MaxLines
    /\ readLedger = <<>> => gap \/ told = <<>> \/ Junk \in ToSet(events.lines)
    /\ \A kind \in {"burn", "revenue"} : filterLedger(readLedger, kind) \subseteq ToSet(told)

(* And the live file follows the ticks, though no tick waits for the last    *)
(* one: one that a later tick overtakes waits for the acquisition ledger     *)
(* alone, as every other probe gives up before; only such a one, kept for    *)
(* longer than the time between two ticks, makes the file go back; and the   *)
(* file never shows what an agent before the last restart had in memory.     *)
DashboardIsTrue ==
    [][/\ LedgerKeepsNewest'
       /\ \A i \in DOMAIN ticks' : i < Len(ticks') => ticks'[i].asked \subseteq {"acquire"}
       /\ live' # live =>
            /\ live'.start >= live.start \/ clock >= live'.start + Poll
            /\ live'.view.treasury <= mind.treasury]_<<ledgerVars_, liveVars>>

=============================================================================
