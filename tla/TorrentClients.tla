--------------------------- MODULE TorrentClients ---------------------------
(***************************************************************************)
(* The two torrent backends of dsh-tool-acquisition (qbittorrent.ts,        *)
(* transmission.ts): a cookie or a session id that the backend may forget   *)
(* at any time, one retry behind a new one, and the reading of what the     *)
(* backend says of a torrent.  acquire.ts gives up a submission that is     *)
(* refused for good, and takes a torrent said to be missing to another      *)
(* backend, so both answers have to be true.                                *)
(*                                                                         *)
(* A client serves one call at a time.  A session is the number of times    *)
(* the backend had forgotten its sessions when it was given.                *)
(***************************************************************************)
EXTENDS Integers

CONSTANTS MaxDrops,    \* times the backend forgets its sessions
          MaxCalls     \* calls made of the client

VARIABLES setup,       \* the backend, its settings, and the torrent asked for
          epoch,       \* times the sessions were forgotten
          item,        \* what the backend holds of the torrent
          client,      \* [loggedIn, session] of the client object
          ask,         \* the call under way, or the last one
          answer,      \* what it returned or threw
          calls        \* calls made

clientVars == <<setup, epoch, item, client, ask, answer, calls>>

NoSession == -1
NoAnswer_ == [is |-> "none"]
Absent == [state |-> "absent", all |-> FALSE]

(* guarded: credentials are asked for; hash: the payload's info-hash is     *)
(* known; sound: the backend takes the torrent.                             *)
Setups == [software : {"qbittorrent", "transmission"}, creds : {"right", "wrong", "none"},
           guarded : BOOLEAN, banned : BOOLEAN, hash : BOOLEAN, sound : BOOLEAN]

ClientInit ==
    /\ setup \in {s \in Setups : s.banned => s.guarded /\ s.software = "qbittorrent"}
    /\ epoch = 0
    /\ item \in {Absent, IF setup.software = "qbittorrent" THEN [state |-> "uploading", all |-> TRUE]
                                                          ELSE [state |-> "6", all |-> TRUE]}
    /\ item # Absent => setup.sound
    /\ client = [loggedIn |-> FALSE, session |-> NoSession]
    /\ ask = [op |-> "none", stage |-> "done", attempt |-> 0, since |-> 0,
              tag |-> FALSE, handle |-> FALSE, queued |-> FALSE]
    /\ answer = NoAnswer_
    /\ calls = 0

Qb == setup.software = "qbittorrent"
Fits == setup.guarded => setup.creds = "right"
Holds == item # Absent

(***************************************************************************)
(* Calls.                                                                  *)
(***************************************************************************)
Answers_(a) ==
    /\ answer' = a
    /\ ask' = [ask EXCEPT !.stage = "done"]

Threw(permanent) == [is |-> "error", permanent |-> permanent]
Says_(state) == [is |-> "state", state |-> state]

(* A submission; the status of the handle one gave; the probe of one that    *)
(* failed, whose handle holds what is known before it is answered.           *)
CallClient(op) ==
    /\ ask.stage = "done" /\ calls < MaxCalls
    /\ op = "status" => ask.handle
    /\ ask' = [ask EXCEPT !.op = op, !.stage = IF Qb /\ ~ client.loggedIn THEN "login" ELSE "request",
                          !.attempt = 0, !.since = epoch, !.queued = FALSE]
    /\ answer' = NoAnswer_
    /\ calls' = calls + 1
    /\ UNCHANGED <<setup, epoch, item, client>>

(* Without a user name and a password there is nothing to log in with.      *)
LoginSkipped ==
    /\ ask.stage = "login" /\ setup.creds = "none"
    /\ client' = [client EXCEPT !.loggedIn = TRUE]
    /\ ask' = [ask EXCEPT !.stage = "request"]
    /\ UNCHANGED <<setup, epoch, item, answer, calls>>

LoginAnswered ==
    /\ ask.stage = "login" /\ setup.creds # "none"
    /\ IF Fits /\ ~ setup.banned
       THEN /\ client' = [loggedIn |-> TRUE, session |-> epoch]
            /\ ask' = [ask EXCEPT !.stage = "request"]
            /\ answer' = answer
       ELSE /\ Answers_(Threw(TRUE))
            /\ client' = client
    /\ UNCHANGED <<setup, epoch, item, calls>>

(* A request that was not answered, or with a 5xx: it may have been served. *)
Unanswered ==
    /\ ask.stage \in {"login", "request"}
    /\ ask.stage = "login" => setup.creds # "none"
    /\ Answers_(Threw(FALSE))
    /\ UNCHANGED <<setup, epoch, item, client, calls>>

(* Mutant: the request is not sent again.                                   *)
AgainNever(stage) == Answers_(Threw(Qb))

(* A request that was refused is sent once more; the second refusal is       *)
(* final, for good if it is qBittorrent's.                                  *)
Again(stage) ==
    IF ask.attempt = 0
    THEN /\ ask' = [ask EXCEPT !.attempt = 1, !.stage = stage]
         /\ answer' = answer
    ELSE Answers_(Threw(Qb))

(* qBittorrent answers 403, which takes a new login.                        *)
QbRefuses ==
    /\ Qb /\ ask.stage = "request"
    /\ setup.guarded /\ client.session # epoch
    /\ client' = [client EXCEPT !.loggedIn = ask.attempt # 0 /\ @]
    /\ Again("login")
    /\ UNCHANGED <<setup, epoch, item, calls>>

(* Transmission asks for the credentials, then for its session id, which     *)
(* its 409 gives.                                                           *)
TmRefuses ==
    /\ ~ Qb /\ ask.stage = "request"
    /\ ~ Fits \/ client.session # epoch
    /\ IF Fits
       THEN /\ Again("request")
            /\ client' = [client EXCEPT !.session = epoch]
       ELSE /\ Answers_(Threw(TRUE))
            /\ client' = client
    /\ UNCHANGED <<setup, epoch, item, calls>>

Served ==
    /\ ask.stage = "request"
    /\ IF Qb THEN setup.guarded => client.session = epoch
             ELSE Fits /\ client.session = epoch

Queued_ == IF Qb THEN [state |-> "metaDL", all |-> FALSE] ELSE [state |-> "4", all |-> FALSE]

(* The torrent is added, unless it is no torrent or the backend has it.      *)
Submitted(a) ==
    /\ item' = IF setup.sound /\ ~ Holds THEN Queued_ ELSE item
    /\ answer' = a
    /\ ask' = [ask EXCEPT !.stage = "done", !.queued = item' # item,
                          !.tag = @ \/ item' # item, !.handle = @ \/ a.is = "handle"]
    /\ UNCHANGED <<setup, epoch, client, calls>>

Handle_ == [is |-> "handle"]

(* A duplicate is "Fails." too: a known hash still finds it.                *)
QbSubmit ==
    /\ Qb /\ Served /\ ask.op = "submit"
    /\ \/ (setup.hash \/ (setup.sound /\ ~ Holds)) /\ Submitted(Handle_)
       \/ (~ setup.sound \/ (Holds /\ ~ setup.hash)) /\ Submitted(Threw(TRUE))
       \/ Submitted(Threw(FALSE))

(* A duplicate is answered with its hash.                                   *)
TmSubmit ==
    /\ ~ Qb /\ Served /\ ask.op = "submit"
    /\ \/ setup.sound /\ Submitted(Handle_)
       \/ ~ setup.sound /\ Submitted(Threw(TRUE))
       \/ Submitted(Threw(FALSE))

(***************************************************************************)
(* What the backends say of a torrent.                                     *)
(***************************************************************************)
COMPLETE_STATES == {"uploading", "stalledUP", "pausedUP", "stoppedUP", "queuedUP", "forcedUP", "checkingUP"}
FAILED_STATES == {"error", "missingFiles"}
QUEUED_STATES == {"metaDL", "queuedDL", "checkingDL", "checkingResumeData", "allocating", "moving"}

QbState(i) ==
    CASE i.state \in FAILED_STATES -> "failed"
      [] i.state \notin FAILED_STATES /\ (i.state \in COMPLETE_STATES \/ i.all) -> "completed"
      [] i.state \in QUEUED_STATES /\ ~ i.all -> "queued"
      [] OTHER -> "downloading"

TmState(i) ==
    CASE i.state = "error" -> "failed"
      [] i.all /\ i.state \notin {"1", "2", "error"} -> "completed"
      [] i.state \in {"1", "2"} -> "queued"
      [] i.state \in {"0", "3"} /\ ~ i.all -> "queued"
      [] OTHER -> "downloading"

(* By the hash, which Transmission's handles always have; of qBittorrent by   *)
(* the tag if the hash is not known.                                         *)
Findable == setup.hash \/ (IF Qb THEN ask.tag ELSE ask.op = "status")

Found_ == Holds /\ Findable

status ==
    /\ Served /\ ask.op \in {"status", "probe"}
    /\ Answers_(IF Found_ THEN Says_(IF Qb THEN QbState(item) ELSE TmState(item)) ELSE Says_("missing"))
    /\ UNCHANGED <<setup, epoch, item, client, calls>>

(***************************************************************************)
(* The backend.                                                            *)
(***************************************************************************)
Items ==
    IF Qb
    THEN [state : {"metaDL", "downloading", "missingFiles"}, all : {FALSE}]
            \cup [state : {"uploading", "moving"}, all : {TRUE}]
    ELSE [state : {"0", "2", "4", "error"}, all : {FALSE}] \cup [state : {"2", "6"}, all : {TRUE}]

ItemMoves ==
    /\ Holds /\ ask.stage = "done"
    /\ item' \in (Items \cup {Absent}) \ {item}
    /\ ask' = [ask EXCEPT !.op = "none", !.tag = @ /\ item' # Absent]
    /\ UNCHANGED <<setup, epoch, client, answer, calls>>

(* A restart, or the end of a session.                                      *)
Forgets ==
    /\ epoch < MaxDrops
    /\ epoch' = epoch + 1
    /\ UNCHANGED <<setup, item, client, ask, answer, calls>>

ClientNext ==
    \/ \E op \in {"submit", "probe", "status"} : CallClient(op)
    \/ LoginSkipped \/ LoginAnswered \/ Unanswered
    \/ QbRefuses \/ TmRefuses
    \/ QbSubmit \/ TmSubmit \/ status
    \/ ItemMoves \/ Forgets

ClientSpec == ClientInit /\ [][ClientNext]_clientVars

(***************************************************************************)
(* Property.                                                               *)
(***************************************************************************)
(* A client's final answers are true.  A submission refused for good has    *)
(* queued nothing, and for a cause another attempt would meet again: the     *)
(* credentials, a ban, the torrent itself, or a session the backend forgot   *)
(* while the call used it - never one it forgot before.  A torrent is        *)
(* missing only if the backend does not hold it, but for the probe of one    *)
(* without a hash that another label or Transmission holds; and it is        *)
(* completed only if none of it is left.                                    *)
ClientsAnswerTruly ==
    ask.op # "none" /\ ask.stage = "done" =>
      /\ answer = Threw(TRUE) =>
           /\ ~ ask.queued
           /\ \/ ~ Fits \/ setup.banned \/ ~ setup.sound
              \/ epoch > ask.since
              \/ Holds /\ ~ setup.hash
      /\ answer = Says_("missing") => ~ Holds \/ (~ setup.hash /\ ask.op = "probe")
      /\ answer = Says_("completed") => item.all

=============================================================================
