---------------------------- MODULE RoyaltyExecute ----------------------------
(***************************************************************************)
(* The execute tools of dsh-royalty-router (rr_launch, rr_sweep and        *)
(* rr_heartbeat) over one attempt ledger (ExecuteLedger in tools.ts), the  *)
(* wallet's lane and the chain.                                            *)
(*                                                                         *)
(* A caller is one activation of ExecuteLedger.run.  Its send is a task of *)
(* the wallet's lane (WalletLane) that simulates, broadcasts one           *)
(* transaction and waits for the receipt; it goes on after the caller has  *)
(* timed out.  The chain, its mempool and the other keepers are the        *)
(* environment.                                                            *)
(***************************************************************************)
EXTENDS Naturals, FiniteSets

CONSTANTS
  Keys,      \* attempt keys: digest of a launch intent, router and floor, router
  KindOf,    \* key -> "launch", "sweep" or "heartbeat"
  Targets,   \* predicted token addresses and routers
  TargetOf,  \* key -> the token address or router it acts on
  NameOf,    \* launch key -> token name in the intent
  Foreign,   \* a token somebody else launched under another name
  Wallet,    \* the configured wallet
  Callers,   \* activations of run
  None       \* no entry in a map

Kinds == {"launch", "sweep", "heartbeat"}

ASSUME KeysAssumption ==
  /\ KindOf \in [Keys -> Kinds]
  /\ TargetOf \in [Keys -> Targets]
ASSUME NoneAssumption == None \notin Callers \cup Keys /\ Foreign \notin Keys

VARIABLES
  status,   \* key -> status of its attempt
  value,    \* key -> value of a settled attempt
  owner,    \* key -> the caller whose promise the attempt holds
  pc,       \* caller -> where run is
  key,      \* caller -> its key
  leader,   \* caller -> the caller whose promise it follows
  verdict,  \* caller -> answer of the chain read-back
  settles,  \* caller -> what its gate and send promise settled with
  out,      \* caller -> what run returned or threw
  locks, prior, lane, at, ahead,  \* the wallet's lane
  tx,       \* caller -> state of the transaction it broadcast
  token,    \* target -> the launch that made the token there
  ready,    \* routers with royalties worth sweeping
  owed,     \* history: callers whose effect has not happened since they called
  past      \* history: callers of earlier processes

Lane == INSTANCE WalletLane WITH Wallets <- {Wallet}, Tasks <- Callers

laneVars == <<locks, prior, lane, at, ahead>>
ledgerVars == <<status, value, owner>>
callVars == <<pc, key, leader, verdict, settles, out>>
chainVars == <<tx, token, ready, owed>>
vars == <<ledgerVars, callVars, laneVars, chainVars, past>>

StatusValues == {"none", "starting", "running", "settled", "failed"}
Values == [how : {"mined", "reverted", "verified"}, by : Callers]
Error == [how |-> "error"]
Timeout == [how |-> "timeout"]
PcValues == {"idle", "verify", "send", "follow", "returned", "lost"}

KeysOf(kind) == {k \in Keys : KindOf[k] = kind}
CallersOf(k) == {c \in Callers : key[c] = k}
Active(c) == pc[c] \in {"verify", "send", "follow"}

TypeOK ==
  /\ status \in [Keys -> StatusValues]
  /\ value \in [Keys -> Values \cup {None}]
  /\ owner \in [Keys -> Callers \cup {None}]
  /\ pc \in [Callers -> PcValues]
  /\ key \in [Callers -> Keys \cup {None}]
  /\ leader \in [Callers -> Callers]
  /\ verdict \in [Callers -> {"none", "committed", "absent", "unreadable"}]
  /\ settles \in [Callers -> Values \cup {Error, None}]
  /\ out \in [Callers -> Values \cup {Error, Timeout, None}]
  /\ Lane!LaneTypeOK
  /\ tx \in [Callers -> {"none", "pending", "mined", "reverted", "dropped"}]
  /\ token \in [Targets -> Keys \cup {Foreign, None}]
  /\ ready \in SUBSET Targets
  /\ owed \in SUBSET Callers
  /\ past \in SUBSET Callers

Init ==
  /\ status = [k \in Keys |-> "none"]
  /\ value = [k \in Keys |-> None]
  /\ owner = [k \in Keys |-> None]
  /\ pc = [c \in Callers |-> "idle"]
  /\ key = [c \in Callers |-> None]
  /\ leader = [c \in Callers |-> c]
  /\ verdict = [c \in Callers |-> "none"]
  /\ settles = [c \in Callers |-> None]
  /\ out = [c \in Callers |-> None]
  /\ Lane!LaneInit
  /\ tx = [c \in Callers |-> "none"]
  /\ token = [t \in Targets |-> None]
  /\ ready = {}
  /\ owed = {}
  /\ past = {}

-----------------------------------------------------------------------------
(* run, up to its first await.                                              *)

Done(k) ==
  \/ KindOf[k] = "launch" /\ token[TargetOf[k]] = k
  \/ KindOf[k] = "sweep" /\ TargetOf[k] \notin ready

Calls(c, k) ==
  /\ pc[c] = "idle"
  /\ key' = [key EXCEPT ![c] = k]
  /\ owed' = IF Done(k) THEN owed ELSE owed \cup {c}
  /\ UNCHANGED <<tx, token, ready, past>>

RunReplays(c, k) ==
  /\ Calls(c, k)
  /\ status[k] = "settled"
  /\ pc' = [pc EXCEPT ![c] = "returned"]
  /\ out' = [out EXCEPT ![c] = value[k]]
  /\ UNCHANGED <<ledgerVars, leader, verdict, settles, laneVars>>

RunAttaches(c, k) ==
  /\ Calls(c, k)
  /\ status[k] \in {"starting", "running"}
  /\ pc' = [pc EXCEPT ![c] = "follow"]
  /\ leader' = [leader EXCEPT ![c] = owner[k]]
  /\ UNCHANGED <<ledgerVars, verdict, settles, out, laneVars>>

(* Mutant: the key is claimed only once the read-back has answered.         *)
ClaimLate(c, k) ==
  /\ Calls(c, k)
  /\ status[k] \in {"none", "failed"}
  /\ owner' = [owner EXCEPT ![k] = c]
  /\ UNCHANGED status

Claim(c, k) ==
  /\ Calls(c, k)
  /\ status[k] \in {"none", "failed"}
  /\ owner' = [owner EXCEPT ![k] = c]
  /\ status' = [status EXCEPT ![k] = IF KindOf[k] = "heartbeat" THEN "running" ELSE "starting"]

(* A launch or a sweep consults the chain first.                            *)
RunVerifies(c, k) ==
  /\ KindOf[k] # "heartbeat"
  /\ Claim(c, k)
  /\ pc' = [pc EXCEPT ![c] = "verify"]
  /\ UNCHANGED <<value, leader, verdict, settles, out, laneVars>>

(* A heartbeat has no read-back: it is sent in the same segment.            *)
RunSends(c, k) ==
  /\ KindOf[k] = "heartbeat"
  /\ Claim(c, k)
  /\ pc' = [pc EXCEPT ![c] = "send"]
  /\ Lane!WithLock(c, Wallet)
  /\ UNCHANGED <<value, leader, verdict, settles, out>>

-----------------------------------------------------------------------------
(* The chain read-back and what execute does with its answer.               *)

(* Mutant: an existing token counts whatever its name.                      *)
CommittedUnnamed(k) ==
  LET t == TargetOf[k] IN
  \/ KindOf[k] = "launch" /\ token[t] # None
  \/ KindOf[k] = "sweep" /\ t \notin ready

(* verifyLaunch: the predicted token exists and has the intent's name.      *)
Committed(k) ==
  LET t == TargetOf[k] IN
  \/ KindOf[k] = "launch" /\ token[t] \in Keys /\ NameOf[token[t]] = NameOf[k]
  \/ KindOf[k] = "sweep" /\ t \notin ready

ReadBack(c) ==
  /\ pc[c] = "verify"
  /\ verdict[c] = "none"
  /\ \E v \in {"unreadable", IF Committed(key[c]) THEN "committed" ELSE "absent"} :
        verdict' = [verdict EXCEPT ![c] = v]
  /\ UNCHANGED <<ledgerVars, pc, key, leader, settles, out, laneVars, chainVars, past>>

Returns(c, o) ==
  /\ pc' = [pc EXCEPT ![c] = "returned"]
  /\ out' = [out EXCEPT ![c] = o]

(* Mutant: an unreadable chain counts as a committed effect.                *)
VerifiedUnread(c) ==
  LET v == [how |-> "verified", by |-> c] IN
  /\ pc[c] = "verify"
  /\ verdict[c] \in {"committed", "unreadable"}
  /\ status' = [status EXCEPT ![key[c]] = "settled"]
  /\ value' = [value EXCEPT ![key[c]] = v]
  /\ settles' = [settles EXCEPT ![c] = v]
  /\ Returns(c, v)
  /\ UNCHANGED <<owner, key, leader, verdict, laneVars, chainVars, past>>

VerifiedCommitted(c) ==
  LET v == [how |-> "verified", by |-> c] IN
  /\ pc[c] = "verify"
  /\ verdict[c] = "committed"
  /\ status' = [status EXCEPT ![key[c]] = "settled"]
  /\ value' = [value EXCEPT ![key[c]] = v]
  /\ settles' = [settles EXCEPT ![c] = v]
  /\ Returns(c, v)
  /\ UNCHANGED <<owner, key, leader, verdict, laneVars, chainVars, past>>

VerifiedOtherwise(c) ==
  /\ pc[c] = "verify"
  /\ verdict[c] \in {"absent", "unreadable"}
  /\ status' = [status EXCEPT ![key[c]] = "running"]
  /\ pc' = [pc EXCEPT ![c] = "send"]
  /\ Lane!WithLock(c, Wallet)
  /\ UNCHANGED <<value, owner, key, leader, verdict, settles, out, chainVars, past>>

-----------------------------------------------------------------------------
(* The send in the wallet's lane: launchTool, sweepTool, heartbeatTool.     *)

TaskStarts(c) ==
  /\ Lane!Begin(c)
  /\ UNCHANGED <<ledgerVars, callVars, chainVars, past>>

(* What simulation and the SDK's pre-send checks let through.               *)
Sendable(k) ==
  /\ KindOf[k] = "launch" => token[TargetOf[k]] = None
  /\ KindOf[k] = "sweep" => TargetOf[k] \in ready

Broadcast(c) ==
  /\ at[c] = "inside"
  /\ tx[c] = "none"
  /\ Sendable(key[c])
  /\ tx' = [tx EXCEPT ![c] = "pending"]
  /\ UNCHANGED <<ledgerVars, callVars, laneVars, token, ready, owed, past>>

(* The caller that is still racing the send gets its outcome.               *)
Racer(c, o) ==
  IF pc[c] = "send" THEN Returns(c, o) ELSE UNCHANGED <<pc, out>>

(* Mutant: the late result of a raced send is dropped with its caller.      *)
FulfilsWhileRaced(c, v) ==
  /\ status' = [status EXCEPT ![key[c]] = IF pc[c] = "send" THEN "settled" ELSE "failed"]
  /\ value' = [value EXCEPT ![key[c]] = IF pc[c] = "send" THEN v ELSE None]
  /\ settles' = [settles EXCEPT ![c] = v]
  /\ Racer(c, v)
  /\ Lane!Settle(c, "fulfilled")
  /\ UNCHANGED <<owner, key, leader, verdict, chainVars, past>>

Fulfils(c, v) ==
  /\ status' = [status EXCEPT ![key[c]] = "settled"]
  /\ value' = [value EXCEPT ![key[c]] = v]
  /\ settles' = [settles EXCEPT ![c] = v]
  /\ Racer(c, v)
  /\ Lane!Settle(c, "fulfilled")
  /\ UNCHANGED <<owner, key, leader, verdict, chainVars, past>>

Rejects(c) ==
  /\ status' = [status EXCEPT ![key[c]] = IF @ = "running" THEN "failed" ELSE @]
  /\ settles' = [settles EXCEPT ![c] = Error]
  /\ Racer(c, Error)
  /\ Lane!Settle(c, "rejected")
  /\ UNCHANGED <<value, owner, key, leader, verdict, chainVars, past>>

(* A receipt: a reverted launch throws (there is no router to report), a    *)
(* reverted sweep or heartbeat resolves with that status.                   *)
Receipt(c) ==
  /\ at[c] = "inside"
  /\ tx[c] \in {"mined", "reverted"}
  /\ IF tx[c] = "reverted" /\ KindOf[key[c]] = "launch"
     THEN Rejects(c)
     ELSE Fulfils(c, [how |-> tx[c], by |-> c])

(* Simulation refuses, or a read fails, before anything is sent; or the     *)
(* wait for the receipt fails after.                                        *)
SendFails(c) ==
  /\ at[c] = "inside"
  /\ tx[c] \in {"none", "pending", "dropped"}
  /\ Rejects(c)

(* Mutant: the caller has no deadline of its own while it waits in the lane. *)
TimesOutInside(c) ==
  /\ pc[c] = "send"
  /\ at[c] = "inside"
  /\ Returns(c, Timeout)
  /\ UNCHANGED <<ledgerVars, key, leader, verdict, settles, laneVars, chainVars, past>>

(* The deadline of the caller's own race; the send goes on.                 *)
TimesOut(c) ==
  /\ pc[c] = "send"
  /\ Returns(c, Timeout)
  /\ UNCHANGED <<ledgerVars, key, leader, verdict, settles, laneVars, chainVars, past>>

(* A follower has no race of its own: it awaits the promise it found.       *)
FollowerReturns(c) ==
  /\ pc[c] = "follow"
  /\ settles[leader[c]] # None
  /\ Returns(c, settles[leader[c]])
  /\ UNCHANGED <<ledgerVars, key, leader, verdict, settles, laneVars, chainVars, past>>

-----------------------------------------------------------------------------
(* The chain and its other users, and a crash of the process.               *)

Obliged(k) ==
  {c \in Callers : key[c] # None /\ KindOf[key[c]] = KindOf[k]
                   /\ IF KindOf[k] = "launch" THEN key[c] = k
                      ELSE TargetOf[key[c]] = TargetOf[k]}

Mine(c) ==
  LET k == key[c]
      t == TargetOf[k]
  IN /\ tx[c] = "pending"
     /\ tx' = [tx EXCEPT ![c] = IF Sendable(k) THEN "mined" ELSE "reverted"]
     /\ token' = IF KindOf[k] = "launch" /\ Sendable(k) THEN [token EXCEPT ![t] = k] ELSE token
     /\ ready' = IF KindOf[k] = "sweep" THEN ready \ {t} ELSE ready
     /\ owed' = IF Sendable(k) THEN owed \ Obliged(k) ELSE owed
     /\ UNCHANGED <<ledgerVars, callVars, laneVars, past>>

(* A transaction leaves the mempool without being mined.                    *)
Drop(c) ==
  /\ tx[c] = "pending"
  /\ tx' = [tx EXCEPT ![c] = "dropped"]
  /\ UNCHANGED <<ledgerVars, callVars, laneVars, token, ready, owed, past>>

RoyaltiesAccrue(t) ==
  /\ t \notin ready
  /\ \E k \in KeysOf("sweep") : TargetOf[k] = t
  /\ ready' = ready \cup {t}
  /\ UNCHANGED <<ledgerVars, callVars, laneVars, tx, token, owed, past>>

KeeperSweeps(k) ==
  /\ KindOf[k] = "sweep"
  /\ TargetOf[k] \in ready
  /\ ready' = ready \ {TargetOf[k]}
  /\ owed' = owed \ Obliged(k)
  /\ UNCHANGED <<ledgerVars, callVars, laneVars, tx, token, past>>

SymbolTaken(k) ==
  /\ KindOf[k] = "launch"
  /\ token[TargetOf[k]] = None
  /\ token' = [token EXCEPT ![TargetOf[k]] = Foreign]
  /\ UNCHANGED <<ledgerVars, callVars, laneVars, tx, ready, owed, past>>

Restart ==
  /\ \E c \in Callers \ past : pc[c] # "idle"
  /\ status' = [k \in Keys |-> "none"]
  /\ value' = [k \in Keys |-> None]
  /\ owner' = [k \in Keys |-> None]
  /\ pc' = [c \in Callers |-> IF Active(c) THEN "lost" ELSE pc[c]]
  /\ past' = {c \in Callers : pc[c] # "idle"}
  /\ Lane!Forget
  /\ UNCHANGED <<key, leader, verdict, settles, out, chainVars>>

-----------------------------------------------------------------------------
Run(c, k) ==
  \/ RunReplays(c, k)
  \/ RunAttaches(c, k)
  \/ RunVerifies(c, k)
  \/ RunSends(c, k)

Verified(c) == VerifiedCommitted(c) \/ VerifiedOtherwise(c)

SendEnds(c) == Receipt(c) \/ SendFails(c)

Chain ==
  \/ \E c \in Callers : Mine(c) \/ Drop(c)
  \/ \E t \in Targets : RoyaltiesAccrue(t)
  \/ \E k \in Keys : KeeperSweeps(k) \/ SymbolTaken(k)

Next ==
  \/ \E c \in Callers, k \in Keys : Run(c, k)
  \/ \E c \in Callers : ReadBack(c) \/ Verified(c)
  \/ \E c \in Callers : TaskStarts(c) \/ Broadcast(c) \/ SendEnds(c)
  \/ \E c \in Callers : TimesOut(c) \/ FollowerReturns(c)
  \/ Chain
  \/ Restart

Spec == Init /\ [][Next]_vars

(* Everything before the broadcast answers or fails, timers fire, settled   *)
(* promises wake their awaiters, a pending transaction is mined or dropped  *)
(* and a mined one gives a receipt.  The wait for the receipt of a dropped  *)
(* one has no bound (tools.ts:319).                                         *)
Fairness ==
  \A c \in Callers :
    /\ WF_vars(ReadBack(c))
    /\ WF_vars(Verified(c))
    /\ WF_vars(TaskStarts(c))
    /\ WF_vars(Broadcast(c) \/ (tx[c] = "none" /\ SendFails(c)))
    /\ WF_vars(Mine(c) \/ Drop(c))
    /\ WF_vars(Receipt(c))
    /\ WF_vars(TimesOut(c))
    /\ WF_vars(FollowerReturns(c))

FairSpec == Spec /\ Fairness

-----------------------------------------------------------------------------
(* Properties.                                                              *)

InValues(o) == o # None /\ o.how \in {"mined", "reverted", "verified"}

(* "concurrent runs for one intent share a single send" (README.md:40): two *)
(* sends of one key are never under way in one process, timeouts, failures  *)
(* and retries included (run claims the key before its first await).        *)
OneSendPerKey ==
  \A c, d \in Callers \ past :
    /\ key[c] # None /\ key[c] = key[d]
    /\ pc[c] = "verify" \/ Lane!Unsettled(c)
    /\ pc[d] = "verify" \/ Lane!Unsettled(d)
    => c = d

(* All callers of one key that got a value in one process got the same one, *)
(* the ones that attached, retried after a timeout or came late included.   *)
ValuesAgree ==
  \A c, d \in Callers \ past :
    key[c] = key[d] /\ InValues(out[c]) /\ InValues(out[d]) => out[c] = out[d]

(* A launch that returned a value left a token of the intent's name at the  *)
(* predicted address: never a stranger's token under the same symbol.       *)
LaunchExists ==
  \A c \in Callers :
    InValues(out[c]) /\ KindOf[key[c]] = "launch" =>
      LET made == token[TargetOf[key[c]]]
      IN made \in Keys /\ NameOf[made] = NameOf[key[c]]

(* Whoever is answered in a process is told the same, and what it is told    *)
(* is on the chain (dispatchToken, checkLaunch).                             *)
AnswersAreTrue == ValuesAgree /\ LaunchExists

(* A sweep or a heartbeat answered by its own send or read-back (not from   *)
(* the ledger) happened, by this caller's hand or another's, after it was   *)
(* asked for: a read-back answer that is old by then does not matter.       *)
DirectAnswerActed ==
  \A c \in Callers :
    /\ InValues(out[c])
    /\ out[c].by = c
    /\ KindOf[key[c]] # "launch"
    => c \notin owed

(* Broadcasts of one wallet are made one at a time: the sequence from       *)
(* simulation to receipt holds the lane (withWalletLane), in a process.     *)
SendsTakeTurns ==
  \A c, d \in Callers : at[c] = "inside" /\ at[d] = "inside" => c = d

(* The caller that makes the send is answered whatever the chain does: its  *)
(* race has a deadline (raceTimeout).  So there comes a time when none waits.*)
SenderReturns ==
  (\E c \in Callers : pc[c] \in {"verify", "send"})
    ~> ~ \E c \in Callers : pc[c] \in {"verify", "send"}

(* Claim of tools.ts:500-502, "a mistaken re-send is impossible": no two    *)
(* broadcasts of one launch intent wait to be mined.                        *)
OneBroadcastPerLaunch ==
  \A c, d \in Callers :
    /\ tx[c] = "pending" /\ tx[d] = "pending"
    /\ key[c] = key[d] /\ KindOf[key[c]] = "launch"
    => c = d
=============================================================================
