----------------------------- MODULE SynapsePins -----------------------------
(***************************************************************************)
(* Filecoin storage (dsh-storage-synapse): a file is packed, uploaded and   *)
(* paid for, its piece is recorded in a ledger, in memory and on disk, and  *)
(* a pin is checked by asking the providers for the recorded piece.  Repeat *)
(* stores of the same bytes in one process reuse the first.                 *)
(*                                                                         *)
(* A call is one tool call.  A content stands for its bytes, its root CID   *)
(* and its piece, which the bytes determine.  The ledger file is replaced   *)
(* through one temporary file that all saves of the process share; a file   *)
(* is a number, so that who has it open still writes to it when renamed.    *)
(***************************************************************************)
EXTENDS Naturals, FiniteSets

CONSTANTS
  Pins,        \* the tool calls, numbered from 1
  Contents,    \* what is stored
  MaxLapses    \* bound on failures, refusals, lost pieces and crashes

ASSUME PinsAssumption == Pins \subseteq Nat \ {0} /\ IsFiniteSet(Pins)
ASSUME LapsesAssumption == MaxLapses \in Nat
ASSUME ContentsAssumption == "torn" \notin Contents   \* Torn is no content

VARIABLES
  pin,         \* the calls
  held,        \* the contents whose piece a provider holds
  uploads,     \* contents stored by this process
  pieces,      \* the ledger in memory
  ledgerLoaded,
  files,       \* file number -> the contents written in it, or Torn
  tmp, disk,   \* the file the temporary name and the ledger's name stand for
  lapses,      \* history: failures, refusals, lost pieces and crashes
  recorded,    \* history: contents that a call that returned recorded on disk
  unread,      \* history: this process could not read the ledger file
  excuse       \* history: overlapping uses of the ledger file, failing saves
               \* and saves of what was not read, and pieces that cannot be had

pinVars == <<pin, held, uploads, pieces, ledgerLoaded, files, tmp, disk, lapses, recorded, unread, excuse>>
fileVars == <<files, tmp, disk>>

NoFile == 0
Unsaid == "unsaid"
Torn == {"torn"}
Lapse == lapses < MaxLapses /\ lapses' = lapses + 1
Fresh == [op |-> "none", of |-> Unsaid, at |-> "new", next |-> "none",
          tries |-> 0, fd |-> NoFile, body |-> {}, knows |-> FALSE]

CheckRetries == 3

(* Mutant: a ledger file is not recognised, as one of another version.      *)
WrittenUnread == {}

(* What the ledger file says when it is read.                               *)
Written == IF disk = NoFile \/ files[disk] = Torn THEN {} ELSE files[disk]

Saving(c) == pin[c].at \in {"write", "rename"}
Of(c) == pin[c].of

(* Mutant: a store does not wait for the ledger before it records.          *)
LedgerReadyToStore(c) == ledgerLoaded \/ pin[c].at = "record"

LedgerReady(c) == ledgerLoaded

Goes(c, at) == pin' = [pin EXCEPT ![c].at = at]
(* An answer is kept with what it is about only when it is "no".            *)
Told(c, at) == [Fresh EXCEPT !.at = at, !.of = Of(c), !.knows = pin[c].knows]
Ended(at) == [Fresh EXCEPT !.at = at]

-----------------------------------------------------------------------------
PinsInit ==
  /\ pin = [c \in Pins |-> Fresh] /\ held = {} /\ uploads = {} /\ pieces = {}
  /\ ledgerLoaded = FALSE /\ files = [c \in Pins |-> {}] /\ tmp = NoFile /\ disk = NoFile
  /\ lapses = 0 /\ recorded = {} /\ unread = FALSE /\ excuse = FALSE

(* A tool call: a file or a CID is pinned, or a CID asked about; a repeat   *)
(* is asked about first (checkPinTool), which only knows files this process *)
(* has stored.  History: what it asks about is recorded, and the ledger is  *)
(* neither being read nor unread.                                           *)
Requested(c) ==
  /\ pin[c].at = "new" /\ \A d \in Pins : d < c => pin[d].at # "new"
  /\ \E op \in {"path", "cid", "status"}, x \in Contents, again \in BOOLEAN :
       /\ op = "status" => ~again
       /\ pin' = [pin EXCEPT ![c] = [Fresh EXCEPT !.op = op, !.of = x,
            !.at = CASE again /\ op = "path" /\ x \notin uploads -> "unknown"
                     [] op = "path" /\ ~again -> "store"
                     [] OTHER -> "check",
            !.next = IF op = "status" THEN "tell" ELSE IF again THEN "verdict" ELSE "pin",
            !.knows = /\ x \in recorded /\ ~unread
                      /\ \A d \in Pins : pin[d].at # "load"]]
  /\ UNCHANGED <<held, uploads, pieces, ledgerLoaded, unread, fileVars, lapses, recorded, excuse>>

(* The guard runs a repeat it knows nothing about, or refuses it.           *)
PinDecided(c) ==
  /\ pin[c].at = "unknown"
  /\ pin' \in {[pin EXCEPT ![c].at = "store", ![c].next = "pin"], [pin EXCEPT ![c] = Ended("failed")]}
  /\ UNCHANGED <<held, uploads, pieces, ledgerLoaded, unread, fileVars, lapses, recorded, excuse>>

-----------------------------------------------------------------------------
(* store                                                                    *)

Stores(c) ==
  /\ pin[c].at = "store"
  /\ pin' = [pin EXCEPT ![c].at = IF Of(c) \in uploads THEN "check" ELSE "upload",
                        ![c].op = IF Of(c) \in uploads THEN "cid" ELSE @]
  /\ UNCHANGED <<held, uploads, pieces, ledgerLoaded, unread, fileVars, lapses, recorded, excuse>>

(* The bytes are with a provider; what it has is paid for by signing.       *)
Uploads(c) ==
  /\ pin[c].at = "upload"
  /\ Goes(c, "sign")
  /\ UNCHANGED <<held, uploads, pieces, ledgerLoaded, unread, fileVars, lapses, recorded, excuse>>

(* No provider is left when some are excluded: once more without excluding. *)
SelectionFails(c) ==
  /\ pin[c].at = "upload" /\ pin[c].tries = 0 /\ Lapse
  /\ pin' = [pin EXCEPT ![c].tries = 1]
  /\ UNCHANGED <<held, uploads, pieces, ledgerLoaded, unread, fileVars, recorded, excuse>>

UploadFails(c) ==
  /\ pin[c].at = "upload" /\ Lapse
  /\ pin' = [pin EXCEPT ![c] = Ended("failed")]
  /\ UNCHANGED <<held, uploads, pieces, ledgerLoaded, unread, fileVars, recorded, excuse>>

Signs(c) ==
  /\ pin[c].at = "sign"
  /\ held' = held \cup {Of(c)}
  /\ Goes(c, "record")
  /\ UNCHANGED <<uploads, pieces, ledgerLoaded, unread, fileVars, lapses, recorded, excuse>>

(* The treasury or the wallet refuses to sign; or it has signed and the     *)
(* piece that is answered is none.                                          *)
SignFails(c) ==
  /\ pin[c].at = "sign" /\ Lapse
  /\ pin' = [pin EXCEPT ![c] = Ended("failed")]
  /\ held' \in {held, held \cup {Of(c)}}
  /\ UNCHANGED <<uploads, pieces, ledgerLoaded, unread, fileVars, recorded, excuse>>

(* ensureLedger marks the ledger as loaded, and then reads it.  History:    *)
(* nothing is known to the other calls that run.                            *)
EnsuresLedger(c) ==
  /\ pin[c].at \in {"record", "check"} /\ ~LedgerReady(c)
  /\ ledgerLoaded' = TRUE
  /\ pin' = [d \in Pins |->
       IF d = c THEN [pin[c] EXCEPT !.at = "load", !.body = {pin[c].at}]
       ELSE [pin[d] EXCEPT !.knows = FALSE]]
  /\ excuse' = (excuse \/ \E d \in Pins : Saving(d))
  /\ UNCHANGED <<held, uploads, pieces, unread, fileVars, lapses, recorded>>

Loads(c) ==
  /\ pin[c].at = "load"
  /\ pieces' = pieces \cup Written
  /\ \E back \in pin[c].body : pin' = [pin EXCEPT ![c].at = back, ![c].body = {}]
  /\ UNCHANGED <<held, uploads, ledgerLoaded, unread, fileVars, lapses, recorded, excuse>>

(* The file is there and cannot be read, or the module that checks its      *)
(* pieces does not load: the ledger starts empty and stays marked as        *)
(* loaded.  History: the call counts on nothing.                            *)
LoadFails(c) ==
  /\ pin[c].at = "load" /\ Lapse
  /\ unread' = TRUE
  /\ \E back \in pin[c].body :
       pin' = [pin EXCEPT ![c].at = back, ![c].body = {}, ![c].knows = FALSE]
  /\ UNCHANGED <<held, uploads, pieces, ledgerLoaded, fileVars, recorded, excuse>>

(* The piece enters the ledger, whose pieces are taken and the temporary    *)
(* file opened, which empties it when there is one (persistLedger).  What   *)
(* was not read is not in it.                                               *)
Records(c) ==
  /\ pin[c].at = "record" /\ LedgerReady(c)
  /\ pieces' = pieces \cup {Of(c)}
  /\ LET fd == IF tmp = NoFile THEN c ELSE tmp IN
     /\ pin' = [pin EXCEPT ![c].at = "write", ![c].body = pieces', ![c].fd = fd]
     /\ files' = [files EXCEPT ![fd] = Torn] /\ tmp' = fd
  /\ excuse' = (excuse \/ unread \/ \E d \in Pins : Saving(d) \/ pin[d].at = "load")
  /\ UNCHANGED <<held, uploads, ledgerLoaded, unread, disk, lapses, recorded>>

(* Two that write the same file may leave something that is neither.        *)
Writes(c) ==
  LET fd == pin[c].fd
      clash == \E d \in Pins \ {c} : pin[d].fd = fd /\ pin[d].at = "rename"
  IN
  /\ pin[c].at = "write"
  /\ \E content \in {pin[c].body} \cup (IF clash THEN {Torn} ELSE {}) :
       files' = [files EXCEPT ![fd] = content]
  /\ Goes(c, "rename")
  /\ UNCHANGED <<held, uploads, pieces, ledgerLoaded, unread, tmp, disk, lapses, recorded, excuse>>

(* The temporary file, whoever wrote it, is the ledger now; the store is    *)
(* over and the pin is asked for.                                           *)
Saved(c) ==
  pin' = [pin EXCEPT ![c].op = "cid", ![c].at = "check", ![c].body = {}, ![c].fd = NoFile, ![c].tries = 0]
Renames(c) ==
  /\ pin[c].at = "rename" /\ tmp # NoFile
  /\ disk' = tmp /\ tmp' = NoFile
  /\ files' = IF disk = NoFile THEN files ELSE [files EXCEPT ![disk] = {}]
  /\ Saved(c) /\ uploads' = uploads \cup {Of(c)} /\ recorded' = recorded \cup {Of(c)}
  /\ UNCHANGED <<held, pieces, ledgerLoaded, unread, lapses, excuse>>

(* It is gone, or the save fails: the ledger stays in memory.               *)
SaveFails(c) ==
  /\ Saving(c)
  /\ \/ pin[c].at = "rename" /\ tmp = NoFile /\ UNCHANGED lapses
     \/ Lapse
  /\ excuse' = TRUE
  /\ Saved(c) /\ uploads' = uploads \cup {Of(c)}
  /\ UNCHANGED <<held, pieces, ledgerLoaded, unread, fileVars, recorded>>

-----------------------------------------------------------------------------
(* checkPin, and what its answer means to who asked.                        *)

Pinned(c) ==
  /\ pin[c].at = "check" /\ LedgerReady(c)
  /\ Of(c) \in pieces \cap held
  /\ pin' = [pin EXCEPT ![c] = Ended("pinned")]
  /\ UNCHANGED <<held, uploads, pieces, ledgerLoaded, unread, fileVars, lapses, recorded, excuse>>

(* No piece is recorded, no provider has it, or the network cannot be read. *)
(* A pin says it is pinned all the same; the guard asks again, and then     *)
(* runs the repeat.                                                         *)
NotPinned(c) ==
  LET p == pin[c] IN
  /\ p.at = "check" /\ LedgerReady(c)
  /\ \/ Of(c) \notin pieces \cap held /\ UNCHANGED <<lapses, excuse>>
     \/ Lapse /\ excuse' = TRUE
  /\ pin' = [pin EXCEPT ![c] =
       CASE p.next = "tell" -> Told(c, "absent")
         [] p.next = "pin" -> Told(c, "claimed")
         [] p.next = "verdict" /\ p.tries + 1 < CheckRetries -> [p EXCEPT !.tries = @ + 1]
         [] OTHER -> [p EXCEPT !.at = IF p.op = "path" THEN "store" ELSE "check",
                               !.next = "pin", !.tries = 0]]
  /\ UNCHANGED <<held, uploads, pieces, ledgerLoaded, unread, fileVars, recorded>>

-----------------------------------------------------------------------------
(* A provider loses a piece.                                                *)
PieceLost ==
  /\ Lapse /\ excuse' = TRUE
  /\ \E x \in held : held' = held \ {x}
  /\ UNCHANGED <<pin, uploads, pieces, ledgerLoaded, unread, fileVars, recorded>>

PinsCrash ==
  /\ Lapse
  /\ pin' = [c \in Pins |-> IF pin[c].at = "new" THEN pin[c] ELSE Ended("lost")]
  /\ uploads' = {} /\ pieces' = {} /\ ledgerLoaded' = FALSE /\ unread' = FALSE /\ tmp' = NoFile
  /\ files' = [f \in Pins |-> IF f = disk THEN files[f] ELSE {}]
  /\ UNCHANGED <<held, disk, recorded, excuse>>

PinsNext ==
  \/ \E c \in Pins :
       \/ Requested(c) \/ PinDecided(c) \/ Stores(c) \/ Uploads(c) \/ SelectionFails(c)
       \/ UploadFails(c) \/ Signs(c) \/ SignFails(c)
       \/ EnsuresLedger(c) \/ Loads(c) \/ LoadFails(c)
       \/ Records(c) \/ Writes(c) \/ Renames(c) \/ SaveFails(c)
       \/ Pinned(c) \/ NotPinned(c)
  \/ PieceLost \/ PinsCrash

PinsSpec == PinsInit /\ [][PinsNext]_pinVars

-----------------------------------------------------------------------------
(* Every part has its type; a pin is asked for three times at most.         *)
PinsTypeOK ==
  /\ held \subseteq Contents /\ uploads \subseteq Contents /\ pieces \subseteq Contents
  /\ files \in [Pins -> {Torn} \cup SUBSET Contents]
  /\ {tmp, disk} \subseteq Pins \cup {NoFile}
  /\ \A c \in Pins : pin[c].tries \in 0..2 /\ pin[c].fd \in Pins \cup {NoFile}
  /\ lapses \in 0..MaxLapses

(* A piece whose store has returned and been saved is in the ledger file,   *)
(* through later stores, failed reads and restarts, unless two saves or a   *)
(* save and a load of the file overlapped, a save of it failed, or a        *)
(* process that could not read it has saved its own over it.                *)
RecordedIsKept == excuse \/ recorded \subseteq Written

(* A stored and recorded content is not reported as not pinned, nor as      *)
(* pinned without its piece, by a call that begins later and not while the  *)
(* ledger is being read, as long as a provider has it and can be asked and  *)
(* this process could read the ledger: the next process that can answers    *)
(* from it again.                                                           *)
NotForgotten ==
  \A c \in Pins : pin[c].at \in {"absent", "claimed"} => excuse \/ ~pin[c].knows

(* What was stored is neither lost from the ledger nor denied by a read-back *)
(* (FilecoinBackend.store, persistLedger and checkPin).                     *)
PinsAreKept == RecordedIsKept /\ NotForgotten

(* "persisting the root->piece ledger across restarts (best-effort, 0600)"  *)
(* (synapse.ts:82): what was recorded stays in the file.  (Best effort it   *)
(* is, it does not hold: README, Divergences.)                              *)
RecordedSurvives == recorded \subseteq Written
=============================================================================
