---------------------------- MODULE ReleaseFetch ----------------------------
(***************************************************************************)
(* How one source of an acquisition becomes a file or a torrent            *)
(* (dsh-tool-acquisition): a Prowlarr link is resolved (prowlarr.ts), a    *)
(* third-party URL is followed hop by hop, each hop checked before it is   *)
(* requested (fetch.ts, fetchSafety.ts), the body is streamed to a .part   *)
(* file and renamed, and what it turns out to be decides what becomes of   *)
(* it (acquire.ts).  In Acquisition all of this is one await.              *)
(*                                                                         *)
(* The servers, the resolver, the disk and the caller's cancellation are   *)
(* the environment: they answer anything, or nothing until the request     *)
(* times out.                                                              *)
(***************************************************************************)
EXTENDS ContentKinds

CONSTANTS
    Hosts,          \* hosts a URL may name
    Prowlarr,       \* the configured Prowlarr
    AllowedHosts,   \* the configured allowlist; {} allows every host
    Policy,         \* the types the configuration accepts
    Bodies,         \* what a server may send: bytes and their number
    MaxRedirects, MaxBytes, HardCap

ASSUME FetchBounds ==
    /\ Prowlarr \in Hosts
    /\ {MaxRedirects, MaxBytes, HardCap} \subseteq Nat

VARIABLES
    source,         \* what the URL was given as
    phase,          \* where the call stands
    url,            \* the URL in hand
    hop,            \* requests already made to third parties
    body,           \* the body being read, and the part of it written
    disk,           \* "ok", or "full" once a write was lost
    part,           \* the .part file: bytes in it, -1 when there is none
    settled,        \* the file under its final name
    outcome         \* what the call came to

fetchVars == <<source, phase, url, hop, body, disk, part, settled, outcome>>

URLs == [scheme : {"https", "magnet", "ftp"}, host : Hosts]
NoBody == [size |-> 0]
NoFile == [size |-> -1]
Pending == [kind |-> "pending"]
Error(permanent) == [kind |-> "error", permanent |-> permanent]

(* proxy: a download link of Prowlarr's, which is mapped onto its           *)
(* configured origin whatever host it names.                                *)
FetchInit ==
    /\ source \in {"direct", "prowlarr", "proxy"} /\ phase = "resolving"
    /\ url \in {u \in URLs : u.scheme # "ftp"}
    /\ hop = 0 /\ body = NoBody /\ disk = "ok" /\ part = -1
    /\ settled = NoFile /\ outcome = Pending

Over(result) == phase' = "over" /\ outcome' = result /\ UNCHANGED <<source, url, hop, body, disk>>

Fail(permanent) == Over(Error(permanent)) /\ UNCHANGED <<part, settled>>

TakeMagnet == Over([kind |-> "torrent"]) /\ UNCHANGED <<part, settled>>

Advance(next) == phase' = next /\ UNCHANGED <<source, disk, outcome>>

Follow(target) ==
    /\ Advance("check")
    /\ url' = target
    /\ UNCHANGED <<body, part, settled>>

(***************************************************************************)
(* Prowlarr's links.                                                       *)
(***************************************************************************)
(* A magnet is taken as it is; a link to Prowlarr is asked for with the key, *)
(* if there is one; any other link is a third party's.                      *)
Resolve ==
    /\ phase = "resolving"
    /\ LET ours == source = "proxy" \/ (source = "prowlarr" /\ url.host = Prowlarr)
       IN  \/ url.scheme = "magnet" /\ TakeMagnet
           \/ url.scheme # "magnet" /\ source # "direct" /\ Fail(TRUE)
           \/ /\ url.scheme # "magnet" /\ ours
              /\ Advance("asking")
              /\ url' = [url EXCEPT !.host = Prowlarr]
              /\ UNCHANGED <<hop, body, part, settled>>
           \/ url.scheme # "magnet" /\ ~ ours /\ Follow(url) /\ UNCHANGED hop

Stream(b, cap) ==
    /\ Advance("streaming")
    /\ body' = [bytes |-> b.bytes, ext |-> b.ext, size |-> b.size, cap |-> cap]
    /\ part' = 0
    /\ UNCHANGED <<url, hop, settled>>

(* A redirect, a status (401, 403 and a link Prowlarr cannot read are       *)
(* permanent, 408, 429 and 5xx are not), or a body.                         *)
ProwlarrAnswers ==
    /\ phase = "asking"
    /\ \/ \E target \in URLs :
            IF target.scheme = "magnet" THEN TakeMagnet ELSE Follow(target) /\ UNCHANGED hop
       \/ \E permanent \in BOOLEAN : Fail(permanent)
       \/ \E b \in Bodies : Stream(b, MaxBytes)

(***************************************************************************)
(* Third parties.                                                          *)
(***************************************************************************)
Allowed(u) == u.scheme = "https" /\ (AllowedHosts = {} \/ u.host \in AllowedHosts)

(* Every address the host resolves to has to be public.                     *)
checkFetchTarget ==
    /\ phase = "check"
    /\ \/ Allowed(url) /\ Advance("asked") /\ UNCHANGED <<url, hop, body, part, settled>>
       \/ Fail(TRUE)

(* Mutant: every redirect is followed.                                      *)
AlwaysFollowed(target) == Follow(target) /\ UNCHANGED hop

Redirected(target) ==
    IF hop < MaxRedirects
    THEN Follow(target) /\ hop' = hop + 1
    ELSE Fail(TRUE)

(* A body that says it is longer than the cap is refused by its header.     *)
ThirdPartyAnswers ==
    /\ phase = "asked"
    /\ \/ \E target \in URLs :
            IF target.scheme = "magnet" THEN TakeMagnet ELSE Redirected(target)
       \/ \E permanent \in BOOLEAN : Fail(permanent)
       \/ \E b \in Bodies :
            /\ b.declared => b.size <= MaxBytes
            /\ Stream(b, Min({MaxBytes, HardCap}))

(* The bound on a request is the bound on reading its body; the caller may   *)
(* also give up, and the connection may break.                              *)
TimesOut ==
    /\ phase \in {"asking", "asked", "streaming"}
    /\ Over(Error(FALSE))
    /\ part' = -1
    /\ UNCHANGED settled

(***************************************************************************)
(* The body.                                                               *)
(***************************************************************************)
ChunkArrives ==
    /\ phase = "streaming" /\ part < body.size
    /\ IF part + 1 > body.cap
       THEN Over(Error(TRUE)) /\ part' = -1
       ELSE part' = part + 1 /\ UNCHANGED <<source, phase, url, hop, body, disk, outcome>>
    /\ UNCHANGED settled

(* Mutant: the stream is finished whenever the server pauses.               *)
FinishesEarly ==
    /\ phase = "streaming"
    /\ phase' = "settling"
    /\ UNCHANGED <<source, url, hop, body, disk, part, settled, outcome>>

(* An error of the stream is listened for only while it is being finished,  *)
(* and is swallowed then; before that it ends the process.                  *)
StreamFinishes ==
    /\ phase = "streaming" /\ part = body.size
    /\ \/ UNCHANGED <<part, disk>>
       \/ part > 0 /\ part' = part - 1 /\ disk' = "full"
    /\ phase' = "settling"
    /\ UNCHANGED <<source, url, hop, body, settled, outcome>>

FetchCrash ==
    /\ phase # "over"
    /\ Over([kind |-> "crashed"])
    /\ UNCHANGED <<part, settled>>

Mime == detectMime(body.bytes, ".part")

(* The extension says what the content is, whatever the server called it.   *)
Settle ==
    /\ phase = "settling"
    /\ Advance("branching")
    /\ LET wanted == extensionForMime(Mime)
       IN  settled' = [size |-> part, bytes |-> body.bytes, sample |-> FALSE,
                       ext |-> IF wanted = "" THEN body.ext ELSE wanted]
    /\ part' = -1
    /\ UNCHANGED <<url, hop, body>>

(***************************************************************************)
(* What it turned out to be.                                               *)
(***************************************************************************)
Removed(result) == Over(result) /\ settled' = NoFile /\ UNCHANGED part

(* A page in place of a release is a login gate: what reads as one, or what *)
(* its server declares to be one.  It is left where it is.                  *)
rejectInfoPage(declaredPage) == source # "direct" /\ (Mime = "text/html" \/ declaredPage)

IsTorrentFile == mediaKind(Mime) = "torrent" \/ (Mime = Unknown /\ body.bytes.bencoded)

branchFetchedFile ==
    /\ phase = "branching"
    /\ \E declaredPage \in BOOLEAN :
         \/ rejectInfoPage(declaredPage) /\ Fail(TRUE)
         \/ /\ ~ rejectInfoPage(declaredPage) /\ IsTorrentFile
            /\ IF body.bytes.bencoded THEN Removed([kind |-> "torrent"]) ELSE Fail(TRUE)
         \/ /\ ~ rejectInfoPage(declaredPage) /\ ~ IsTorrentFile
            /\ IF mediaKind(Mime) = "nzb" \/ selectFiles(Policy, <<settled>>) = <<>>
               THEN Removed(Error(TRUE))
               ELSE Over([kind |-> "file", mime |-> Mime]) /\ UNCHANGED <<part, settled>>

FetchNext ==
    \/ Resolve \/ ProwlarrAnswers
    \/ checkFetchTarget \/ ThirdPartyAnswers
    \/ TimesOut \/ FetchCrash
    \/ ChunkArrives \/ StreamFinishes \/ Settle
    \/ branchFetchedFile

(* The program takes its own steps; a request ends at the latest when it    *)
(* times out.                                                               *)
FetchFairness ==
    /\ WF_fetchVars(Resolve) /\ WF_fetchVars(checkFetchTarget)
    /\ WF_fetchVars(TimesOut)
    /\ WF_fetchVars(Settle) /\ WF_fetchVars(branchFetchedFile)

FetchSpec == FetchInit /\ [][FetchNext]_fetchVars /\ FetchFairness

(***************************************************************************)
(* Properties.                                                             *)
(***************************************************************************)
(* What stands under a download's final name is the whole body, no longer   *)
(* than the cap, however the download ended, and its name gives it the type *)
(* it was taken for when that was known from the bytes.  (A disk that fails *)
(* as the file is finished is the exception: the error is swallowed.)       *)
DownloadIsWhole ==
    settled # NoFile =>
        /\ disk = "ok" => settled.size = body.size
        /\ settled.size <= body.cap
        /\ Mime \notin {Unknown, Ole} => detectMime(settled.bytes, settled.ext) = Mime

(* However the servers answer or do not, the call comes to an end.          *)
EveryFetchEnds == (phase = "resolving") ~> (phase = "over")

=============================================================================
