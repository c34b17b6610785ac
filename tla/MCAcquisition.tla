----------------------------- MODULE MCAcquisition -----------------------------
(***************************************************************************)
(* Small instances of Acquisition.                                         *)
(***************************************************************************)
EXTENDS Acquisition, TLC

CONSTANTS magnet, page, dottorrent, file, movie, qbittorrent, transmission

BothBackends == <<qbittorrent, transmission>>

(* One torrent under three names, and a plain file of the same content.     *)
FourSources ==
  (magnet :> [via |-> "magnet", content |-> movie])
  @@ (page :> [via |-> "page", content |-> movie])
  @@ (dottorrent :> [via |-> "torrent", content |-> movie])
  @@ (file :> [via |-> "file", content |-> movie])

OneMagnet == magnet :> [via |-> "magnet", content |-> movie]

CallerSymmetry == Permutations(Callers)
================================================================================
