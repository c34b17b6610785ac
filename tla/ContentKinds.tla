---------------------------- MODULE ContentKinds ----------------------------
(***************************************************************************)
(* What a downloaded file is (dsh-tool-acquisition, filetype.ts) and which *)
(* files of a download are content (selection.ts).                         *)
(*                                                                         *)
(* A file's bytes are a record: "magic", the type its leading bytes are    *)
(* those of; "inside", what the members of a ZIP archive or the markup of  *)
(* an XML document say it holds; "readable", that they are text;           *)
(* "bencoded", that they parse as a torrent.  Of the tables of types and   *)
(* extensions the rows stand that the code below treats differently.       *)
(***************************************************************************)
EXTENDS Integers, Sequences, SequencesExt, FiniteSetsExt

TORRENT_MIME == "application/x-bittorrent"
NZB_MIME     == "application/x-nzb"
Unknown      == "application/octet-stream"
Ole          == "application/x-ole-storage"

(***************************************************************************)
(* Types.                                                                  *)
(***************************************************************************)
sniffBytes(bytes) ==
    IF bytes.magic = "markup"
    THEN CASE bytes.inside = "nzb"  -> NZB_MIME
           [] bytes.inside = "svg"  -> "image/svg+xml"
           [] bytes.inside = "html" -> "text/html"
           [] OTHER                 -> "application/xml"
    ELSE bytes.magic

sniffZip(bytes) ==
    CASE bytes.inside = "epub"   -> "application/epub+zip"
      [] bytes.inside = "word"   -> "application/vnd.openxmlformats-officedocument.wordprocessingml.document"
      [] bytes.inside = "images" -> "application/vnd.comicbook+zip"
      [] OTHER                   -> "application/zip"

(* In the order of the table: the first extension of a type is the one a    *)
(* file of that type is given.                                              *)
EXTENSION_MIMES ==
    <<<<".epub", "application/epub+zip">>, <<".cbz", "application/vnd.comicbook+zip">>,
      <<".mkv", "video/x-matroska">>, <<".opus", "audio/ogg">>, <<".ogg", "audio/ogg">>,
      <<".torrent", TORRENT_MIME>>, <<".nzb", NZB_MIME>>, <<".mp4", "video/mp4">>,
      <<".m4v", "video/mp4">>, <<".svg", "image/svg+xml">>,
      <<".doc", "application/msword">>,
      <<".docx", "application/vnd.openxmlformats-officedocument.wordprocessingml.document">>,
      <<".zip", "application/zip">>, <<".txt", "text/plain">>, <<".srt", "text/plain">>,
      <<".xml", "application/xml">>, <<".html", "text/html">>>>

mimeFromExtension(ext) ==
    LET at == SelectInSeq(EXTENSION_MIMES, LAMBDA r : r[1] = ext)
    IN  IF at = 0 THEN "none" ELSE EXTENSION_MIMES[at][2]

FALLBACK_EXTENSIONS == [m \in {"text/x-magnet"} |-> ".magnet"]

extensionForMime(mime) ==
    LET at == SelectInSeq(EXTENSION_MIMES, LAMBDA r : r[2] = mime)
    IN  IF at # 0 THEN EXTENSION_MIMES[at][1]
        ELSE IF mime \in DOMAIN FALLBACK_EXTENSIONS THEN FALLBACK_EXTENSIONS[mime]
        ELSE ""

looksLikeText(bytes) == bytes.readable

(* What an extension may make of an XML document.                           *)
XmlNames == {"image/svg+xml", "text/plain", "text/html",
             "application/vnd.openxmlformats-officedocument.wordprocessingml.document"}

detectMime(bytes, ext) ==
    LET sniffed == sniffBytes(bytes)
        named   == mimeFromExtension(ext)
    IN  CASE sniffed = "application/zip" -> sniffZip(bytes)
          [] sniffed = Ole               -> IF named = "none" THEN Ole ELSE named
          [] sniffed = "application/xml" ->
                IF named \in XmlNames THEN named ELSE sniffed
          [] sniffed = "none"            ->
                IF named # "none" THEN named
                ELSE IF looksLikeText(bytes) THEN "text/plain" ELSE Unknown
          [] OTHER                       -> sniffed

Documents == {"application/epub+zip", "application/vnd.comicbook+zip", "application/msword",
              "application/vnd.openxmlformats-officedocument.wordprocessingml.document"}

mediaKind(mime) ==
    CASE mime \in {TORRENT_MIME, "text/x-magnet"}      -> "torrent"
      [] mime = NZB_MIME                               -> "nzb"
      [] mime \in Documents                            -> "document"
      [] mime = "application/zip"                      -> "archive"
      [] mime \in {"video/x-matroska", "video/mp4"}    -> "video"
      [] mime = "audio/ogg"                            -> "audio"
      [] mime = "image/svg+xml"                        -> "image"
      [] mime \in {"text/plain", "text/html", "application/xml"} -> "text"
      [] OTHER                                         -> "other"

POINTER_KINDS == {"torrent", "nzb"}

(* A pattern is a kind, a type, or everything.                              *)
mimeMatches(mime, patterns) == patterns \intersect {"*", mime, mediaKind(mime)} # {}

(***************************************************************************)
(* The files of a download that are content.  A policy says which types to  *)
(* accept and to reject, the sizes, how many files and whether the largest  *)
(* alone is wanted.                                                         *)
(***************************************************************************)
acceptsMime(policy, mime) ==
    /\ mediaKind(mime) \notin POINTER_KINDS
    /\ mimeMatches(mime, policy.accept)
    /\ ~ mimeMatches(mime, policy.reject)

(* The names of samples, par2 sets, hidden and temporary files.             *)
excludedName(policy, f) == policy.excludes /\ f.sample

IsContent(policy, f) ==
    /\ ~ excludedName(policy, f)
    /\ f.size >= policy.minSize
    /\ policy.maxSize > 0 => f.size <= policy.maxSize
    /\ acceptsMime(policy, detectMime(f.bytes, f.ext))

Largest(files) ==
    files[Min({i \in DOMAIN files : \A j \in DOMAIN files : files[j].size <= files[i].size})]

(* Files in the order of their paths.                                       *)
selectFiles(policy, files) ==
    LET content == SelectSeq(files, LAMBDA f : IsContent(policy, f))
        chosen  == SubSeq(content, 1, Min({Len(content), policy.maxFiles}))
    IN  IF policy.mode = "largest" /\ chosen # <<>> THEN <<Largest(chosen)>> ELSE chosen

=============================================================================
