----------------------------- MODULE SealedFile -----------------------------
(***************************************************************************)
(* The framed file format of the seal (dsh-haven-aol, seal.ts): a base IV, *)
(* then for each chunk of the plaintext its index, the length of its       *)
(* ciphertext and the ciphertext with its tag.  A file is sealed, what is  *)
(* stored of it may come back cut, with frames lost, repeated or in        *)
(* another order, and it is opened again.                                  *)
(*                                                                         *)
(* The sealed bytes are a sequence of cells: the IV, an index and a length *)
(* are a cell each, a chunk's ciphertext is one cell per plaintext byte    *)
(* and one for the tag.  AES-GCM opens the cells of one encryption, in     *)
(* their order and under the IV and key they were made with, and nothing   *)
(* else.  A cell of ciphertext read as a number is some number.            *)
(***************************************************************************)
EXTENDS Integers, Sequences

CONSTANTS
    Bytes,         \* what a plaintext byte may be
    FileMax,       \* the longest file
    ChunkSize,     \* plaintext bytes of a chunk
    ChunkMax,      \* the largest length a header may declare, tag included
    FramesMax      \* bound: frames that storage hands back

ASSUME SealBounds ==
    /\ {FileMax, ChunkSize, ChunkMax, FramesMax} \subseteq Nat
    /\ ChunkSize > 0
    /\ ChunkSize < ChunkMax

VARIABLES
    file,          \* the plaintext
    layout,        \* "framed", or "single" for a row from before the framing
    sealStage,     \* "sealing", "stored", "opening", "done"
    frames,        \* how many frames were put behind the base IV
    stored,        \* the sealed bytes, as they grow and as they come back
    intact,        \* nothing happened to them
    reader,        \* where the opening stands: its key, the next frame, the bytes so far
    opened         \* what decryptFileAny makes of them

sealVars == <<file, layout, sealStage, frames, stored, intact, reader, opened>>

Failed  == [ok |-> FALSE]
Opened(bytes) == [ok |-> TRUE, bytes |-> bytes]
NoReader == [at |-> 0]

(***************************************************************************)
(* AES-GCM.  The IV of a chunk is the base IV with the chunk's index put   *)
(* into it, so the index stands for it, and 0 for the base IV itself.      *)
(***************************************************************************)
BaseIV == 0

Encrypt(iv, plain) ==
    [i \in 1 .. Len(plain) + 1 |->
        [is |-> "cipher", iv |-> iv, at |-> i, of |-> plain, key |-> "aes"]]

Decrypt(iv, key, cells) ==
    IF /\ cells # <<>>
       /\ cells[1].is = "cipher"
       /\ cells = Encrypt(iv, cells[1].of)
       /\ key = "aes"
    THEN Opened(cells[1].of)
    ELSE Failed

IV == [is |-> "iv"]
Word(n) == [is |-> "word", n |-> n]

(* What a cell reads as a 32-bit number: "noise" where it is ciphertext.    *)
readU32le(cell, noise) == IF cell.is = "word" THEN cell.n ELSE noise

(***************************************************************************)
(* Sealing: a frame for each chunk, every one behind an await.             *)
(***************************************************************************)
Chunk(plain, index) ==
    SubSeq(plain, index * ChunkSize + 1,
           IF (index + 1) * ChunkSize < Len(plain) THEN (index + 1) * ChunkSize ELSE Len(plain))

Frame(plain, index) ==
    LET encrypted == Encrypt(index, Chunk(plain, index))
    IN  <<Word(index), Word(Len(encrypted))>> \o encrypted

SealInit ==
    /\ file \in UNION {[1 .. n -> Bytes] : n \in 0 .. FileMax}
    /\ layout \in {"framed", "single"}
    /\ sealStage = "sealing" /\ frames = 0 /\ stored = <<IV>> /\ intact = TRUE
    /\ reader = NoReader /\ opened = Failed

MoreChunks == frames * ChunkSize < Len(file)

encryptFileChunkedAesGcm ==
    /\ sealStage = "sealing" /\ layout = "framed" /\ MoreChunks
    /\ stored' = stored \o Frame(file, frames)
    /\ frames' = frames + 1
    /\ UNCHANGED <<file, layout, sealStage, intact, reader, opened>>

SealEnds ==
    /\ sealStage = "sealing" /\ layout = "framed" /\ ~ MoreChunks
    /\ sealStage' = "stored"
    /\ UNCHANGED <<file, layout, frames, stored, intact, reader, opened>>

encryptFileAesGcm ==
    /\ sealStage = "sealing" /\ layout = "single"
    /\ stored' = stored \o Encrypt(BaseIV, file)
    /\ sealStage' = "stored"
    /\ UNCHANGED <<file, layout, frames, intact, reader, opened>>

(***************************************************************************)
(* What storage hands back instead: a prefix, or frames lost, repeated or  *)
(* exchanged, the base IV with any frames of the file behind it.  Nothing  *)
(* comes behind a cut.                                                     *)
(***************************************************************************)
StorageCuts ==
    /\ sealStage = "stored"
    /\ \E n \in 1 .. Len(stored) - 1 : stored' = SubSeq(stored, 1, n)
    /\ frames' = FramesMax /\ intact' = FALSE
    /\ UNCHANGED <<file, layout, sealStage, reader, opened>>

StorageLoses ==
    /\ sealStage = "stored" /\ layout = "framed" /\ intact
    /\ stored' = <<IV>> /\ frames' = 0 /\ intact' = FALSE
    /\ UNCHANGED <<file, layout, sealStage, reader, opened>>

StorageReturns(index) ==
    /\ sealStage = "stored" /\ layout = "framed" /\ ~ intact
    /\ index * ChunkSize < Len(file) /\ frames < FramesMax
    /\ stored' = stored \o Frame(file, index)
    /\ frames' = frames + 1
    /\ UNCHANGED <<file, layout, sealStage, intact, reader, opened>>

(***************************************************************************)
(* Opening.  Ciphertext taken for a header reads as some index and length. *)
(***************************************************************************)
HeaderCells == 2

Declared(sealed, at, noise) == readU32le(sealed[at + 1], noise.length)

Index(sealed, at, noise) == readU32le(sealed[at], noise.index)

LengthOk(length) == length > 1 /\ length <= ChunkMax

isChunkedPayload(sealed, noise) ==
    /\ Len(sealed) >= 1 + HeaderCells
    /\ Index(sealed, 2, noise) = 0
    /\ LengthOk(Declared(sealed, 2, noise))
    /\ 1 + HeaderCells + Declared(sealed, 2, noise) <= Len(sealed)

(* Mutant: the index of a header is used, and not compared with the count.  *)
HeaderAccepted(sealed, at, expected, noise) ==
    /\ at + HeaderCells - 1 <= Len(sealed)
    /\ LengthOk(Declared(sealed, at, noise))
    /\ at + HeaderCells + Declared(sealed, at, noise) - 1 <= Len(sealed)

FrameAccepted(sealed, at, expected, noise) ==
    /\ at + HeaderCells - 1 <= Len(sealed)
    /\ LengthOk(Declared(sealed, at, noise))
    /\ Index(sealed, at, noise) = expected
    /\ at + HeaderCells + Declared(sealed, at, noise) - 1 <= Len(sealed)

(* decryptFileAny: framed, or else a single ciphertext behind its IV.       *)
OpenFramed(key, noise) ==
    /\ sealStage = "stored" /\ isChunkedPayload(stored, noise)
    /\ reader' = [key |-> key, at |-> 2, expected |-> 0, bytes |-> <<>>]
    /\ intact' = (intact /\ key = "aes" /\ layout = "framed")
    /\ sealStage' = "opening"
    /\ UNCHANGED <<file, layout, frames, stored, opened>>

OpenSingle(key, noise) ==
    /\ sealStage = "stored" /\ ~ isChunkedPayload(stored, noise)
    /\ opened' = Decrypt(BaseIV, key, Tail(stored))
    /\ intact' = (intact /\ key = "aes")
    /\ sealStage' = "done"
    /\ UNCHANGED <<file, layout, frames, stored, reader>>

(* decryptFileChunked, a frame at a time: where the body of the frame at    *)
(* the reader ends, and what it decrypts to.                                *)
BodyEnd(noise) == reader.at + HeaderCells + Declared(stored, reader.at, noise)

FramePlain(noise) ==
    Decrypt(Index(stored, reader.at, noise), reader.key,
            SubSeq(stored, reader.at + HeaderCells, BodyEnd(noise) - 1))

FrameOpens(noise) ==
    FrameAccepted(stored, reader.at, reader.expected, noise) /\ FramePlain(noise).ok

decryptFileChunked(noise) ==
    /\ sealStage = "opening" /\ reader.at <= Len(stored) /\ FrameOpens(noise)
    /\ reader' = [reader EXCEPT !.at = BodyEnd(noise), !.expected = @ + 1,
                                !.bytes = @ \o FramePlain(noise).bytes]
    /\ UNCHANGED <<file, layout, sealStage, frames, stored, intact, opened>>

FrameRefused(noise) ==
    /\ sealStage = "opening" /\ reader.at <= Len(stored) /\ ~ FrameOpens(noise)
    /\ opened' = Failed
    /\ sealStage' = "done"
    /\ UNCHANGED <<file, layout, frames, stored, intact, reader>>

FramesEnd ==
    /\ sealStage = "opening" /\ reader.at > Len(stored)
    /\ opened' = IF reader.expected = 0 THEN Failed ELSE Opened(reader.bytes)
    /\ sealStage' = "done"
    /\ UNCHANGED <<file, layout, frames, stored, intact, reader>>

(* Under the key of the seal or under another one.                          *)
Noises == [index : 0 .. 1, length : 0 .. ChunkMax + 1]

SealNext ==
    \/ encryptFileChunkedAesGcm \/ SealEnds \/ encryptFileAesGcm
    \/ StorageCuts \/ StorageLoses
    \/ \E index \in 0 .. FileMax : StorageReturns(index)
    \/ \E noise \in Noises :
          \/ \E key \in {"aes", "other"} : OpenFramed(key, noise) \/ OpenSingle(key, noise)
          \/ decryptFileChunked(noise) \/ FrameRefused(noise)
    \/ FramesEnd

SealSpec == SealInit /\ [][SealNext]_sealVars

(***************************************************************************)
(* Properties.                                                             *)
(***************************************************************************)
(* A sealed file opens to its bytes, whatever its length, and so does a row *)
(* from before the framing that does not read as a frame by chance.  (The   *)
(* empty file is the exception: framed, it is a base IV without a chunk,    *)
(* which does not open.)  Whatever else comes back from storage, what opens *)
(* is a prefix of the file in whole chunks: none is lost from the middle,   *)
(* repeated or moved.  (A file cut between two frames opens as a shorter    *)
(* one: the format holds no count of its chunks.)                           *)
OpensAsSealed ==
    /\ (sealStage = "done" /\ intact /\ (file # <<>> \/ layout = "single"))
          => opened = Opened(file)
    /\ opened.ok =>
          \E n \in 0 .. Len(file) :
             /\ opened.bytes = SubSeq(file, 1, n)
             /\ n = Len(file) \/ \E k \in 0 .. n : n = k * ChunkSize

=============================================================================
