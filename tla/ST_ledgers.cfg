SPECIFICATION StorageSpec
CONSTANTS
  Parts = {"vault", "arkiv", "pins", "record", "seal"}
  bucket = bucket
  record = record
  Asks = {1, 2, 3}
  Slots = {bucket, record}
  Requests <- MCRequests
  MaxLosses = 1
  Calls = {1, 2, 3}
  Jobs <- MCJobs
  MaxMishaps = 2
  Pins = {1, 2, 3}
  Contents = {x, y}
  MaxLapses = 1
  I32Max = 20
  SafeMax = 30
  U256Max = 40
  Bytes = {0, 1}
  FileMax = 5
  ChunkSize = 2
  ChunkMax = 4
  FramesMax = 4
SYMMETRY ContentSymmetry
INVARIANTS
  NotMadeAgain
  OneEntityPerRecord
  PinsAreKept
  RecordsAreFound
  OpensAsSealed
PROPERTIES
  StoredIsKept
CHECK_DEADLOCK FALSE
