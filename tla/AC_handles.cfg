CONSTANTS
  magnet = magnet
  page = page
  dottorrent = dottorrent
  file = file
  movie = movie
  qbittorrent = qbittorrent
  transmission = transmission
  None = None
  Contents = {movie}
  Backends = {qbittorrent, transmission}
  Order <- BothBackends
  Sources = {magnet, page, dottorrent, file}
  LeadsTo <- FourSources
  Callers = {c1, c2}
  MaxPolls = 1
  Move = TRUE
SPECIFICATION Spec
SYMMETRY CallerSymmetry
INVARIANTS
  QueuedByOne
  FollowedUp
  LoneSubmitsShare
PROPERTIES
  RecordKept
  LoneTerminalStays
CHECK_DEADLOCK FALSE
