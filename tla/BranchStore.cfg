\* Two workers, an arbitration and a resolver on one branch; every job is delivered up to twice. All jobs done or dead is the end.
SPECIFICATION Spec
CONSTANTS
  west = west  east = east
  duct = duct  pipe = pipe  tray = tray
  resolveWest = resolveWest  resolveEast = resolveEast  arbitration = arbitration
  Zones = {west, east}
  Elements = {duct, pipe, tray}
  Jobs = {resolveWest, resolveEast, arbitration}
  Branch <- MCBranch
  Reads <- MCReads
  Moves <- MCMoves
  Workers = 2
  MaxTries = 2
CHECK_DEADLOCK FALSE
INVARIANTS
  TypeOK
  LostOnlyByOverlap
PROPERTIES
  KeepsStorePromise
  StaleOnlyBeside
