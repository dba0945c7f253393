\* Two workers, an arbitration and a resolver on the same branch.
SPECIFICATION Spec
CONSTANTS
  west = west  east = east
  duct = duct  pipe = pipe  tray = tray
  resolveWest = resolveWest  resolveEast = resolveEast  arbitration = arbitration
  Zones = {west, east}
  Elements = {duct, pipe, tray}
  Jobs = {resolveWest, arbitration}
  Branch <- MCBranch
  Reads <- MCReads
  Moves <- MCMoves
  Workers = 2
  MaxTries = 1
CHECK_DEADLOCK FALSE
INVARIANT RecordedIsCommitted
