\* The same building; a move filed under the other zone is not looked up.
SPECIFICATION Spec
CONSTANTS
  duct = duct  pipe = pipe  tray = tray  stack = stack  ghost = ghost
  Elements = {duct, pipe, tray, stack, ghost}
  Spots <- MCSpots
  Boxless = {ghost}
  Reason <- MCReason
  System <- MCSystem
  CellSize = 2
  MaxElements = 2
  Storey = 4
  Buffer = 2
  Widest = 2
  MinGap <- MCMinGap
  Structural = {}
  Gravity = {stack}
  Joined <- MCJoined
  Vectors <- MCVectors
  MaxCommits = 2
CHECK_DEADLOCK FALSE
INVARIANT NeighboursJudgedAsBuilt
