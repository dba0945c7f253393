\* Four clashes, four candidates, an attempt cap of three, two monitors. A finished run is the end.
SPECIFICATION FairSpec
CONSTANTS
  own = own  border = border  walled = walled  bare = bare
  Clashes = {own, border, walled, bare}
  Place <- MCPlace
  Immovable = {walled}
  Unsourced = {bare}
  Shared = {border}
  Moves = {1, 2, 3, 4}
  Heading <- MCHeading
  Monitors = {"boundary", "geometry"}
  MaxCollisions = 1
  MaxAttempts = 3
CHECK_DEADLOCK FALSE
INVARIANTS
  TypeOK
  NotToldTwice
  HopelessLast
  EveryVerdictCounted
PROPERTIES
  EscalationIsEarned
  KeepsPromise
