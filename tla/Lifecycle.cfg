\* One boundary clash, one zone clash, two of three zones in the first batch.
SPECIFICATION Spec
CONSTANTS
  west = west  mid = mid  east = east
  border = border  outer = outer
  Zones = {west, mid, east}
  Clashes = {border, outer}
  Checks = {k1, k2}
  Home <- MCHome
  Owning <- MCOwning
  Near <- MCNear
  Priority <- MCPriority
  Batch = 2
SYMMETRY CheckSymmetry
INVARIANTS
  TypeOK
  AcceptedAsJudged
  DoublePass
  MergedAsAcknowledged
  NoVerdictSurvivesReopening
PROPERTIES
  KeepsVersionPromise
  RunEndsSettled
