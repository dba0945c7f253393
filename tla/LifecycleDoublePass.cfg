\* The same instance, asked for the comment above arbitrate. One boundary clash, one zone clash, two of three zones in the first batch.
SPECIFICATION Spec
CONSTANTS
  west = west  mid = mid  east = east
  border = border  outer = outer
  Zones = {west, mid, east}
  Clashes = {border, outer}
  Checks = {k1}
  Home <- MCHome
  Owning <- MCOwning
  Near <- MCNear
  Priority <- MCPriority
  Batch = 2
INVARIANT OnlyADoublePassIsAccepted
