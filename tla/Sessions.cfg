\* Three sessions of any kind over one zone and two clashes, one of them of two zones.
SPECIFICATION Spec
CONSTANTS
  s1 = s1  s2 = s2  s3 = s3  duct = duct  pipe = pipe
  Sessions = {s1, s2, s3}
  Clashes = {duct, pipe}
  Shared = {pipe}
  Zone = zone
SYMMETRY Symmetry
CHECK_DEADLOCK FALSE
INVARIANTS
  TypeOK
  
  MergedOnAcceptance
