\* Three uploads, two at a time, and one later load; the revision comes under the name of a first upload. All done or failed is the end.
SPECIFICATION Spec
CONSTANTS
  v1 = v1  v2 = v2  v3 = v3  first = first  revised = revised
  Versions = {v1, v2, v3}
  Contents = {first, revised}
  Torn = torn
  Names = {1, 2}
  Content <- MCContent
  Name <- MCName
  Findings <- MCFindings
  Noise <- MCNoise
  Threads = 2
  MaxJobs = 1
CHECK_DEADLOCK FALSE
INVARIANTS
  TypeOK
  JudgedAsUploaded
  DiffIsOfTheUploads
  ScoredIsResolved
