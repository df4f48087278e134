CONSTANTS
  p1 = p1
  p2 = p2
  s1 = s1
  s2 = s2
  s3 = s3
  Jobs = {j1, j2}
  Processes = {p1, p2}
  Slots = {s1, s2}
  Home <- Pair
  None = None
  Stalls = TRUE
SPECIFICATION FairSpec
INVARIANTS WorkersHoldTheirLease FenceIsTheHolder
PROPERTIES DueIsClaimed KeepsTheLease
