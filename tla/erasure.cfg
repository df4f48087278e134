CONSTANTS
  Updates = {u1}
  Payments = {p1}
  Deletes = {d1}
  Sweeps = {s1}
  Creates = {c1}
  Rivals = {r1}
SPECIFICATION FairSpec
CHECK_DEADLOCK FALSE
INVARIANTS NothingLeft IdleIsSpared
PROPERTIES OthersAreSpared ErasedIsNotClaimed ErasureEnds
