CONSTANTS
  Kids = {k1, k2}
  Processes = {p1, p2}
  Requests = {r1, r2}
  None = None
  TTL = 1
  Boot = 1
  Drain = 1
  Overlap = 3
SPECIFICATION Spec
SYMMETRY Symmetry
CONSTRAINT FewAreBusy
INVARIANTS KeyOutlivesItsTokens ReplicasBootTogether
PROPERTIES RetiredForGood GenuineIsKnown
CHECK_DEADLOCK FALSE
