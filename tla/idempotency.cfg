CONSTANTS
  r1 = r1
  r2 = r2
  r3 = r3
  a = a
  b = b
  Requests = {r1, r2, r3}
  Bodies = {a, b}
  Body <- OneOther
  None = None
  Stalls = TRUE
SPECIFICATION FairSpec
CHECK_DEADLOCK FALSE
INVARIANTS ReplayIsTheSameRequest OneAcknowledged OneRuns
PROPERTIES ForeignClaimsUntouched ClaimsEnd
