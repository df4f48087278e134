CONSTANTS
  Refunds = {r1, r2}
  Captured = 3
  Partials = TRUE
SPECIFICATION FairSpec
CHECK_DEADLOCK FALSE
INVARIANTS BooksAgree NeverMoreThanCaptured PromiseKept
PROPERTIES NeverAskedIsReleased
