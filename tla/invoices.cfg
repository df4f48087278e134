CONSTANTS
  Intents = {i1, i2}
  Sessions = {s1, s2}
  Lines = {l1}
  Prices = {1}
  Finalizers = {f1}
  MaxNumber = 2
SPECIFICATION FairSpec
CHECK_DEADLOCK FALSE
INVARIANTS PaidOnce PaidIntentClosesInvoice NumbersHaveNoGap
PROPERTIES IssuedAmountIsFrozen OpenSessionEnds
