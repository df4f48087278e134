CONSTANTS
  Intents = {i1}
  Sessions = {s1}
  Lines = {l1, l2}
  Prices = {1}
  Finalizers = {f1}
  MaxNumber = 1
SPECIFICATION Spec
CHECK_DEADLOCK FALSE
INVARIANT IssuedTotalIsItsLines
