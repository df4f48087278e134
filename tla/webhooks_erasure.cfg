CONSTANTS
  w1 = w1
  w2 = w2
  Endpoints = {e1}
  Runners = {w1}
  Drain = drain
  Rungs = 2
  FanOutTries = 2
  MaxTroubles = 0
SPECIFICATION Spec
INVARIANTS ErasureNeverDeadLetters
