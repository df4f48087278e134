CONSTANTS
  w1 = w1
  w2 = w2
  Endpoints = {e1}
  Runners = {w1, w2}
  Drain = drain
  Rungs = 1
  FanOutTries = 2
  MaxTroubles = 3
SPECIFICATION FairSpec
INVARIANTS FannedOutWhole OwedHasJob DigestWasSigned OnTheLadder
PROPERTIES EveryDeliveryEnds
