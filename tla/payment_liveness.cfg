CONSTANTS
  Intents = {pi}
  Requests = {r1}
  Runners = {w1}
  None = None
  Flows = {"push", "redirect"}
  NotFoundStreak = 1
  MaxCrashes = 1
  Stalls = FALSE
  Misconfigured = TRUE
SPECIFICATION FairSpec
PROPERTIES AnswersAreRecorded NoChargeIsForgotten
CHECK_DEADLOCK FALSE
