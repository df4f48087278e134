CONSTANTS
  Intents = {pi}
  Requests = {r1}
  Runners = {w1, w2}
  None = None
  Flows = {"two_step", "redirect"}
  NotFoundStreak = 2
  MaxCrashes = 1
  Stalls = FALSE
  Misconfigured = FALSE
SPECIFICATION Spec
SYMMETRY Symmetry
INVARIANTS SettledTogether MoneyIsAccountedFor
INVARIANTS ParkedForCause NothingUnrecorded HandedOverIsNotDead
PROPERTIES KeepsThePromise
CHECK_DEADLOCK FALSE
