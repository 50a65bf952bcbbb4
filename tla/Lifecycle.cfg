SPECIFICATION FairSpec
CONSTANTS
  Operator = {"shell"}
  Command = {"start", "stop", "bypass_on", "bypass_off", "reload"}
  MaxVersion = 2
  Respawns = 1
  Budgets <- Together
INVARIANTS EnabledIsWatched
PROPERTIES FailOpen RequestHonoured Converges BypassWins
CHECK_DEADLOCK FALSE
