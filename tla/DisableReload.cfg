SPECIFICATION FairSpec
CONSTANTS
  Operator = {"shell"}
  Command = {"reload"}
  MaxVersion = 1
  Respawns = 1
  Budgets <- OneCommand
PROPERTIES DisableClears
CHECK_DEADLOCK FALSE
