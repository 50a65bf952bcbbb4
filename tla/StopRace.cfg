SPECIFICATION Spec
CONSTANTS
  Operator = {"shell"}
  Command = {"stop"}
  MaxVersion = 1
  Respawns = 1
  Budgets <- OneCommand
INVARIANTS StoppedMeansClear
CHECK_DEADLOCK FALSE
