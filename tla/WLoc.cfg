SPECIFICATION Spec
CONSTANTS
  Half = 8
  Groups = 4
  NumWidth = 64
  NumLimit = 32
  MaxMessage = 260
  MaxFields = 8
  MaxDepth = 8
  Junk = {0, 1, 2, 3, 4, 8, 10, 15}
INVARIANTS RewrittenExactly AnswerWellFormed CutIsRefused
CHECK_DEADLOCK FALSE
