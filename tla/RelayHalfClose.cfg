SPECIFICATION Spec
CONSTANTS
  MaxSend = 2
  MaxHello = 2
\* a closed connection does nothing more
CHECK_DEADLOCK FALSE
INVARIANT PassthroughLosesNothing
