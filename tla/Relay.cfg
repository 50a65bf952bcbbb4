SPECIFICATION Spec
CONSTANTS
  MaxSend = 4
  MaxHello = 3
INVARIANTS
  TypeOK
  ByteForByte
  EndedDirectionComplete
\* a closed connection does nothing more
CHECK_DEADLOCK FALSE
