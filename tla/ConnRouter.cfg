\* Three connections on two listeners, two slots.
SPECIFICATION FairSpec
CONSTANTS
  Conn = {k1, k2, k3}
  Listener = {v4, v6}
  MaxConn = 2
INVARIANTS
  TypeOK
  SlotsMatchHolders
  ReleaseEntriesLive
PROPERTIES
  ImplementsQuota
  StopDrains
\* a server that was stopped and has drained does nothing more
CHECK_DEADLOCK FALSE
