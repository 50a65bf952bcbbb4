\* Three requests, room for one of them, one byte to spare: two wait at once.
SPECIFICATION FairSpec
CONSTANTS
  Client = {c1, c2, c3}
  Nobody = Nobody
  Capacity = 3
  Reservation = 2
INVARIANTS
  TypeOK
  BytesConserved
  NobodySleepsOnFreeBytes
  SleeperHasTimer
PROPERTIES
  ImplementsQuota
  AcquireReturns
