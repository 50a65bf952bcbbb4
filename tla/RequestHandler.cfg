\* Three requests, two work slots, one reservation.
SPECIFICATION FairSpec
CONSTANTS
  Request = {r1, r2, r3}
  MaxConnections = 2
  MaxBody = 1
  MaxBuffered = 9
INVARIANTS
  TypeOK
  WorkSlotsMatch
  BuffersReserved
  CountersBalance
  ModifiedMeansDelivered
  HeaderDescribesBody
PROPERTY EveryRequestLeaves
