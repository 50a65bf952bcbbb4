\* Two hosts; three runs, three faults among them.
SPECIFICATION Spec
CONSTANTS
  Host = {h1, h2}
  MaxRuns = 3
  MaxFaults = 3
INVARIANTS
  TypeOK
  NothingTorn
  SuccessMeansUsable
  RunRepairs
PROPERTY CAKept
\* after the last run nothing happens
CHECK_DEADLOCK FALSE
