\* One run on a new installation.
SPECIFICATION Spec
CONSTANTS
  Host = {h1}
  MaxRuns = 1
  MaxFaults = 0
INVARIANT ProfileCarriesCA
\* after the last run nothing happens
CHECK_DEADLOCK FALSE
