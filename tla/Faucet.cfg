\* A transfer from either wallet with up to two faults: lost calls, answers and
\* saves, evictions, reorganisations and restarts.
SPECIFICATION FairSpec
CONSTANTS
  Funds <- MCFunds
  Amount = 3
  MinChange = 1
  Reserve = 2
  MaxFaults = 2
CHECK_DEADLOCK FALSE
INVARIANT TransferInvariant
PROPERTIES
  PendingResolves
  OrphanNoticed
