\* One job of any kind and up to three faults: lost calls, answers and saves,
\* panics, worker and control-plane restarts, and the recovery after them.
SPECIFICATION FairSpec
CONSTANTS
  j1 = j1
  j2 = j2
  j3 = j3
  n1 = n1
  None = None
  Jobs = {j1}
  Nodes = {n1}
  Requests <- AllRequests
  MaxHistory = 2
  RequestLimit = 2
  MaxFaults = 3
CHECK_DEADLOCK FALSE
INVARIANT RecoveryInvariant
PROPERTIES
  DurableOutcomeIsFinal
  EveryJobLeavesItsLane
