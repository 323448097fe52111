\* Two jobs with a lease each, manual pauses, policy changes, rollbacks and
\* timed-out requests, processes that end, and what must happen under fairness.
SPECIFICATION FairSpec
CONSTANTS
  LeaseIds = {l1, l2}
  Owners = {"jobA", "jobB"}
  Ttls = {1, 2}
  SafePointTimeout = 1
  Stages = 1
  Policies = {"old", "new"}
  InitialPolicy = "old"
  PolicyRequests <- MCPolicyRequests
INVARIANTS
  TypeOK
  PauseLeaseExcludesMining
  LeaseTableMatchesGrants
  ManualPauseOutlivesLeases
  GenerateUnderItsPolicy
PROPERTIES
  ImplementsPauseGate
  NoSilentRegression
  MiningLive
