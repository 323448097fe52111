\* A lease over two senders, manual pauses, chain changes, policy changes that
\* fail, time out and are rolled back, and what must happen under fairness.
SPECIFICATION FairSpec
CONSTANTS
  LeaseIds = {l1}
  Owners = {"jobA", "jobB"}
  Ttls = {2}
  SafePointTimeout = 1
  Loads = {1, 2}
  InitialPolicy <- MCInitialPolicy
  PolicyRequests <- MCPolicyRequests
  Senders = {"node2", "node3"}
  Rounds = 2
  MaxRewind = 1
  LateRelease = FALSE
INVARIANTS
  WorkerInvariant
  LeaseExcludesSpam
PROPERTIES
  ReconciledBeforeSending
  ImplementsPauseGate
  NoSilentRegression
  SpamLive
