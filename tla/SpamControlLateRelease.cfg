\* A job that reports its chain change after its lease has expired.
SPECIFICATION Spec
CONSTANTS
  LeaseIds = {l1}
  Owners = {"jobA"}
  Ttls = {1}
  SafePointTimeout = 1
  Loads = {1, 2}
  InitialPolicy <- MCInitialPolicy
  PolicyRequests <- NoPolicyRequests
  Senders = {"node2"}
  Rounds = 2
  MaxRewind = 1
  LateRelease = TRUE
PROPERTY ReconciledBeforeSending
