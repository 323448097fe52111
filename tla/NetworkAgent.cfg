\* Two jobs compete for one agent and repeat their requests, the history holds
\* three of them, commands fail, and the agent and the control plane end.
SPECIFICATION FairAgentSpec
CONSTANTS
  LeaseIds = {"l1", "l2"}
  Owners = {"jobA", "jobB"}
  Ttls = {1, 2}
  RequestIds = {"a1", "a2", "a3", "a4", "n1", "r1", "r2"}
  MaxHistory = 3
  Requests <- TwoJobs
INVARIANTS
  AgentInvariant
  LeaseInForce
PROPERTIES
  AtMostOnce
  AbandonedImpairmentHeals
