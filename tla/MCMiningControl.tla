-------------------------- MODULE MCMiningControl --------------------------
(***************************************************************************)
(* Values of the constants of MiningControl for TLC.                       *)
(***************************************************************************)
EXTENDS MiningControl

\* An apply, its rollback, a later apply, and a rollback to the current
\* generation number with another policy.
MCPolicyRequests ==
  { [generation |-> 1, policy |-> "new", rollback |-> FALSE],
    [generation |-> 0, policy |-> "old", rollback |-> TRUE],
    [generation |-> 2, policy |-> "old", rollback |-> FALSE],
    [generation |-> 1, policy |-> "old", rollback |-> TRUE] }

=============================================================================
