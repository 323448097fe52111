----------------------------- MODULE MCScenario -----------------------------
(* Scripts that bring the steps sharing leases together.                   *)
EXTENDS Scenario

Run(steps, restore) == [steps |-> steps, restore |-> restore]

MCScripts ==
  {Run(<<"pause_mining", "reorg", "resume_mining", "mine">>, FALSE),
   Run(<<"pause_mining", "faucet", "partition">>, FALSE),
   Run(<<"checkpoint", "set_config", "checkpoint", "spam_burst">>, TRUE),
   Run(<<"pause_mining", "set_config", "spam_burst">>, TRUE),
   Run(<<"milestone", "degrade", "reorg", "assert">>, TRUE),
   Run(<<"partition", "wait", "set_config">>, TRUE)}
=============================================================================
