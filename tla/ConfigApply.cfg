\* Applies over two generations and manual states, every failure of a call, crashes
\* of every process, and what the reconciliation makes of them.
SPECIFICATION FairSpec
CONSTANTS
  Policies = {"a", "b"}
  BootPolicy = "a"
  Configurations <- MixedConfigurations
  Controlled = {"mining"}
  MaxGeneration = 2
INVARIANT ConfigInvariant
PROPERTY DesiredStateReached
