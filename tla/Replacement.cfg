\* Three transactions of the orphaned block, two of them orphaned, one added,
\* up to one fault while the replacement blocks are mined.
SPECIFICATION BlocksSpec
CONSTANTS
  Originals = 3
  Orphaned = 2
  Adds = 1
  Pcts <- MCPcts
  ReorgDepth = 1
  Weights <- MCWeights
  Budget = 4
  MaxFailures = 1
CHECK_DEADLOCK FALSE
INVARIANTS
  ReplacementInvariant
  EveryBlockMakesProgress
