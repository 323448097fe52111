\* A rewind or a reorg of depth two on three nodes, up to three faults and one
\* block of a foreign miner.
SPECIFICATION FairSpec
CONSTANTS
  Depth = 2
  MaxForeign = 1
  MaxFaults = 3
  MaxExtra = 2
CHECK_DEADLOCK FALSE
INVARIANT ChainInvariant
PROPERTIES
  RewindIsAllOrNothing
  EveryChainJobEnds
