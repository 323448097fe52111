\* Six transactions of one engine, as spammer, as floor filler or in a burst,
\* with blocks, evictions, chain jobs and one fault.
SPECIFICATION EngineSpec
CONSTANTS
  Share = 2
  Fanout = 2
  Replaces = 1
  FloorTarget = 2
  BatchSize = 1
  ChunkOutputs = 2
  BurstTxs = 2
  BranchMin = 2
  Pull = 7
  MaxTxs = 6
  MaxMishaps = 1
INVARIANT EngineInvariant
PROPERTIES
  BranchesKept
  FillsStandAlone
