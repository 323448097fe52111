\* Every script of MCScenario with up to two faults.
SPECIFICATION FairSpec
CONSTANTS
  Scripts <- MCScripts
  MaxFaults = 2
CHECK_DEADLOCK FALSE
INVARIANT ScenarioInvariant
PROPERTIES
  SettingsRestored
  CheckpointGate
  EveryScenarioEnds
