SPECIFICATION SSSpec
CONSTANTS
  Tensor <- mc_Tensor
  Graph <- mc_Graph
  Case <- mc_Case
  MaxRuns = 3
INVARIANTS
  SSTypeOK
  SessionsApart
  NeverStale
  ConversionsAccumulate
PROPERTY
  ImplementsExecutor
CHECK_DEADLOCK FALSE
