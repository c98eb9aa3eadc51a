SPECIFICATION Spec
CONSTANTS
  Tensor <- mc_Tensor
  Graph <- mc_Graph
  MaxRuns = 2
INVARIANTS
  TypeOK
  RefCountExact
  NoUseAfterFree
  ResultsDelivered
  ExactRelease
PROPERTIES
  FreesOnlyOwn
  ImplementsDataflow
