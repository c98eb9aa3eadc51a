SPECIFICATION Spec
CONSTANTS
  Tensor <- MCTensor
  Program <- TestProgram
  MaxRuns = 2
INVARIANT
  KernelMeansGraph
CHECK_DEADLOCK FALSE
