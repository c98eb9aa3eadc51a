SPECIFICATION Spec
CONSTANTS
  Tensor <- MCTensor
  Program <- MCProgram
  MaxRuns = 2
INVARIANTS
  TypeOK
  ResultsExact
  BreaksForTwoReasons
PROPERTY
  ApplicationBuffersKept
CHECK_DEADLOCK FALSE
