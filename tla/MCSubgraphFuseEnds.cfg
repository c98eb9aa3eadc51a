SPECIFICATION Spec
CONSTANTS
  Tensor <- mc_Tensor
  OpGraph <- mc_LiveGraph
  BaseApi = "cpu"
PROPERTIES
  SetupReturns
CHECK_DEADLOCK FALSE
