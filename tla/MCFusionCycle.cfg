SPECIFICATION Spec
CONSTANTS
  Tensor <- mc_Tensor
  OpGraph <- mc_FiveOpGraph
  BaseApi = "cpu"
PROPERTIES
  RestrictionSeen
CHECK_DEADLOCK FALSE
