SPECIFICATION Spec
CONSTANTS
  Tensor <- mc_Tensor
  OpGraph <- mc_OpGraph
  BaseApi = "cpu"
INVARIANTS
  TypeOK
  OneLayerEach
  OneDevice
  RestrictionsKnown
  PlanReady
PROPERTIES
  Acyclic
  EmptiedForGood
CHECK_DEADLOCK FALSE
