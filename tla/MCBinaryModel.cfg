SPECIFICATION Spec
CONSTANTS
  Tensor <- mc_Tensor
  Session <- mc_Session
  Word = 64
  Base <- mc_Base
  MaxImports = 2
INVARIANTS
  ImageFilled
  RoundTrip
  ImportUsesUp
CHECK_DEADLOCK FALSE
