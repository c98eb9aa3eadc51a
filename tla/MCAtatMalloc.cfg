SPECIFICATION Spec
CONSTANTS
  Header = 1
  MinBlk = 3
  Gulp = 3
  Unit = 2
  Word = 12
  Limit = 14
  Sizes <- mc_Sizes
  Foreign <- mc_Foreign
INVARIANTS
  TypeOK
  HeapTiled
  InHeap
  Coalesced
CHECK_DEADLOCK FALSE
