--------------------------- MODULE MCBinaryModel ---------------------------
(* Sessions of one or two inputs and outputs, with names of one or two     *)
(* letters, one or two quantisation records and zero points whose first    *)
(* byte, or whose first bytes, are zero or not.                            *)
EXTENDS BinaryModel

Records == {<<0, 0>>, <<1, 0>>, <<1, 1>>}
SmallTensors ==
  {[name |-> n, dim |-> 1, qinfo |-> q] : n \in {<<7>>, <<7, 8>>}, q \in {<<r>> : r \in Records}} \cup
  {[name |-> <<9>>, dim |-> 2, qinfo |-> <<p, r>>] : p \in Records, r \in {<<1, 1>>, <<0, 1>>}}
Plain == [name |-> <<7>>, dim |-> 3, qinfo |-> <<<<1, 1>>>>]

mc_Tensor == SmallTensors \cup {Plain}

mc_Session ==
  [in : {<<t>> : t \in SmallTensors}, out : {<<Plain>>, <<Plain, Plain>>},
   api : {"ref", "npu"}, mode : {"cpu_graph", "npu_graph"}]
  \cup
  [in : {<<Plain, Plain>>}, out : {<<t, u>> : t \in SmallTensors, u \in SmallTensors},
   api : {"npu"}, mode : {"npu_graph"}]

mc_Base == {0, 5, 63}
=============================================================================
