--------------------------- MODULE MCSubgraphFuse ---------------------------
(***************************************************************************)
(* Graphs of four ops over one graph input, in every relevant wiring, for  *)
(* every assignment of the ops to the base device and to others: a family  *)
(* with one other device and two sets of graph outputs, and a smaller one  *)
(* with two other devices and an op with two outputs.  And graphs of five  *)
(* ops: two roots, two ops that read from them, and one that reads both.   *)
(* And graphs of six ops, in which a fusion is refused before another op   *)
(* reads from both of the layers.                                          *)
(***************************************************************************)
EXTENDS SubgraphFuse

Wired(api, in, out, output) ==
  [ops |-> [k \in 1 .. 4 |-> [in |-> in[k], out |-> out[k], api |-> api[k]]],
   input |-> <<0>>, output |-> output]

Single == <<<<1>>, <<2>>, <<3>>, <<4>>>>
Double == <<<<1, 5>>, <<2>>, <<3>>, <<4>>>>

OneDeviceGraphs ==
  { Wired(api, <<<<0>>, in2, in3, in4>>, Single, output) :
      api \in [1 .. 4 -> {"cpu", "npu"}],
      in2 \in {<<0>>, <<1>>, <<0, 1>>, <<1, 1>>},
      in3 \in {<<0>>, <<1>>, <<2>>, <<0, 2>>, <<1, 2>>, <<2, 1>>},
      in4 \in {<<2>>, <<3>>, <<0, 3>>, <<1, 2>>, <<2, 1>>, <<1, 3>>, <<3, 1>>, <<2, 3>>, <<3, 2>>},
      output \in {<<4>>, <<3, 4>>} }

TwoDeviceGraphs ==
  { Wired(api, <<<<0>>, in2, in3, in4>>, Double, <<4>>) :
      api \in {f \in [1 .. 4 -> {"cpu", "npu", "gpu"}] : \E k, l \in 1 .. 4 : f[k] = "npu" /\ f[l] = "gpu"},
      in2 \in {<<0>>, <<1>>}, in3 \in {<<0>>, <<5>>, <<1, 2>>},
      in4 \in {<<1, 2>>, <<2, 3>>, <<3, 5>>, <<3, 2, 1>>} }

mc_FiveOpGraph ==
  { [ops |-> << [in |-> <<0>>, out |-> <<1>>, api |-> api[1]],
                [in |-> <<0>>, out |-> <<2>>, api |-> api[2]],
                [in |-> in3, out |-> <<3>>, api |-> api[3]],
                [in |-> in4, out |-> <<4>>, api |-> api[4]],
                [in |-> in5, out |-> <<5>>, api |-> api[5]] >>,
     input |-> <<0>>, output |-> <<5>>] :
       api \in [1 .. 5 -> {"cpu", "npu"}],
       in3 \in {<<1>>, <<2>>}, in4 \in {<<1, 2>>, <<2, 1>>}, in5 \in {<<3, 4>>, <<4, 3>>} }

mc_SixOpGraph ==
  { [ops |-> << [in |-> <<0>>, out |-> <<1>>, api |-> api[1]],
                [in |-> <<1>>, out |-> <<2>>, api |-> api[2]],
                [in |-> <<1, 2>>, out |-> <<3>>, api |-> api[3]],
                [in |-> <<2>>, out |-> <<4>>, api |-> api[4]],
                [in |-> in5, out |-> <<5>>, api |-> api[5]],
                [in |-> in6, out |-> <<6>>, api |-> api[6]] >>,
     input |-> <<0>>, output |-> <<6>>] :
       api \in {f \in [1 .. 6 -> {"cpu", "npu"}] : f[1] = "npu" /\ f[6] = "npu"},
       in5 \in {<<1, 3, 4>>, <<4, 3, 1>>}, in6 \in {<<4, 5>>, <<5, 4>>} }

mc_Tensor == 0 .. 6
mc_OpGraph == OneDeviceGraphs \cup TwoDeviceGraphs \cup mc_FiveOpGraph \cup mc_SixOpGraph

(* For the run that follows whole behaviours: two roots and two outputs,   *)
(* and the five ops that can be tied in a circle.                          *)
mc_LiveGraph ==
  {x \in mc_FiveOpGraph : /\ x.ops[3].in = <<1>> /\ x.ops[4].in = <<2, 1>>
                          /\ x.ops[5].in = <<3, 4>> /\ x.ops[1].api = "npu"} \cup
  {x \in OneDeviceGraphs : /\ x.output = <<3, 4>> /\ x.ops[2].in = <<0>> /\ x.ops[1].api = "npu"
                           /\ x.ops[3].in \in {<<1>>, <<1, 2>>}
                           /\ x.ops[4].in \in {<<1, 2>>, <<2, 3>>, <<3, 1>>}}
=============================================================================
