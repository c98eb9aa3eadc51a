---- MODULE MCSubSession ----
(* Plans with one and two subgraphs: an op that reads a tensor of the       *)
(* outside twice, a tensor two subgraphs share, a subgraph feeding another, *)
(* a subgraph of two ops, an op no session knows; on every device, with and *)
(* without conversion.                                                      *)
EXTENDS SubSession

mc_Tensor == 0 .. 4

Op(in, out) == [in |-> in, out |-> out]

(* ops, and the layer each op is in, for each graph: 0 is the CPU. *)
Graphs ==
  { [ops |-> <<Op(<<0>>, <<1>>), Op(<<1, 1>>, <<2>>), Op(<<2>>, <<3>>)>>,
     output |-> <<3>>, plan |-> <<{1}, {2}, {3}>>, npu |-> {2}],
    [ops |-> <<Op(<<0>>, <<1>>), Op(<<1, 1>>, <<2>>), Op(<<2, 1>>, <<3>>)>>,
     output |-> <<3>>, plan |-> <<{1}, {2}, {3}>>, npu |-> {1, 2}],
    [ops |-> <<Op(<<0>>, <<1>>), Op(<<1, 0>>, <<2>>), Op(<<1>>, <<3>>), Op(<<2, 3>>, <<4>>)>>,
     output |-> <<4>>, plan |-> <<{1}, {2}, {3}, {4}>>, npu |-> {2, 3}],
    [ops |-> <<Op(<<0>>, <<1>>), Op(<<1>>, <<2>>), Op(<<2, 1>>, <<3>>), Op(<<3>>, <<4>>)>>,
     output |-> <<4>>, plan |-> <<{1}, {2, 3}, {4}>>, npu |-> {2}],
    [ops |-> <<Op(<<0>>, <<1>>), Op(<<1>>, <<2>>)>>,
     output |-> <<2>>, plan |-> <<{1}, {2}>>, npu |-> {1, 2}] }

Asc(S) == SetToSortSeq(S, LAMBDA a, b : a < b)
OpsOf(x, l) == [k \in DOMAIN Asc(x.plan[l]) |-> x.ops[Asc(x.plan[l])[k]]]

Escapes(x, l) ==
  Asc({t \in Inside(OpsOf(x, l)) :
         t \in Elems(x.output) \/ \E k \in DOMAIN x.ops : k \notin x.plan[l] /\ t \in Elems(x.ops[k].in)})

ToGraph(x) ==
  [ops |-> x.ops, input |-> <<0>>, output |-> x.output,
   plan |-> [l \in DOMAIN x.plan |->
      IF l \in x.npu
        THEN [op |-> SubGraph, in |-> SubInputs(OpsOf(x, l)), out |-> Escapes(x, l)]
        ELSE LET k == CHOOSE k \in x.plan[l] : TRUE IN
             [op |-> k, in |-> x.ops[k].in, out |-> x.ops[k].out]]]

Devices == { [dev |-> "light", quant |-> "int8"], [dev |-> "light", quant |-> "uint8"],
             [dev |-> "asp", quant |-> "int8"], [dev |-> "other", quant |-> "uint8"] }

ToSub(x, d, unknown) ==
  [l \in x.npu |->
     [dev |-> d[l].dev, quant |-> d[l].quant,
      ops |-> [k \in DOMAIN OpsOf(x, l) |->
                 [in |-> OpsOf(x, l)[k].in, out |-> OpsOf(x, l)[k].out,
                  known |-> <<l, k>> # unknown]]]]

mc_Case ==
  UNION { {[g |-> ToGraph(x), sub |-> ToSub(x, d, u)] :
             d \in [x.npu -> Devices], u \in {<<0, 0>>, <<2, 1>>}} : x \in Graphs }

mc_Graph == {c.g : c \in mc_Case}
====
