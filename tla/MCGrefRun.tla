----------------------------- MODULE MCGrefRun -----------------------------
(***************************************************************************)
(* All graphs of three single-output ops over one graph input, with every  *)
(* split of the live ops into CPU layers and one-op subgraphs and every    *)
(* order the plan may have, and one graph with a two-output op whose       *)
(* second output nobody reads, a fused subgraph and a tensor that is both  *)
(* an output and an input.                                                 *)
(***************************************************************************)
EXTENDS GrefRun

In2 == {<<0>>, <<1>>, <<1, 1>>, <<0, 1>>}
In3 == {<<1>>, <<2>>, <<1, 2>>, <<2, 1>>, <<2, 2>>, <<0, 2>>}
Outputs == {<<3>>, <<2, 3>>, <<3, 1>>, <<2>>}

Chain(in2, in3) ==
  << [in |-> <<0>>, out |-> <<1>>], [in |-> in2, out |-> <<2>>],
     [in |-> in3, out |-> <<3>>] >>

(* The ops post-order DFS from the outputs reaches. *)
Live(ops, output) ==
  LET needs[n \in 0 .. 3] ==
        IF n = 0 THEN Elems(output)
        ELSE needs[n - 1] \cup
             UNION {Elems(ops[k].in) : k \in {m \in 1 .. 3 : m \in needs[n - 1]}}
  IN  {k \in 1 .. 3 : k \in needs[3]}

AsLayer(ops, k, sub) ==
  [op |-> IF k \in sub THEN SubGraph ELSE k, in |-> ops[k].in, out |-> ops[k].out]

Orders(S) == {f \in [1 .. Cardinality(S) -> S] : \A x \in S : \E k \in DOMAIN f : f[k] = x}

SmallGraphs ==
  UNION { UNION { {
      [ops |-> Chain(in2, in3), input |-> <<0>>, output |-> output,
       plan |-> SubSeq([k \in DOMAIN f |-> AsLayer(Chain(in2, in3), f[k], sub)], 1, Len(f))] :
        f \in Orders(Live(Chain(in2, in3), output)) } :
      sub \in SUBSET Live(Chain(in2, in3), output) } :
    in2 \in In2, in3 \in In3, output \in Outputs }

SplitOps ==
  << [in |-> <<0>>, out |-> <<1, 4>>], [in |-> <<1>>, out |-> <<2>>],
     [in |-> <<2, 1>>, out |-> <<3>>], [in |-> <<3, 3>>, out |-> <<5>>] >>

SplitGraphs ==
  { [ops |-> SplitOps, input |-> <<0>>, output |-> <<3, 5>>, plan |-> p] : p \in {
      << AsLayer(SplitOps, 1, {}), AsLayer(SplitOps, 2, {}),
         AsLayer(SplitOps, 3, {}), AsLayer(SplitOps, 4, {}) >>,
      << AsLayer(SplitOps, 1, {}),
         [op |-> SubGraph, in |-> <<1>>, out |-> <<3>>],
         AsLayer(SplitOps, 4, {}) >>,
      << [op |-> SubGraph, in |-> <<0>>, out |-> <<1, 4>>], AsLayer(SplitOps, 2, {}),
         AsLayer(SplitOps, 3, {}), [op |-> SubGraph, in |-> <<3>>, out |-> <<5>>] >> } }

mc_Tensor == 0 .. 5
mc_Graph == {y \in SmallGraphs \cup SplitGraphs : PlanOK(y)}
=============================================================================
