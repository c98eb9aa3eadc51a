---- MODULE MCSession ----
(* Programs of two operators, of the kinds the tables distinguish, in both  *)
(* modes and on both sorts of backends.                                     *)
EXTENDS Session

a == "a"
b == "b"
x == "x"
y == "y"

MCTensor == {a, b, x, y}

Op(in, out, kind) == [in |-> in, out |-> out, kind |-> kind]

(* An operator reads another's result and an input, or the result twice;   *)
(* the result in between is an output in the second shape.                  *)
Shapes(k, l) ==
  { [ops |-> <<Op(<<a>>, x, k), Op(<<x, b>>, y, l)>>, input |-> <<a, b>>, output |-> <<y>>],
    [ops |-> <<Op(<<a>>, x, k), Op(<<x, x>>, y, l)>>, input |-> <<a>>, output |-> <<y, x>>] }

Kinds == { <<"conv", "conv">>, <<"plain", "plain">>, <<"plain", "conv">>,
           <<"conv", "squeeze">>, <<"squeeze", "plain">>,
           <<"odd", "conv">>, <<"plain", "odd">>, <<"foreign", "plain">>,
           <<"plain", "foreign">> }

MCProgram ==
  UNION { {[api |-> p, mode |-> m, ops |-> s.ops, input |-> s.input, output |-> s.output] :
             p \in {"ref", "opt"}, m \in {"layer", "graph"}, s \in Shapes(k[1], k[2])} :
          k \in Kinds }

(* The programs of tests/validation_graph/c906: one operator on a CPU       *)
(* backend in graph mode.                                                   *)
TestProgram ==
  { [api |-> "opt", mode |-> "graph", ops |-> <<Op(<<a>>, x, k)>>,
     input |-> <<a>>, output |-> <<x>>] : k \in {"conv", "plain", "squeeze"} }
====
