----------------------------- MODULE GrefGraph -----------------------------
(***************************************************************************)
(* The data structures the graph executor (source/graph_ref) works on: the *)
(* graph the application builds op by op, and the plan, the sequence of    *)
(* layers that remains after the graph was partitioned.                    *)
(*                                                                         *)
(* A graph is a record                                                     *)
(*   ops    the ops in the order they were built; each has the sequences   *)
(*          "in" and "out" of its variable tensors (constant tensors trail *)
(*          the variable ones, carry no reference count and are left out)  *)
(*   input  the tensors of csinn_set_input                                 *)
(*   output the tensors of csinn_set_output                                *)
(*   plan   the layers csinn_session_run executes: "op" is the index of    *)
(*          the built op, or SubGraph for a layer that another device runs *)
(***************************************************************************)
EXTENDS Naturals, Sequences, FiniteSets

SubGraph == 0

(* The tensors that occur in a sequence of tensors. *)
Elems(s) == {s[k] : k \in DOMAIN s}

(* <<i, j>> stands for n->in[j] of the i-th built op. *)
Uses(g) == UNION {{<<i, j>> : j \in 1 .. Len(g.ops[i].in)} : i \in 1 .. Len(g.ops)}

UsedTensor(g, u) == g.ops[u[1]].in[u[2]]

UsesOf(g, t) == {u \in Uses(g) : UsedTensor(g, u) = t}

OutEntries(g, t) == {k \in 1 .. Len(g.output) : g.output[k] = t}

(* Layers and built ops by what they produce. *)
OpLayers(g) == {k \in 1 .. Len(g.plan) : g.plan[k].op # SubGraph}

OpTensors(g) == UNION {Elems(g.plan[k].out) : k \in OpLayers(g)}

LayerOf(g, op) == {k \in OpLayers(g) : g.plan[k].op = op}

Distinct(s) == \A k, l \in DOMAIN s : s[k] = s[l] => k = l

(***************************************************************************)
(* What the builders guarantee: every output gets a tensor node of its own *)
(* (shl_node_var_alloc), and an op can only name the node of a tensor that *)
(* is a graph input or that an earlier op produced.                        *)
(***************************************************************************)
BuildOK(g) ==
  /\ \A i, k \in 1 .. Len(g.ops) :
       i # k => Elems(g.ops[i].out) \cap Elems(g.ops[k].out) = {}
  /\ \A i \in 1 .. Len(g.ops) :
       /\ Distinct(g.ops[i].out)
       /\ Elems(g.ops[i].out) \cap Elems(g.input) = {}
       /\ \A t \in Elems(g.ops[i].in) :
            \/ t \in Elems(g.input)
            \/ \E k \in 1 .. i - 1 : t \in Elems(g.ops[k].out)

(***************************************************************************)
(* What the executor needs of a plan: the layers are some of the built ops *)
(* and subgraphs standing for the others, no tensor has two producers, and *)
(* every layer comes after the layers that produce its inputs.             *)
(***************************************************************************)
LayerOK(g, k) ==
  LET layer == g.plan[k] IN
  \/ /\ layer.op \in 1 .. Len(g.ops)
     /\ layer.in = g.ops[layer.op].in
     /\ layer.out = g.ops[layer.op].out
     /\ LayerOf(g, layer.op) = {k}
  \/ /\ layer.op = SubGraph
     /\ Elems(layer.out) \cap Elems(g.input) = {}
     /\ \A t \in Elems(layer.in) : \E u \in UsesOf(g, t) : LayerOf(g, u[1]) = {}

PlanOK(g) ==
  /\ \A k \in 1 .. Len(g.plan) :
       /\ LayerOK(g, k)
       /\ \A t \in Elems(g.plan[k].in) :
            \/ t \in Elems(g.input)
            \/ \E l \in 1 .. k - 1 : t \in Elems(g.plan[l].out)
       /\ \A l \in 1 .. Len(g.plan) :
            k # l => Elems(g.plan[k].out) \cap Elems(g.plan[l].out) = {}
  /\ \A t \in Elems(g.output) :
       \E k \in 1 .. Len(g.plan) : t \in Elems(g.plan[k].out)

(* A record of the shape described above, over a set of tensors. *)
OpNode(T) == [in : Seq(T), out : Seq(T)]
Layer(T)  == [op : Nat, in : Seq(T), out : Seq(T)]
GraphRecord(T) ==
  [ops : Seq(OpNode(T)), input : Seq(T), output : Seq(T), plan : Seq(Layer(T))]

GraphOK(g, T) == g \in GraphRecord(T) /\ BuildOK(g) /\ PlanOK(g)
=============================================================================
