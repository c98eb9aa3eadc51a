---------------------------- MODULE SubgraphFuse ----------------------------
(***************************************************************************)
(* convert_graph: how shl_gref_session_setup turns the graph the           *)
(* application built into the plan it executes.  A post-order walk from    *)
(* the graph outputs puts every op into a layer: an op of the base API is  *)
(* a layer of its own, an op of another device starts a subgraph, joins    *)
(* that of one of its producers, and may then pull further ones in.  A     *)
(* second walk, over the layers, orders them.                              *)
(*                                                                         *)
(* Layers keep their index when they are emptied (shl_subgraph_rebuild     *)
(* drops and renumbers them, which nothing here depends on), an index of 0 *)
(* stands for NULL, and graphs have constant inputs left out, as in        *)
(* GrefGraph; "api" is the device of an op.                                *)
(***************************************************************************)
EXTENDS GrefGraph, SequencesExt

CONSTANTS Tensor,    \* the variable tensors
          OpGraph,   \* the graphs an application may build
          BaseApi    \* sess->base_api, the device of the executor itself

OpGraphOK(x) ==
  /\ Len(x.ops) \in Nat /\ x.input \in Seq(Tensor) /\ x.output \in Seq(Tensor)
  /\ \A k \in 1 .. Len(x.ops) : x.ops[k].in \in Seq(Tensor) /\ x.ops[k].out \in Seq(Tensor)
  /\ BuildOK(x)
  /\ \A k \in 1 .. Len(x.ops) : x.ops[k].in # <<>>
  /\ \A t \in Elems(x.output) : \E k \in 1 .. Len(x.ops) : t \in Elems(x.ops[k].out)

ASSUME OpGraphAssumption == \A x \in OpGraph : OpGraphOK(x)

VARIABLES
  g,             \* the graph; never changes
  phase,         \* "fuse" and "merge" in the first walk, "sort", "ready"
  next,          \* the next graph output a walk starts from
  stack,         \* node_stack and input_idx_stack: pairs of node and input
  visited,       \* the nodes whose "visited" is set
  layer,         \* the layers made so far
  subgraph_idx,  \* the layer of every op
  into, m,       \* shl_subgraph_fvisit_fuse: the input fused into, and the loop
  plan           \* the layers the second walk has put in order

vars == <<g, phase, next, stack, visited, layer, subgraph_idx, into, m, plan>>
walk == <<next, stack, visited>>

Op == 1 .. Len(g.ops)

Init ==
  /\ g \in OpGraph
  /\ phase = "fuse" /\ next = 1 /\ stack = <<>> /\ visited = {}
  /\ layer = <<>> /\ subgraph_idx = [n \in Op |-> 0]
  /\ into = 0 /\ m = 0
  /\ plan = <<>>
-----------------------------------------------------------------------------
(* t->in[0]: the op that produces t, NULL for a graph input.                *)
Producer(t) ==
  LET made == {n \in Op : t \in Elems(g.ops[n].out)} IN
  IF made = {} THEN 0 ELSE CHOOSE n \in made : TRUE

(* The layer that produces t. *)
Above(t) == LET n == Producer(t) IN IF n = 0 THEN 0 ELSE subgraph_idx[n]

AllIn(L)  == FlattenSeq([k \in DOMAIN L.ops |-> g.ops[L.ops[k]].in])
AllOut(L) == FlattenSeq([k \in DOMAIN L.ops |-> g.ops[L.ops[k]].out])

(* The elements at some of the positions of a sequence. *)
At(s, P) ==
  FoldLeft(LAMBDA kept, k : IF k \in P THEN Append(kept, s[k]) ELSE kept,
           <<>>, [k \in DOMAIN s |-> k])

(* shl_gref_update_input_output: the tensors a layer reads from outside,    *)
(* where its ops first name them ...                                        *)
SubgraphIn(L) ==
  LET s     == AllIn(L)
      New(k) == \A j \in 1 .. k - 1 : s[j] # s[k]
  IN  At(s, {k \in DOMAIN s : New(k) /\ Producer(s[k]) \notin Elems(L.ops)})

LayerIn(L) == IF L.sub THEN SubgraphIn(L) ELSE AllIn(L)

(* ... and those it makes that nobody inside reads, or somebody outside.    *)
Inside(L, t)  == t \in Elems(AllIn(L))
Outside(L, t) == \E l \in DOMAIN layer : layer[l] # L /\ t \in Elems(AllIn(layer[l]))

(* Mutant: readers outside the layer are not looked for. *)
MutLayerOut(L) ==
  LET s == AllOut(L) IN
  IF L.sub THEN At(s, {k \in DOMAIN s : ~Inside(L, s[k])}) ELSE s

LayerOut(L) ==
  LET s == AllOut(L) IN
  IF L.sub THEN At(s, {k \in DOMAIN s : ~Inside(L, s[k]) \/ Outside(L, s[k])}) ELSE s

(* What shl_is_restricted_by_node walks: upwards from layer to layer.       *)
Feeders(l) == {Above(t) : t \in Elems(LayerIn(layer[l]))} \ {0}

Upstream(l) ==
  LET up[k \in Nat] ==
        IF k = 0 THEN {l} ELSE UNION {{x} \cup Feeders(x) : x \in up[k - 1]}
  IN  up[Len(layer)]

IsRestrictedBy(x, l) == \E u \in Upstream(l) : x \in layer[u].restricted_map

OnCycle(l) == \E f \in Feeders(l) : l \in Upstream(f)

(* The search keeps no record of where it has been, and a hit does not stop  *)
(* it: it ends only when no cycle lies above.  The model takes no step from  *)
(* a state in which one of the searches would not end.                       *)
SearchEnds(l) == \A u \in Upstream(l) : ~OnCycle(u)
-----------------------------------------------------------------------------
(* shl_gref_post_dfs and shl_subgraph_topology_sort_internal: the same walk *)
(* over ops and over layers.                                                *)

NodeOf(t)    == IF phase = "sort" THEN Above(t) ELSE Producer(t)
Inputs(n)    == IF phase = "sort" THEN LayerIn(layer[n]) ELSE g.ops[n].in
Top          == Last(stack)[1]
TopInput     == Last(stack)[2]
InputsDone   == TopInput > Len(Inputs(Top))

WalkOutput ==
  /\ phase \in {"fuse", "sort"} /\ stack = <<>> /\ next <= Len(g.output)
  /\ LET n == NodeOf(g.output[next]) IN
       IF n \in visited THEN UNCHANGED <<stack, visited>>
       ELSE stack' = << <<n, 1>> >> /\ visited' = visited \cup {n}
  /\ next' = next + 1
  /\ UNCHANGED <<g, phase, layer, subgraph_idx, into, m, plan>>

(* Mutant: the index moves on only when the walk descends. *)
MutWalkInput ==
  /\ phase \in {"fuse", "sort"} /\ stack # <<>> /\ ~InputsDone
  /\ LET n == NodeOf(Inputs(Top)[TopInput])
         advanced == Append(Front(stack), <<Top, TopInput + 1>>)
     IN  /\ n \notin visited \cup {0}
         /\ stack' = Append(advanced, <<n, 1>>) /\ visited' = visited \cup {n}
  /\ UNCHANGED <<g, phase, next, layer, subgraph_idx, into, m, plan>>

WalkInput ==
  /\ phase \in {"fuse", "sort"} /\ stack # <<>> /\ ~InputsDone
  /\ LET n == NodeOf(Inputs(Top)[TopInput])
         advanced == Append(Front(stack), <<Top, TopInput + 1>>)
     IN  IF n \in visited \cup {0}
           THEN stack' = advanced /\ UNCHANGED visited
           ELSE stack' = Append(advanced, <<n, 1>>) /\ visited' = visited \cup {n}
  /\ UNCHANGED <<g, phase, next, layer, subgraph_idx, into, m, plan>>

Fusing == phase = "fuse" /\ stack # <<>> /\ InputsDone

(* Mutant: layer_index is read after the insertion instead of before it. *)
MutNewLayer(n, restricted) ==
  /\ layer' = Append(layer, [sub |-> g.ops[n].api # BaseApi, ops |-> <<n>>,
                             restricted_map |-> restricted])
  /\ subgraph_idx' = [subgraph_idx EXCEPT ![n] = Len(layer) + 2]

(* shl_node_alloc and shl_gref_graph_insert of a layer that holds one op. *)
NewLayer(n, restricted) ==
  /\ layer' = Append(layer, [sub |-> g.ops[n].api # BaseApi, ops |-> <<n>>,
                             restricted_map |-> restricted])
  /\ subgraph_idx' = [subgraph_idx EXCEPT ![n] = Len(layer) + 1]

Visited == stack' = Front(stack) /\ UNCHANGED <<g, next, visited, plan>>
-----------------------------------------------------------------------------
(* shl_subgraph_fvisit_fuse, one action for each of its ways out.           *)

ProducedIn(n)  == {k \in DOMAIN g.ops[n].in : Producer(g.ops[n].in[k]) # 0}
InLayer(n, k)  == Above(g.ops[n].in[k])
InDevice(n, k) == g.ops[Producer(g.ops[n].in[k])].api
InLayers(n)    == {InLayer(n, k) : k \in ProducedIn(n)}

IsRoot(n) == Elems(g.ops[n].in) \subseteq Elems(g.input)

FuseCpu ==
  /\ Fusing /\ g.ops[Top].api = BaseApi
  /\ NewLayer(Top, InLayers(Top))
  /\ Visited /\ UNCHANGED <<phase, into, m>>

FuseRoot ==
  /\ Fusing /\ g.ops[Top].api # BaseApi /\ IsRoot(Top)
  /\ NewLayer(Top, {})
  /\ Visited /\ UNCHANGED <<phase, into, m>>

(* Mutant: the devices are not compared. *)
MutSameDevice(n) == {k \in ProducedIn(n) : InDevice(n, k) # BaseApi}

SameDevice(n) == {k \in ProducedIn(n) : InDevice(n, k) = g.ops[n].api}

(* Mutant: what restricts an input is not looked for. *)
MutCanFuse(n) == SameDevice(n)

(* The inputs whose subgraph the op may join: no other input lies below it. *)
CanFuse(n) ==
  {i \in SameDevice(n) :
     \A j \in ProducedIn(n) \ {i} : ~IsRestrictedBy(InLayer(n, i), InLayer(n, j))}

SearchesEnd(n) ==
  \A i \in SameDevice(n) : \A j \in ProducedIn(n) \ {i} : SearchEnds(InLayer(n, j))

FuseInto ==
  /\ Fusing /\ g.ops[Top].api # BaseApi /\ ~IsRoot(Top)
  /\ SearchesEnd(Top) /\ CanFuse(Top) # {}
  /\ into' \in CanFuse(Top) /\ \A k \in CanFuse(Top) : into' <= k
  /\ LET l == InLayer(Top, into') IN
       /\ layer' = [layer EXCEPT ![l].ops = Append(@, Top)]
       /\ subgraph_idx' = [subgraph_idx EXCEPT ![Top] = l]
  /\ phase' = "merge" /\ m' = 1
  /\ UNCHANGED <<g, walk, plan>>

FuseRestricted ==
  /\ Fusing /\ g.ops[Top].api # BaseApi /\ ~IsRoot(Top)
  /\ SearchesEnd(Top) /\ CanFuse(Top) = {}
  /\ NewLayer(Top, InLayers(Top))
  /\ Visited /\ UNCHANGED <<phase, into, m>>

(* The second half of the function, one input at a time: src is the layer   *)
(* of the input, dst the one the op has joined.                             *)
Merging(k) == k \in ProducedIn(Top) \ {into} /\ InLayer(Top, k) # subgraph_idx[Top]

Apart(src, dst) ==
  /\ \A f \in Feeders(src) : ~IsRestrictedBy(dst, f)
  /\ \A f \in Feeders(dst) : ~IsRestrictedBy(src, f)

MergeSkip ==
  /\ phase = "merge" /\ m <= Len(g.ops[Top].in) /\ ~Merging(m)
  /\ m' = m + 1
  /\ UNCHANGED <<g, phase, walk, layer, subgraph_idx, into, plan>>

(* Mutant: the restricted_map of the layer that goes away is lost. *)
MutMergeMapLost(src, dst) ==
  /\ layer' = [layer EXCEPT ![dst].ops = @ \o layer[src].ops, ![src].ops = <<>>]
  /\ subgraph_idx' = [n \in Op |-> IF subgraph_idx[n] = src THEN dst ELSE subgraph_idx[n]]

(* Mutant: the ops that move keep their old subgraph_idx. *)
MutMergeIndexKept(src, dst) ==
  /\ layer' = [layer EXCEPT
       ![dst].ops = @ \o layer[src].ops,
       ![dst].restricted_map = @ \cup layer[src].restricted_map,
       ![src].ops = <<>>]
  /\ UNCHANGED subgraph_idx

MergeLayers(src, dst) ==
  /\ layer' = [layer EXCEPT
       ![dst].ops = @ \o layer[src].ops,
       ![dst].restricted_map = @ \cup layer[src].restricted_map,
       ![src].ops = <<>>]
  /\ subgraph_idx' = [n \in Op |-> IF subgraph_idx[n] = src THEN dst ELSE subgraph_idx[n]]

MergeInput ==
  /\ phase = "merge" /\ m <= Len(g.ops[Top].in) /\ Merging(m)
  /\ LET src == InLayer(Top, m)
         dst == subgraph_idx[Top]
     IN  \/ /\ InDevice(Top, m) # g.ops[Top].api
            /\ layer' = [layer EXCEPT ![dst].restricted_map = @ \cup {src}]
            /\ UNCHANGED subgraph_idx
         \/ /\ InDevice(Top, m) = g.ops[Top].api
            /\ \A f \in Feeders(src) \cup Feeders(dst) : SearchEnds(f)
            /\ IF Apart(src, dst)
                 THEN MergeLayers(src, dst)
                 ELSE /\ layer' = [layer EXCEPT ![src].restricted_map = @ \cup {dst}]
                      /\ UNCHANGED subgraph_idx
  /\ m' = m + 1
  /\ UNCHANGED <<g, phase, walk, into, plan>>

MergeDone ==
  /\ phase = "merge" /\ m > Len(g.ops[Top].in)
  /\ phase' = "fuse"
  /\ Visited /\ UNCHANGED <<layer, subgraph_idx, into, m>>
-----------------------------------------------------------------------------
(* shl_subgraph_rebuild between the walks, and the visit of the second one. *)

Rebuild ==
  /\ phase = "fuse" /\ stack = <<>> /\ next > Len(g.output)
  /\ phase' = "sort" /\ next' = 1 /\ visited' = {}
  /\ UNCHANGED <<g, stack, layer, subgraph_idx, into, m, plan>>

SortLayer ==
  /\ phase = "sort" /\ stack # <<>> /\ InputsDone
  /\ plan' = Append(plan, Top)
  /\ stack' = Front(stack)
  /\ UNCHANGED <<g, phase, next, visited, layer, subgraph_idx, into, m>>

SortDone ==
  /\ phase = "sort" /\ stack = <<>> /\ next > Len(g.output)
  /\ phase' = "ready"
  /\ UNCHANGED <<g, walk, layer, subgraph_idx, into, m, plan>>

Walk  == WalkOutput \/ WalkInput
Fuse  == FuseCpu \/ FuseRoot \/ FuseInto \/ FuseRestricted
Merge == MergeSkip \/ MergeInput \/ MergeDone
Sort  == Rebuild \/ SortLayer \/ SortDone

Next == Walk \/ Fuse \/ Merge \/ Sort

Spec == Init /\ [][Next]_vars /\ WF_vars(Next)
-----------------------------------------------------------------------------
(* The first walk is over ops, the second over layers. *)
Node == IF phase \in {"fuse", "merge"} THEN Op ELSE DOMAIN layer

TypeOK ==
  /\ phase \in {"fuse", "merge", "sort", "ready"}
  /\ next \in 1 .. Len(g.output) + 1
  /\ stack \in Seq(Node \X (Nat \ {0}))
  /\ visited \in SUBSET Node
  /\ layer \in Seq([sub : BOOLEAN, ops : Seq(Op), restricted_map : SUBSET DOMAIN layer])
  /\ subgraph_idx \in [Op -> 0 .. Len(layer)]
  /\ into \in Nat /\ m \in Nat
  /\ plan \in Seq(DOMAIN layer)

Live == {l \in DOMAIN layer : layer[l].ops # <<>>}

(* Every op the walk has finished with is in exactly one layer, once, and    *)
(* subgraph_idx names it, whatever layers were fused in between              *)
(* (shl_subgraph_fvisit_fuse moves ops and their indices by hand).           *)
OneLayerEach ==
  \A n \in Op : \A l \in DOMAIN layer :
    Cardinality({k \in DOMAIN layer[l].ops : layer[l].ops[k] = n})
      = IF subgraph_idx[n] = l THEN 1 ELSE 0

(* A subgraph holds ops of one device only, and never one of the base API:   *)
(* shl_subgraph_setup opens a single session, of its first op, for them all. *)
OneDevice ==
  \A l \in Live : \A k \in DOMAIN layer[l].ops :
    /\ g.ops[layer[l].ops[k]].api = g.ops[layer[l].ops[1]].api
    /\ g.ops[layer[l].ops[k]].api = BaseApi <=> ~layer[l].sub

(* A restriction is wrong when it names a layer that was fused away (a fusion *)
(* moves the restrictions of that layer and leaves those that name it), or    *)
(* one that reads from the layer it restricts, or that layer itself: what a   *)
(* refused fusion notes down is the wrong way round.                          *)
Misled(u) ==
  \E x \in layer[u].restricted_map : layer[x].ops = <<>> \/ x = u \/ u \in Feeders(x)

Orderable == \A l \in Live : ~OnCycle(l)

(* No step ties the layers in a circle, so that they can be run one after the *)
(* other (shl_gref_session_run), as long as none of the restrictions that     *)
(* shl_subgraph_fvisit_fuse has noted down is wrong.                          *)
Acyclic ==
  [][layer' # layer /\ Orderable /\ (\A l \in Live : ~Misled(l)) => Orderable']_vars

(* Between two visits the recorded restrictions, followed upwards as          *)
(* shl_is_restricted_by_node does, name every layer a layer depends on,       *)
(* unless one on the way is wrong.                                            *)
RestrictionsKnown ==
  phase = "fuse" =>
    \A l \in Live : \A x \in Upstream(l) \ {l} :
      IsRestrictedBy(x, l) \/ \E u \in Upstream(l) : Misled(u)

(* A layer whose ops were fused into another one is never given ops again,   *)
(* although its index is still in restricted maps (layer_size = 0 is how the *)
(* rest of the code tells that it is gone).                                  *)
EmptiedForGood ==
  [][\A l \in DOMAIN layer : layer[l].ops = <<>> => layer'[l].ops = <<>>]_vars

(* The graph shl_gref_session_run then works on. *)
Partitioned ==
  [ops |-> [n \in Op |-> [in |-> g.ops[n].in, out |-> g.ops[n].out]],
   input |-> g.input, output |-> g.output,
   plan |-> [k \in DOMAIN plan |->
               LET L == layer[plan[k]] IN
               [op |-> IF L.sub THEN SubGraph ELSE L.ops[1],
                in |-> LayerIn(L), out |-> LayerOut(L)]]]

(* A graph output that its own subgraph also reads is not among the outputs  *)
(* of that subgraph.                                                         *)
Delivered ==
  \A t \in Elems(g.output) : \E l \in Live : t \in Elems(LayerOut(layer[l]))

(* What setup leaves is what the executor relies on (the GraphAssumption of  *)
(* GrefRun), provided that the layers can be ordered at all and that the     *)
(* subgraphs hand every graph output out: every layer comes after those it   *)
(* reads from, nothing is made twice, nothing a layer reads is missing.      *)
PlanReady == phase = "ready" /\ Orderable /\ Delivered => GraphOK(Partitioned, Tensor)

(* shl_gref_session_setup returns: both walks end, and so does every search  *)
(* for restrictions unless the layers it walks over were tied in a circle.   *)
SetupReturns == <>(phase = "ready" \/ ~Orderable)

(* An op joins the subgraph of its i-th input only when no other input       *)
(* depends on that subgraph.                                                 *)
RestrictionSeen ==
  [][FuseInto =>
       LET into_layer == InLayer(Top, into') IN
       \A j \in ProducedIn(Top) :
         InLayer(Top, j) # into_layer => into_layer \notin Upstream(InLayer(Top, j))]_vars
=============================================================================
