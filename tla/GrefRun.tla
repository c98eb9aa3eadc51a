------------------------------ MODULE GrefRun ------------------------------
(***************************************************************************)
(* The reference-counted execution of a partitioned graph:                 *)
(* shl_gref_session_setup counts the uses of every tensor while it walks   *)
(* the graph as it was built, and shl_gref_session_run walks the layers of *)
(* the plan, allocates the outputs of each op layer, and frees an input    *)
(* when its count reaches zero.  The counts come from one graph and are    *)
(* consumed by another: subgraph layers neither reset nor decrement them.  *)
(*                                                                         *)
(* A buffer is named by who owns it, the tensor it was made for and the    *)
(* run that made it, so that a stale pointer never equals a fresh one.     *)
(***************************************************************************)
EXTENDS Integers, GrefGraph

CONSTANTS Tensor,    \* the variable tensors
          Graph,     \* the graphs, with their plans, a session may hold
          MaxRuns    \* bound: calls of csinn_session_run

ASSUME GraphAssumption == \A x \in Graph : GraphOK(x, Tensor)
ASSUME MaxRunsAssumption == MaxRuns \in Nat

VARIABLES
  g,        \* the graph of the session; never changes
  pc,       \* where the library is: "count", "idle", "layer", "deinit"
  i, j,     \* the loop indices of the function that runs
  rcInit,   \* shl_node.ref_count_init
  rc,       \* shl_node.ref_count
  data,     \* csinn_tensor.data of the tensors of the plan
  heap,     \* the buffers that are allocated
  run       \* csinn_session_run calls so far

vars == <<g, pc, i, j, rcInit, rc, data, heap, run>>

Own(t, r)  == <<"own", t, r>>     \* op_run_init
User(t, r) == <<"user", t, r>>    \* the application, csinn_update_input
Sub(t, r)  == <<"sub", t, r>>     \* the session of a subgraph
NoBuffer   == <<"none">>

Buffer == {"own", "user", "sub"} \X Tensor \X Nat

Init ==
  /\ g \in Graph
  /\ pc = "count" /\ i = 1 /\ j = 1
  /\ rcInit = [t \in Tensor |-> 0]
  /\ rc = [t \in Tensor |-> 0]
  /\ data = [t \in Tensor |-> NoBuffer]
  /\ heap = {}
  /\ run = 0
-----------------------------------------------------------------------------
(* shl_gref_session_setup: the counting loops.  A use counts only when the  *)
(* tensor was produced before, which is how graph inputs stay at zero.      *)

(* Mutant: only the first input of an op is counted. *)
MutCountFirstIn ==
  /\ pc = "count" /\ i <= Len(g.ops) /\ j <= Len(g.ops[i].in)
  /\ rcInit' = [rcInit EXCEPT ![g.ops[i].in[j]] = IF @ > 0 /\ j = 1 THEN @ + 1 ELSE @]
  /\ j' = j + 1
  /\ UNCHANGED <<g, pc, i, rc, data, heap, run>>

CountIn ==
  /\ pc = "count" /\ i <= Len(g.ops) /\ j <= Len(g.ops[i].in)
  /\ rcInit' = [rcInit EXCEPT ![g.ops[i].in[j]] = IF @ > 0 THEN @ + 1 ELSE @]
  /\ j' = j + 1
  /\ UNCHANGED <<g, pc, i, rc, data, heap, run>>

CountOut ==
  /\ pc = "count" /\ i <= Len(g.ops) /\ j > Len(g.ops[i].in)
  /\ rcInit' = [t \in Tensor |->
                  IF t \in Elems(g.ops[i].out) THEN rcInit[t] + 1 ELSE rcInit[t]]
  /\ i' = i + 1 /\ j' = 1
  /\ UNCHANGED <<g, pc, rc, data, heap, run>>

(* Mutant: the entries of the output list hold no reference. *)
MutCountGraphOutput ==
  /\ pc = "count" /\ i > Len(g.ops) /\ j <= Len(g.output)
  /\ j' = j + 1
  /\ UNCHANGED <<g, pc, i, rcInit, rc, data, heap, run>>

CountGraphOutput ==
  /\ pc = "count" /\ i > Len(g.ops) /\ j <= Len(g.output)
  /\ rcInit' = [rcInit EXCEPT ![g.output[j]] = @ + 1]
  /\ j' = j + 1
  /\ UNCHANGED <<g, pc, i, rc, data, heap, run>>

SetupDone ==
  /\ pc = "count" /\ i > Len(g.ops) /\ j > Len(g.output)
  /\ pc' = "idle"
  /\ UNCHANGED <<g, i, j, rcInit, rc, data, heap, run>>
-----------------------------------------------------------------------------
(* The application between two runs: it hands over the inputs of the next   *)
(* run, its earlier buffer being its own to reuse, and it may free the      *)
(* results csinn_get_output gave it.                                        *)

UpdateInput(t) ==
  /\ pc = "idle" /\ run < MaxRuns
  /\ data' = [data EXCEPT ![t] = User(t, run + 1)]
  /\ heap' = (heap \ {data[t]}) \cup {User(t, run + 1)}
  /\ UNCHANGED <<g, pc, i, j, rcInit, rc, run>>

ReleaseOutputs ==
  /\ pc = "idle" /\ run > 0
  /\ heap' = heap \ {data[t] : t \in Elems(g.output) \cap OpTensors(g)}
  /\ UNCHANGED <<g, pc, i, j, rcInit, rc, data, run>>

InputsReady == \A t \in Elems(g.input) : data[t] = User(t, run + 1)
-----------------------------------------------------------------------------
(* shl_gref_session_run, with node_ref_reset as its first step: it resets   *)
(* the outputs of the op layers; a subgraph layer has no output list.       *)

(* Mutant: no node_ref_reset before the second run. *)
MutResetOnce ==
  /\ pc = "idle" /\ run < MaxRuns /\ InputsReady
  /\ rc' = [t \in Tensor |->
              IF run = 0 /\ t \in OpTensors(g) THEN rcInit[t] ELSE rc[t]]
  /\ run' = run + 1
  /\ pc' = "layer" /\ i' = 1 /\ j' = 1
  /\ UNCHANGED <<g, rcInit, data, heap>>

SessionRun ==
  /\ pc = "idle" /\ run < MaxRuns /\ InputsReady
  /\ rc' = [t \in Tensor |-> IF t \in OpTensors(g) THEN rcInit[t] ELSE rc[t]]
  /\ run' = run + 1
  /\ pc' = "layer" /\ i' = 1 /\ j' = 1
  /\ UNCHANGED <<g, rcInit, data, heap>>

(* op_run_init and op_run: fresh outputs, then the kernel reads the inputs. *)
OpRun ==
  /\ pc = "layer" /\ i \in OpLayers(g)
  /\ LET outs == Elems(g.plan[i].out) IN
       /\ data' = [t \in Tensor |-> IF t \in outs THEN Own(t, run) ELSE data[t]]
       /\ heap' = heap \cup {Own(t, run) : t \in outs}
  /\ pc' = "deinit" /\ j' = 1
  /\ UNCHANGED <<g, i, rcInit, rc, run>>

(* The first loop of op_run_deinit, one input. *)
(* Mutant: ref_count is decremented without the test for > 0. *)
MutDeinitUnguarded ==
  /\ pc = "deinit" /\ j <= Len(g.plan[i].in)
  /\ LET t == g.plan[i].in[j] IN
       /\ rc' = [rc EXCEPT ![t] = @ - 1]
       /\ heap' = IF rc[t] = 1 THEN heap \ {data[t]} ELSE heap
  /\ j' = j + 1
  /\ UNCHANGED <<g, pc, i, rcInit, data, run>>

(* Mutant: the buffer is freed one reference too late. *)
MutDeinitLate ==
  /\ pc = "deinit" /\ j <= Len(g.plan[i].in)
  /\ LET t == g.plan[i].in[j] IN
       IF rc[t] > 0
         THEN /\ rc' = [rc EXCEPT ![t] = @ - 1]
              /\ UNCHANGED heap
         ELSE /\ heap' = heap \ {data[t]}
              /\ UNCHANGED rc
  /\ j' = j + 1
  /\ UNCHANGED <<g, pc, i, rcInit, data, run>>

DeinitIn ==
  /\ pc = "deinit" /\ j <= Len(g.plan[i].in)
  /\ LET t == g.plan[i].in[j] IN
       IF rc[t] > 0
         THEN /\ rc' = [rc EXCEPT ![t] = @ - 1]
              /\ heap' = IF rc[t] = 1 THEN heap \ {data[t]} ELSE heap
         ELSE UNCHANGED <<rc, heap>>
  /\ j' = j + 1
  /\ UNCHANGED <<g, pc, i, rcInit, data, run>>

(* The second loop of op_run_deinit: the reference of the producer itself. *)
DeinitOut ==
  /\ pc = "deinit" /\ j > Len(g.plan[i].in)
  /\ rc' = [t \in Tensor |->
              IF t \in Elems(g.plan[i].out) THEN rc[t] - 1 ELSE rc[t]]
  /\ pc' = "layer" /\ i' = i + 1 /\ j' = 1
  /\ UNCHANGED <<g, rcInit, data, heap, run>>

(* Mutant: shl_subgraph_return forgets to hand the results out. *)
MutSubRunKeeps ==
  /\ pc = "layer" /\ i \in (1 .. Len(g.plan)) \ OpLayers(g)
  /\ i' = i + 1
  /\ UNCHANGED <<g, pc, j, rcInit, rc, data, heap, run>>

(* shl_subgraph_run_init, shl_subgraph_run and shl_subgraph_run_deinit: the *)
(* formal inputs alias the outer buffers, and the outputs are the buffers   *)
(* of the subgraph's own session, which replaces those of its earlier run.  *)
SubRun ==
  /\ pc = "layer" /\ i \in (1 .. Len(g.plan)) \ OpLayers(g)
  /\ LET outs == Elems(g.plan[i].out) IN
       /\ data' = [t \in Tensor |-> IF t \in outs THEN Sub(t, run) ELSE data[t]]
       /\ heap' = (heap \ {data[t] : t \in outs}) \cup {Sub(t, run) : t \in outs}
  /\ i' = i + 1
  /\ UNCHANGED <<g, pc, j, rcInit, rc, run>>

RunDone ==
  /\ pc = "layer" /\ i > Len(g.plan)
  /\ pc' = "idle"
  /\ UNCHANGED <<g, i, j, rcInit, rc, data, heap, run>>

Setup == CountIn \/ CountOut \/ CountGraphOutput \/ SetupDone
Application == ReleaseOutputs \/ \E t \in Elems(g.input) : UpdateInput(t)
Execute == SessionRun \/ OpRun \/ DeinitIn \/ DeinitOut \/ SubRun \/ RunDone

Next == Setup \/ Application \/ Execute

Spec == Init /\ [][Next]_vars
-----------------------------------------------------------------------------
TypeOK ==
  /\ GraphOK(g, Tensor)
  /\ pc \in {"count", "idle", "layer", "deinit"}
  /\ i \in Nat \ {0} /\ j \in Nat \ {0}
  /\ rcInit \in [Tensor -> Nat]
  /\ rc \in [Tensor -> Nat]
  /\ data \in [Tensor -> Buffer \cup {NoBuffer}]
  /\ heap \in SUBSET Buffer
  /\ run \in 0 .. MaxRuns

Running == pc \in {"layer", "deinit"}

(* The use u was given back: its op layer is past, or its loop is past it.  *)
Consumed(u) ==
  \E k \in LayerOf(g, u[1]) :
    k < i \/ (k = i /\ pc = "deinit" /\ u[2] < j)

Unconsumed(t) == {u \in UsesOf(g, t) : ~Consumed(u)}

(* The producer of t still holds the reference DeinitOut gives back. *)
ProducerHolds(t) == \E k \in OpLayers(g) : k >= i /\ t \in Elems(g.plan[k].out)

(* The reference count of every tensor an op layer produces is exactly the   *)
(* number of uses still to come, those inside subgraphs and dropped ops      *)
(* included, plus its entries in the output list, plus its producer's own    *)
(* reference (shl_gref_session_setup, node_ref_reset and op_run_deinit       *)
(* agree, although they walk two different graphs).                          *)
RefCountExact ==
  Running =>
    \A t \in OpTensors(g) :
      rc[t] = Cardinality(Unconsumed(t)) + Cardinality(OutEntries(g, t))
              + (IF ProducerHolds(t) THEN 1 ELSE 0)

(* When a layer is about to run, every tensor it reads points to a live      *)
(* buffer filled in this run: no earlier op_run_deinit freed it, and no      *)
(* pointer left from the run before is used.                                 *)
NoUseAfterFree ==
  pc = "layer" /\ i <= Len(g.plan) =>
    \A t \in Elems(g.plan[i].in) : data[t] \in heap /\ data[t][3] = run

(* When the run ends, csinn_get_output finds every graph output in a live    *)
(* buffer of this run.                                                       *)
ResultsDelivered ==
  pc = "layer" /\ i > Len(g.plan) =>
    \A t \in Elems(g.output) : data[t] \in heap /\ data[t][3] = run

(* The tensors whose count never reaches zero in op_run_deinit: graph        *)
(* outputs, tensors a subgraph or a dropped op also reads, and tensors       *)
(* nobody reads.                                                             *)
Retained(t) ==
  \/ t \in Elems(g.output)
  \/ UsesOf(g, t) = {}
  \/ \E u \in UsesOf(g, t) : LayerOf(g, u[1]) = {}

(* A run frees every intermediate buffer it allocated except the retained    *)
(* ones: those are lost when the next run overwrites tensor->data.           *)
ExactRelease ==
  pc = "layer" /\ i > Len(g.plan) =>
    \A t \in OpTensors(g) : data[t] \in heap <=> Retained(t)

(* op_run_deinit frees only a live buffer that op_run_init made in this run: *)
(* never one of the application, of a subgraph, or one already freed.        *)
FreesOnlyOwn ==
  [][DeinitIn =>
       /\ heap \ heap' \subseteq {Own(t, run) : t \in Tensor}
       /\ \A t \in Tensor : rc[t] = 1 /\ rc'[t] = 0 => data[t] \in heap]_vars

(* The reference-counted executor implements the dataflow it stands for:     *)
(* buffers are dropped only when no later layer and no caller can ask for    *)
(* them, and every layer sees values of its own run.                         *)
AbstractVal == [t \in Tensor |-> IF data[t] \in heap THEN data[t][3] ELSE 0]

AbstractFired ==
  IF Running THEN {k \in 1 .. Len(g.plan) : k < i \/ (k = i /\ pc = "deinit")} ELSE {}

Dataflow == INSTANCE DataflowRun WITH
  running <- Running, fired <- AbstractFired, val <- AbstractVal

ImplementsDataflow == Dataflow!Spec
=============================================================================
