# Formal models of SHL (CSI-NN2)

SHL is a C library of neural-network operators with a small runtime around
them. The operators are arithmetic; what can go wrong in ways a test hardly
reaches is the runtime: how a graph is built, cut into subgraphs for several
devices, ordered, executed with reference-counted buffers, and which memory all
of this lives in. These modules model that runtime, check it with TLC and prove
what matters most with TLAPS. Paths below are relative to `src/`.

Contents: [inventory](#the-system), [modules](#modules),
[runs](#runs-and-bounds), [proofs](#proofs), [findings](#what-was-found),
[what is not modelled](#not-modelled), [plan](#plan).

## The system

| part | source | state it keeps | operations | what is hard |
|---|---|---|---|---|
| session API, dispatch | `source/nn2/setup.c` | two tables of callbacks, a session's inputs and outputs | `csinn_session_*`, `csinn_set_*`, `csinn_update_*`, `csinn_get_*` | the order of the calls; `tensor->data` is a node first and a buffer later |
| op builders | `source/graph_ref/*.c` | the op list and the tensor nodes of a graph | one function per operator | constant inputs, the same tensor twice |
| partitioner | `source/graph_ref/subgraph.c`, `setup.c` | layers, restriction maps, visit marks | two depth-first walks, join, fuse, rebuild, order | indices that go stale when layers are fused; restrictions noted the wrong way round; cycles; termination |
| executor | `source/graph_ref/setup.c` | two counts per tensor, `tensor->data` | setup, run, update, get | counts come from one graph and are consumed by another; repeated runs |
| sub-sessions | `source/graph_ref/subgraph.c` | one inner session per subgraph | setup, entry, run, return | aliasing of inner and outer tensors, devices |
| streaming layers | `source/reference/cache_matmul.c`, `cache_conv1d.c`, `fsmn.c` | a window buffer, a frame counter | insert at the front or the back | wrap-around at every remainder |
| allocator | `source/utils/atat_malloc.c` | a free list, the program break | malloc, free, sbrk | splits, joins, failure half-way; a break that others move; lengths and amounts in types that are too narrow |
| memory wrappers | `source/utils/memory.c` | (debug map) | alloc, realloc, free | realloc copies the new size |
| tensor utilities | `source/nn2/utils.c` | none | sizes, quantisation, layouts | rounding, packing |
| binary model | `source/nn2/format.c` | none | dump, load | offsets instead of pointers |
| kernels | `source/reference`, `c906_opt`, `c908_opt`, `thead_rvv`, ... | packed or transformed kernels, in place or beside | init packs, exec computes | two halves that agree only by a layout; floating point, intrinsics |

How they interact: the application opens a session and, in the CPU graph run
mode, every call of an operator goes through the callback tables to its builder,
which appends an op to the graph. `csinn_session_setup` counts the uses of every
tensor, partitions the graph, opens an inner session for every subgraph of
another device and initialises the kernels of the rest. Every
`csinn_session_run` then walks the layers of the plan; a subgraph layer calls
the session API again, on the inner session. There are no threads, no callbacks
into the application and no persistent state: the hazards are orderings inside
one long sequence of calls, state left over from an earlier step, and limits.

What makes each part correct:

* partitioner: every op lands in exactly one layer, a subgraph is for one
  device, layers do not depend on each other in a circle, setup ends, and the
  plan is what the executor takes for granted;
* executor: no layer reads a freed or an old buffer, results survive the run,
  nothing is freed that is not the executor's, and nothing leaks that the counts
  could release;
* session: a result is computed from the inputs handed over last, and a session
  breaks only for reasons that can be named;
* sub-sessions: they see their own tensors and devices, never stale data, and
  the executor cannot tell them from a single step;
* streaming layers: the window is the recent past, in order, and each weight
  meets the frame at its distance;
* binary model: what is written can be read back;
* vector kernels: packing, tiling and multiplication agree about every element;
* allocator: blocks tile the heap, the heap is nobody else's memory, neighbours
  are joined.

## Modules

### GrefGraph: the data structures

The graph record of the other modules: `ops` as the application built them,
`input`, `output`, and the `plan` the executor walks. `BuildOK` says what
the builders guarantee (`shl_gref_siso_op`, `shl_gref_diso_op`, ... in
`source/graph_ref/utils.c`): every output gets a node of its own, and an op can
only name a node that exists. `PlanOK` says what the executor needs. Constant
tensors are left out: they carry no reference count and are never freed.

### GrefRun: the executor

| state | code |
|---|---|
| `g` | `struct shl_ref_graph`, before and after `convert_graph` |
| `rcInit`, `rc` | `ref_count_init`, `ref_count` of `struct shl_node` |
| `data`, `heap` | `tensor->data` and the set of live allocations |
| `pc`, `i`, `j` | which loop of which function is at which index |
| `run` | calls of `csinn_session_run` |

| action | code |
|---|---|
| `CountIn`, `CountOut`, `CountGraphOutput`, `SetupDone` | the counting loops of `shl_gref_session_setup` |
| `UpdateInput` | `csinn_update_input` |
| `ReleaseOutputs` | the application frees results it got |
| `SessionRun` | `csinn_session_run` up to `node_ref_reset` |
| `OpRun` | `op_run_init` and the kernel |
| `DeinitIn`, `DeinitOut` | the two loops of `op_run_deinit`, input by input |
| `SubRun` | `shl_subgraph_run_init`, `shl_subgraph_run` |
| `RunDone` | the return of `csinn_session_run` |

The point of the module is that counting walks the graph *as built*, running
walks the *plan*, and the two differ: an op inside a subgraph, or one that no
output needs, was counted and never gives its reference back. A buffer is a
triple of owner, tensor and run, so that a pointer left from an earlier run is
never equal to a fresh one. `SubRun` takes the inner session to be what the
executor sees of it: it fills the outer tensors with buffers of its own, which
replace those of its previous run.

### DataflowRun: what a run promises

The abstract specification: in each run every layer fires once, on values of
this run, and a value may be forgotten when nobody can ask for it any more.
No counts, no buffers, no order. `GrefRun` implements it (`ImplementsDataflow`):
`val` is the run of the buffer `data` points to while that buffer is live, and
`fired` the layers the loop index is past.

### Session: the life cycle and the dispatch

| state | code |
|---|---|
| `mode`, `cb` | `base_run_mode`; `params->cb` of every op |
| `data`, `mem` | `tensor->data`, a node or a buffer, and what the buffers hold |
| `graph`, `gout`, `appl` | the builders' ops, `graph->output`, the application's side of `csinn_update_output` |
| `phase`, `nIn`, `nOp`, `nOut`, `i`, `run` | where the application and the loops are |

A program of the constant `Program` is a sequence of ops with a backend and a run
mode (`IsProgram` says which are networks). `RefTable`, `GrefTable` and `OptTable` reduce the callback tables to the
kinds of entries they have: a builder, an init function and a kernel each exist
or not. `OpCallbackMap` and `P0Cb` are the dispatch, `OpCall` is `csinn_<op>_init`
with `csinn_<op>`, `SessionSetup` the walk and `init_op`, `LayerRun` one layer of
a run with a kernel that may fail, and `UpdateInput`, `UpdateOutput`, `GetOutput`
the exchange of buffers in any order. A value is the set of the inputs (with
their version) it was computed from, or `Junk`.

### SubSession: a subgraph of another device

`GrefRun` takes a subgraph layer as one step; this module extends `GrefRun` and
takes that step apart: `Rebuild` makes the formal inputs, `SetupLayer` is
`shl_subgraph_setup` with `set_sub_session`, `SubEntry` hands buffers in (with
or without a conversion copy), `InnerRun` is the device's runtime, which may
fail, and `SubReturn` hands results out. A sub-session whose setup did not reach its
end has no table of outputs: its run ends in `csinn_get_output` reading from a NULL
array, and the program with it. The runtime itself is not in the
repository and is external. `Executor` is an instance of `GrefRun` under a
refinement mapping: while a layer is inside its sub-session the executor still
sees the state from before it.

### BinaryModel: dump and import

`Measure`, `PutTensor` and `PutSession` are the loops of `session_dump`, with an
image of cells instead of bytes; `Import`, `LoadInput`, `TurnToOutputs`,
`LoadOutput` and `Imported` are `csinn_import_binary_model`. Pointers and offsets are
one word, taken modulo `Word`, because loading adds the address of the image to
an offset in place and `read_offset` drops the upper half again.

### SubgraphFuse: the partitioner

| state | code |
|---|---|
| `layer` | the layers made so far: ops, `restricted_map`, subgraph or not |
| `subgraph_idx` | `node->subgraph_idx` of every op |
| `stack`, `visited`, `next` | `node_stack`, `input_idx_stack`, `node->visited`, the index over the outputs |
| `into`, `m`, `phase` | the locals of `shl_subgraph_fvisit_fuse`, and which walk runs |
| `plan` | the layers the second walk has inserted |

`WalkOutput` and `WalkInput` are the two walks, which have the same text in
`shl_gref_post_dfs` and `shl_subgraph_topology_sort_internal`. `FuseCpu`,
`FuseRoot`, `FuseInto` and `FuseRestricted` are the four ways an op gets its
layer; `MergeSkip`, `MergeInput` and `MergeDone` are the loop that then pulls
in the subgraphs of the other inputs. `Upstream` is the closure that
`shl_is_restricted_by_node` searches. That search keeps no visited set, so it
does not end on a cycle; the model takes no step from such a state. Where the
code caches a subgraph's inputs (`shl_gref_update_input_output`) the model
computes them: the cache is refreshed at every change of the ops of a layer.
`Misled(u)` says that a restriction noted down in layer `u` is wrong, in one of the
two ways the code brings about: it names a layer that was fused away, or one that
reads from `u` (see [what was found](#what-was-found)).

### AsrBuffer: the streaming window

State: the buffer of twice the window, `writer_index`, `flag`, the pointer
last returned, and `recent`, a history variable holding what the window should
show. A layer inserts at one end for its whole life
(`shl_ref_cache_matmul_f32` decides by its constant bias, `cache_conv1d` always
takes the back), so `front` never changes. Chunks have every length up to the
window.

### Fsmn: the streaming FSMN layer

`Frame` is one call of `shl_ref_fsmn_f32`: the counter (32 bits, `Inc`), the
shift of the delay line once enough frames came, and which frame every weight
is applied to (`Weighted`). A frame is the number of the run that brought it.
`MCStreams` is a session with either streaming layer, the cache or the FSMN.

### RvvConv: the vector convolutions

The float convolutions of `thead_rvv`, in its four packings, and of `c908_opt`,
where the channels do not fill a vector. `Init2d` is `csinn_conv2d_init`: it
chooses the kernels by the channels and packs the weights in place
(`PackedKernel`, `ReorderKernel`) or makes a transformed copy. `Conv2d` starts
`csinn_conv2d` in layer mode, and `Tile` is one block of rows and columns
of the multiplication, over `Im2col` and `ReorderInput`.

Channels are stored one by one (`Pack1`), or by as many as a vector holds: in the
image and the result (`Packn`), only in the result (`Pack1ton`) or only in the image
(`Packnto1`, whose result is unpacked at the end of each group). `LaneAt` is the
address of a channel's element in such a layout and `Lane` its inverse; all
matrices are written with these two and with `Blocks`, the widest block that
still fits. What differs between backends, types and vector lengths is the set
of widths: each `..._reorder_input_...` and `..._gemm_...` operator is named for the
function whose blocks it lists, and `Of` is the choice among them. For the c908
these functions are assembly; the model has their blocks and their addresses,
read off the code, and not the registers. They load the operands of the next step
ahead, once past the end of the matrix, and do not use them: that load is not
among `Reads`.

Data are symbolic: an element is its address in the tensor it came from, an
output is its bias and the list of products it adds. So the check is about
indices, not about rounding. `Reference` is what
`source/reference/convolution.c` adds up. A batch is one image; the loop over
images only moves two pointers. `Winograd2d` is the branch of `csinn_conv2d` that uses
the transformed kernel and frees it; the executor of a graph calls the kernel
function itself and does not come through there.

### AtatMalloc: the allocator

State: the free list `F` in descending address order, the blocks handed out,
the program break. Blocks lie at multiples of 8 bytes and have such lengths, so
the model counts units of 8 bytes; the break may be at any byte of one (a record of
`unit` and `byte`), since others move it too. `Top` is the break rounded up, where a
new block goes; the break itself is then raised from where it was, not from
`Top`, by an amount passed as an `int` (`Narrow`). The search compares lengths in an
`unsigned` (`Kept`). Requests are taken after their rounding to units.

`MallocFromList` is the best-fit branch with its split,
`MallocFromSystem` the branch that asks `sbrk`, its failure included, `Free`
the search, the two joins and the insertion. Other users of the break are
`BreakMoves`, which raises it by bytes and units. The RTOS build, whose `sbrk`
returns a constant address, is the behaviours with `rtos` true.

Five history variables say what happened to memory: `owned` (units that blocks were
laid out in and that were not given back), `others` (bytes others got from the break),
`ragged` (last units of gulps asked for at an unaligned break, which end above it),
`dropped` (what a failing `sbrk` lost) and `torn`: the new free block is not where
`sbrk` made room for it, because the amount did not fit an `int` or because the RTOS
`sbrk` gave the same address twice. From then on its header may lie in a block in use
and the lists would depend on what the application writes there. Nothing is
allocated or freed after that, and the properties speak of the states before
(`Sane`).

## Runs and bounds

| run | module, cfg | shows | bounds |
|---|---|---|---|
| `gref_run` | MCGrefRun | counts, buffers and results of the executor, and the refinement | all graphs of three ops with one output each, all splits and orders of the plan, plus plans with a two-output op and a fused subgraph; two runs |
| `subgraph_fuse` | MCSubgraphFuse | the partition and the plan | 8432 graphs: four ops in the relevant wirings, devices in every assignment (one or two besides the CPU), five-op graphs with two roots, and six-op graphs in which a fusion is refused |
| `subgraph_fuse_ends` | MCSubgraphFuse, MCSubgraphFuseEnds.cfg | setup returns | 64 of those graphs |
| `fusion_cycle` | MCSubgraphFuse, MCFusionCycle.cfg | the violation described under [what was found](#what-was-found) | the five-op graphs |
| `streams` | MCStreams | the window; which weight meets which frame | window of three, two values besides zero; all FSMN layers that fit a line of five frames; a counter of four bits, 20 frames |
| `atat_malloc` | MCAtatMalloc | the heap | limit of 14 units of two bytes, header 1, gulp 3, sizes 1, 3 and 11, lengths kept modulo 12, others move the break by a byte or two units |
| `session` | MCSession | results and failures of every order of calls | programs of two ops of nine pairs of kinds, both modes, reference and optimised backend; two runs |
| `session_tests` | MCSession, MCSessionTests.cfg | the squeeze violation below | the one-op programs of `tests/validation_graph/c906` |
| `sub_session` | MCSubSession | sub-sessions, their failures, their leaks, the refinement of `GrefRun` | five graphs with one or two subgraphs on four kinds of devices; three runs |
| `binary_model` | MCBinaryModel | the image, the round trip, the second import | up to two inputs and outputs, names of one or two letters, two imports from three addresses |
| `rvv_conv` | MCRvvConv | packing, tiling and multiplication agree | 36 convolutions, two ops that share a kernel, three calls |
| `rvv_dilation` | MCRvvConv, MCRvvDilation.cfg | the dilation violation below | the same |

Why these are enough. *Executor:* two runs show everything that survives a
run; three ops give a tensor several readers, one reader twice, a reader in a
subgraph, a dropped op, and an output that is also read. *Partitioner:*
restrictions matter from four ops on (a join past a CPU op), stale ones from five,
those noted the wrong way round from six on, and all three sizes are in the same run. *Session:* two ops are a producer and a
consumer of every pair of kinds, two runs show what the first leaves behind.
*Sub-sessions:* the graphs have an op that reads a tensor twice, a tensor shared
by two subgraphs, one subgraph that feeds another, and an op the setup does not
know. *Binary model:* the second tensor of each list shows that the offsets of
the first add up; the addresses are 0, a small one and the largest. *Vector
kernels:* for every multiplication one shape has as many rows and columns as it
takes to pass through all of its blocks in both directions; the others start in a
smaller block, leave a narrow pack of channels, have two groups, several taps,
padding and strides. *FSMN:* the lines read by the layers reach
their last frame, and 20 frames pass the overflow of the counter and its return.
*Window:* chunks of one, two and three
reach the end of the buffer with every remainder. *Allocator:* exact splits,
remainders that are too small, extension of the top block, joins above, below
and on both sides, and failing `sbrk` all occur; so do gulps that overhang an
unaligned break and bytes of them that others get, the header of a block in such a
unit, free blocks that look shorter than they are and of which a part is given back
(at an aligned break and at an unaligned one), and amounts that an `int` makes
negative or smaller (each was confirmed to be reachable). A unit of two bytes tells a
whole one from a part of one, which is all that the rounding asks about.

Deadlock is checked in `gref_run`. It is off where the system really stops:
session setup ends in `ready`, a session is closed or the program crashed, the
behaviours of the allocator in which it gets torn end, and the bounds on frames, imports, calls
and runs are used up.

Fairness. Only `subgraph_fuse_ends` needs it: `WF_vars(Next)`. Setup is one
sequential call that nothing suspends, so some enabled step is always taken.
Everything else is driven by the application, which owes the library nothing,
and has no liveness properties.

The properties, in words:

* `RefCountExact`: in a run, a tensor's count is its remaining uses, in or out
  of the plan, plus its entries in the output list, plus its producer's own
  reference.
* `NoUseAfterFree`, `ResultsDelivered`: what a layer reads, and what the
  application gets, is live and of this run.
* `ExactRelease`: a run frees every intermediate buffer except those of outputs,
  of tensors nobody reads, and of tensors a subgraph or a dropped op reads.
  This is exact in both directions: it says what is freed and what is lost.
* `FreesOnlyOwn`: a free hits a live buffer of the same run, never one of the
  application or of a subgraph.
* `OneLayerEach`, `OneDevice`, `EmptiedForGood`: the bookkeeping of joins and
  fusions.
* `RestrictionsKnown`, `Acyclic`: restrictions name everything a layer depends
  on, unless a wrong one is on the way, and no step ties layers in a circle while
  there is none. Wrong are those that name a layer that is gone and those that
  name a layer the wrong way round: the two causes of the finding below. Both
  properties fail without that premise, and with only one of the two in it.
* `PlanReady`: the plan satisfies `GraphOK`, which is the `GraphAssumption` of
  `GrefRun`. This is how the two modules compose.
* `SetupReturns`: the walks and searches end unless layers form a circle.
* `ResultsExact`: every result is computed from the inputs handed over last; a
  kernel that fails and an input that was never given taint exactly what is
  behind them.
* `BreaksForTwoReasons`: a graph session stops the program only for an operator
  without a builder or an operator without a kernel, and always for these.
* `ApplicationBuffersKept`: a run never writes a buffer of the application, not
  even the one given with `csinn_update_output`.
* `SessionsApart`: each sub-session is built on its own tensors with its own
  callbacks, and the exceptions are exactly two (see below).
* `NeverStale`: whatever fails, nothing computes on an earlier run's data.
* `ConversionsAccumulate`: what sub-sessions leave allocated, exactly.
* `ImplementsExecutor`: sub-sessions that do not fail implement `GrefRun`, and so
  by `ImplementsDataflow` the dataflow specification.
* `ImageFilled`, `RoundTrip`, `ImportUsesUp`: the dump fills the block it
  measured; an import gives back what was dumped, with two stated exceptions;
  the image is used up by it.
* `TilesInside`, `ConvExact`: no tile reads or writes outside
  its group or twice; the result is the reference convolution without dilation
  (with the exceptions [below](#what-was-found)).
* `WindowIsRecent`, `AccessesSafe`: the window, and the accesses that make it.
* `ResultByDistance`, `FrozenAfterOverflow`: the FSMN layer until the counter
  overflows, and afterwards.
* `HeapTiled`, `InHeap`, `Coalesced`: every unit laid out is in exactly one block or
  was lost by a failing `sbrk`; units lie below the break and apart from what others
  got, except for the end of an overhanging last unit; no two free neighbours.

Every property has a mutant: an operator `Mut...` next to the definition it
alters, a plausible bug under which TLC finds the property violated.

## Proofs

`GrefRunProofs`, `SubSessionProofs`, `SessionProofs`, `SubgraphFuseProofs`,
`BinaryModelProofs`, `KernelProofs` (window, FSMN and vector convolutions) and
`AtatMallocProofs` hold for every value of the constants. `InductionProofs` has
what several of them need: least and greatest elements of sets of numbers,
counting from 0 to n, and that the recursive function inside `FoldLeft` exists
(`FoldExists`), so that its equation can be used.

**Executor.** Assumptions: `GraphAssumption` (every graph satisfies `GraphOK`,
which `PlanReady` checks of the partitioner's results) and `MaxRuns \in Nat`.
The invariants are not inductive: that no layer reads a freed buffer depends on
the counts, those depend on what setup counted, and setup is half-way through
its loops in the states between. `IInv` therefore joins to `TypeOK`: what has
been counted so far as a function of the loop indices, and in all once setup is
done (`CountInv`, `SetupInv`); the exact count of every op-produced tensor
during a run (`RefCountExact` itself), zero for all others (`RcZero`); which
buffers a tensor can point to at all (`DataOf`, `InputHeld`); and for every
layer that is past, where the buffers of its outputs are and whether they are
live, the count being what keeps them so (`OpMemory`, `SubMemory`). The lemmas
before it state how the sets of uses change when an index moves on; each action
then preserves each part, and the properties follow from `IInv` alone.
Theorems: `TypeCorrect`, `CountsExact`, `MemorySafe`, `ResultsSurvive`,
`RunReleasesExactly`, and the action property `FreesOwnOnce`.

**Refinement.** `Refinement` proves `Spec => ImplementsDataflow` from the same
invariant: setup and counting are stutters, `OpRun` and `SubRun` are `Fire`,
`DeinitIn` is `Forget` or a stutter, because a count that reaches zero means
that no later layer and no caller has a use left.

**Sub-sessions.** Assumptions: those of the executor and `CaseAssumption` (the
subgraph layers of a case are those of its plan, read what
`shl_gref_update_input_output` lists, hand out what their ops make, and no
tensor is made in two of them). `SubSession` shares the executor's
actions, but when a device fails the executor's own invariant is no longer true:
outputs stay `NULL` and their buffers are missing. The proof therefore follows,
beside the true state, what the executor's state would be had every device
answered (`HealthyPc`, `HealthyData`, `HealthyHeap`). `AsIfHealthy` shows that this
mapped state is a behaviour of `GrefRun` whatever fails, so that the invariant
proved in `GrefRunProofs` holds of it and its lemmas are used again, and
`DeviceInv` says how far the true state may be from it: a result of a subgraph is
what its device made in its last turn, a copy of that, or nothing (`SubData`);
what a formal input holds is the buffer of its own outer tensor or a copy, and
live while the device works (`FormalInv`); and with reliable devices nothing is
ever missing, and the copies are counted by layer and run (`ReliableInv`). The
invariant is `DevicesInvariant`; from it follow `SubSessionTypes`, `NothingStale`,
`ConversionsCounted` and, because with reliable devices the two states agree
outside a sub-session, the refinement `ExecutorImplemented`. Together with
`Refinement` sub-sessions that answer implement the dataflow specification.
`BuiltApart` is about building, where the loops of `shl_gref_update_input_output`
and `shl_subgraph_rebuild` are folds. `SubInputsAre` says what the first computes:
every tensor that is read and not made inside, once. `Rebuilt` says what the
second does to each op: the first position of such a tensor becomes its formal
input, every other position stays. `ApartInv` follows the setup: the plans built
so far are the rebuilt ones, and the session of a tensor is that of the last
layer whose known ops were built on it (`Touched`).

**Session.** Assumptions: `ProgramAssumption` (a program is a network: results are
computed once, before they are read, into no input, and every one is read or given
back) and `RunsAssumption`. `IInv` says, while a graph is built, which tensors
have a node by now (`BuildData`) and that every op in the graph has what its
builder found (`GraphInv`, `Entry`); that a layer that has been run had a kernel
(`KernelInv`); which version every input's buffer has (`InputInv`); and that every
result of the current run is in its buffer and follows by the op's equation from
the results before it (`ResultInv`), which no later update or failure changes
because `got` is emptied by both. That setup always meets an op without a builder
(`UnbuiltIsWalked`) is an argument about the last of them: its result is given
back or read by an op that was built. `ResultsExact` compares with a recursive
definition; a function that satisfies its equation for every op is the defined
one (`WantedIs`), because two that differ would differ first at some op, whose
sources are earlier (`SolutionUnique`, with `Least` from the well-foundedness of
the natural numbers). Theorems: `SessionTypes`, `BreaksOnlySo`, `ResultsAreExact`,
and the action property `ApplicationBuffers`.

**Partitioner.** Assumption: `OpGraphAssumption` (a graph the builders can make,
every op of which has an input and every output of which is some op's result).
Three inductive invariants, each on top of the one before.

`IInv`: that an op which moves is in one layer before and after, and that
no layer is mixed, depends on the walk being a post-order: when
`shl_subgraph_fvisit_fuse` looks at the layer of an input, the producer of that
input must have one. `WalkInv` is what makes this inductive: the stack descends
along the graph (`Descends`, from `ProducersBefore`), the producers of the inputs
it has gone past were visited (`GonePast`), and a visited op that is not on the
stack has a layer (`Placed`). `Members` and `Devices` tie the two
representations, `layer[l].ops` and `subgraph_idx`, together.

`NotedInv` is about dependencies between layers, which the model computes from
what their ops read. `FeedersByOps` says the layers a layer reads from are those
of the ops its ops need, which takes two facts of every state: an op has its layer
after the ops it needs (`Laid`), and an op of the base API is alone in its layer
(`Alone`), because such a layer lists what it reads without leaving out its own.
`UpstreamReaches` says that the recursive search finds exactly what can be reached:
the set it returns is closed, and is in every closed set that has the layer
(`Reached`). All arguments about `Upstream` go by these two halves, never by its
recursion. For each way layers change (an op gets a layer of its own, joins one,
one layer takes over another, a restriction is noted) there are three lemmas:
what is read from where afterwards (`FeedersNew`, `FeedersJoin`, ...), what is
above what (`UpstreamNew`, `UpstreamJoin`, `UpstreamMerge`, `UpstreamMap`), and that
what was noted down still is (`NotedNew`, ...). The property itself is not
inductive: an op that has joined one of its inputs depends on all others, and the
loop has yet to note these down. `NotedOrOwed` says that what is missing is just
what the loop still owes for the inputs from `m` on. `RestrictionsKnown` is then
immediate. `Acyclic` follows because a layer joined or fused was not found by the
search, and a search finds all that is above when nothing is misled (`OrderableStep`).

`Sorted` is about the second walk, over layers that no longer change. The stack
holds a path upwards (`Climbs`), no layer is twice on it or in the plan (`Once`), a
layer is marked when it is on one of them (`Marks`), what a pair on the stack has
gone past was visited (`GoneUp`). A layer goes into the plan when all it reads from was
visited; none of that is still on the stack below it, or there would be a circle
(`SortedLayer`), so it is in the plan before (`InOrder`). `PlanBuilt` goes from there to
`GraphOK` conjunct by conjunct: what is read is an input, made by an op layer in
the plan before, or handed out by a subgraph before; nothing is made twice
(`MakerUnique`).

Theorems: `TypeCorrect`, `OpsInOneLayer`, `DeviceOnce`, `RestrictionsKnownHolds`,
`PlanReadyHolds`, and the action properties `EmptiedStay` and `AcyclicHolds`. With
`PlanReadyHolds` the assumption under which the executor's theorems are proved is a
theorem about the plans that setup makes, with the two premises of `PlanReady`.

**Window.** For every `DataLength` and every set of values: `TypeCorrect`,
`WindowCorrect`, `AccessesInBounds`. The strengthening says where the writer
stands (`FrontInv`, `BackInv`): inserting at the back, the window ends at it;
inserting at the front, it starts at it, except that before the first wrap it is
the lower half of the buffer and the writer is as far down as elements came in.

**FSMN.** Assumptions: `LayerAssumption` (the orders and strides fit the line,
which the kernel takes for granted) and `FramesAssumption`. `ResultCorrect` is
`ResultByDistance` for every layer and any number of frames up to the overflow.
The invariant adds that the counter is the number of frames seen as long as it
did not overflow, which is what the shift of the line depends on. With it one
step moves the whole line by one place, and the result follows from the line.
`FrozenCorrect` is about what comes then, for every layer and every width of the
counter: the counter is the number of frames modulo its range (`CounterWraps`),
and the newest place of the line holds the current frame exactly while it is
positive and past the delay.

**Vector convolutions.** Assumption: `ShapeAssumption` (tensors with elements, and the
convolutions these kernels are chosen for). `TilesStayInside` is `TilesInside` for
every shape, type of element, length of vector and packing, with rows and columns
that end the blocks anywhere. The invariant `ConvInv` says which outputs the tiles so
far have written: all of the groups before, and of this group the rows above the
block and, of the block's rows, the columns to the left (`Made`). That the running tile
writes none of them rests on `LaneInjective`: a layout puts no two elements at one
place, although the last pack is narrower where the channels do not fill it. For this
the blocks of one width have to be known, a recursion over the channels that ends at
a remainder (`BlocksAre`). `TileFits`: a block is never empty nor wider than what is
left, whatever widths a kernel knows, so that the loops end exactly at the edge.

`ConvolutionExact` is `ConvExact` for every shape: what the tiles add up is the
reference convolution, each product once. No sum has to be regrouped for it, since an
output is the function from its products to their factors, in the order it takes them;
what has to be shown is that all loops mean the same products and places. The blocks of
several widths start where going past block after block leads (`Starts`), from which
`BlocksReached` gets the recursion of the model; so from an address the packings find
back the block, channel and element that were put there (`LaneBack`, `LaneOf`,
`BlockHere`). `PackingRight` then says what the packed kernel holds at the
address the multiplication reads (`RightKernel`), `InputRead` and `MatrixRight` that
the packed image has there the pixel this product meets, whichever way the tile
reads it: `ColumnsMeet` shows that tiles narrower than the packed blocks read the same
elements. `TileCell` joins them: a tile stores for each output what is `Wanted`. The
invariant `ExactInv` adds to `ConvInv` that a kernel never packed is the original and
one packed once is right (`PackInv`), and how far a run is (`Progress`): the loops
stand at starts of blocks, of rows as of packed columns, and everything made so far is
as wanted, in the final layout for the groups that are finished (`Here`). After
the last group the outputs are all there; `FinalPlace` puts them where the layout
of all channels says, which is where the groups must fill vectors, and `Agree` maps the
products of an output one to one to the taps that fall inside the image.

**Allocator.** Assumptions: the five of `AtatMalloc` (a header is not empty, what
is split off or left of a gulp can hold one, `MinBlk >= Header` and
`Gulp >= Header`; a unit has bytes and `Word` is not 0; the limit, the sizes and the
moves of others are numbers). `HeapTiled` and `Coalesced` need each other: two
blocks that are joined make one because they do not overlap, and the search of
`Free` finds both neighbours because the list descends. `Ordered` states the descent
for any two blocks of the list. `BreakInv` is `InHeap` with `OthersBelow`: what
others got lies below the break too. Together they say that a gulp is new memory
although others moved the break (`BelowTop`), and how far an overhanging one is
not (`BreakGrown`, and `Raised` for the others' moves). Every step is an
`Exchange` of some blocks for others; `Retiled` says that the tiling is kept when
`owned` changes by what the two cover, which includes a long block given
back, and `Recut` is the case in which they cover the same; `SplicedList` and `CutList`
say that the list keeps its order. Theorems: `TypeCorrect`, `HeapAlwaysTiled`,
`HeapAlwaysInside`, `AlwaysCoalesced`. Like the properties they speak of the time
until the allocator is torn.

**Binary model.** Assumptions: `WordAssumption` and `SessionAssumption`: a name has
no zero byte (it is a C string), a tensor has a quantisation record at least
(`csinn_alloc_tensor` makes one), and the block of a session is smaller than `Word`,
because `session_dump` counts it in an `int`. The dump computes every place twice, when it
measures and when it writes. `Sum` adds up the tensors in the order of the loops, and
`Place`, `SlotOf` and `Full` say from it where a tensor, its entry in a table and the end
of the block are, the table of the outputs standing between the tensors. `RoomIs` and
`SumsAgree` show that the folds of the model have these values. `PartsInside` and
`PartsApart`: all parts are in the block and no two overlap, so that what is put
is never written over. `BlockInv` then says that every tensor put so far `Stands` at its
place with its entry leading to it; `HeadInv` which of the two offsets of the tables an
import has already turned into a pointer; `GotInv` that what has been read is what was
put (`Loaded`). A string that starts at the name of a tensor ends with the name exactly
when the byte behind it is zero (`StringIs`). Adding the address leaves an offset as it is
only when the address is zero modulo `Word` (`Remainder`). Theorems: `ImageAlwaysFilled`,
`RoundTripHolds`, `ImportsUseUp`.

Every safety invariant and action property the passing runs check is proved. Only
model-checked is `SetupReturns`, since liveness is beyond the prover. The theorems about
induction in the library take an operator as parameter, which the provers cannot
instantiate; where an induction over data is needed it is done over sets of
numbers, from the well-foundedness of the natural numbers (`Counting`, `Least`).

## What was found

* **Stale restrictions after a fusion** (`fusion_cycle`). When a subgraph is
  fused into another, `shl_subgraph_fvisit_fuse` moves its own restrictions
  (`source/graph_ref/subgraph.c:694`), but the maps of third layers still name
  the index that is now empty. The test that a comment at line 581 describes
  then misses a dependency. Five ops are enough: 1 and 2 for the NPU at the
  graph input, 3 for the CPU reading 1, 4 for the NPU reading 2 and 1, 5 for the
  NPU reading 3 and 4. Op 5 joins the subgraph of 1, 2 and 4 although the
  layer of 3 lies between: subgraph and CPU layer now depend on each other.
* **Restrictions the wrong way round** lead to the same result with nothing stale.
  When a fusion is refused, the layer of the op depends on the layer of the input
  from then on. For an input of another device the code notes that down
  (`source/graph_ref/subgraph.c:705`), for a refused one it notes the opposite,
  in the map of the input's layer (line 702). Six ops are enough: 1 for the NPU at
  the graph input, 2 for the CPU reading 1, 3 for the NPU reading 1 and 2, 4 for
  the NPU reading 2, 5 for the NPU reading 1, 3 and 4, 6 for the NPU reading 4 and
  5. Op 5 joins the subgraph of 3 and is refused those of 1 and 4, which is noted in
  their maps; op 6 joins that of 4, since nothing says that 5 comes after it. To see
  it, set `OpGraph <- mc_SixOpGraph` in MCFusionCycle.cfg. It was met when the
  proof of `Acyclic` failed with stale restrictions as its only exception: no
  five-op graph shows it.
* **A squeeze in graph mode** (`session_tests`). The reference table has a kernel
  for it and no builder (`source/reference/setup.c:380`), and the optimised tables
  do not have it. In graph mode `shl_get_p0_cb` falls through to the kernel, which
  computes while the graph is being built; the output keeps its buffer,
  `csinn_set_output` stores that as a node, and setup walks it. The program
  `tests/validation_graph/c906/squeeze.c` makes these calls.
* **Dilation on the vector backend** (`rvv_dilation`). `shl_rvv_conv2d_init_fp32`
  accepts a dilated convolution and `shl_rvv_conv_im2col_gemm_fp32` does not look
  at the dilation (`source/thead_rvv/convolution_gemm_fp32.c:88`);
  `tests/validation_layer/convolution.cpp` compares with data that have one.
  `ConvExact` says what is computed instead: the convolution without it.
* **The device test assigns** (`source/graph_ref/subgraph.c:105`,
  `params->api = CSINN_ASP`): every device but `CSINN_LIGHT` gets a sub-session
  of `CSINN_ASP`, and its first op the callbacks of that device.
* **A tensor read twice by one op** of a subgraph is replaced by its formal
  input at the first position only (`subgraph.c:849`); the op is built on the
  outer tensor. The exceptions in `SessionsApart` are this and the previous.
* **Conversion copies** of `CSINN_LIGHT` sub-sessions are never freed: one per
  formal input and output and run (`ConversionsAccumulate`).
* **Names in a binary model** are written without a terminator
  (`source/nn2/format.c:63`); a name read back runs on into the quantisation
  record unless that begins with a zero byte. A model of the reference backend
  on a graph is loaded for another backend, and an image can be imported once.
* **The FSMN counter** is 32 bits and never reset: after 2^31 - 1 frames the layer
  repeats its result for as many frames (`FrozenAfterOverflow`).
* **Eight channels on the c908.** Each `shl_c908_gemm_...` takes its rows by eight
  `if (m > 8)` and then the bits of `m % 8` (`source/c908_opt/gemm_fp16_v256.c:3219`;
  also `gemm_fp32.c:1890` and `:3219`, `gemm_fp16.c:1890` and `:3651`,
  `gemm_fp32_v256.c:1889` and `:3218`, `gemm_int8.c:4047`, `gemm_int8_v256.c:1686`).
  With exactly eight channels in a group nothing is computed and the output is
  what the memory held. Of the float convolutions only that of 16-bit elements in
  256-bit vectors gets there, all others pack eight channels; `ConvExact` says so
  (`output = <<>>`). There is no run that expects a violation, because no test or
  comment names that case.
* **Other observations on the vector kernels**, read in the code and not modelled:
  `shl_c908_gemm_8x16_int8_v256` does not advance its scales between blocks of
  rows; `shl_c908_conv_im2col_gemm_packn_fp32` allocates a buffer it neither uses
  nor frees; a c908 with vectors of another length than 128 and 256 bits computes
  nothing; `shl_rvv256_gemm_16x16_fp16` increments `m` in its loops over rows
  (`source/thead_rvv/gemm_fp16.c:823`), but nothing calls it.
* **Preconditions of the vector convolution**, conjuncts of `ConvExact` and `Accepted`
  that the code does not check. The kernel is packed in place, so it may be
  initialised once only and not be shared by two ops. Without a bias and with
  several groups `bias_data + g * m` is a pointer near NULL that is not NULL. A
  1x1 filter takes the image for the matrix it multiplies: it reads a padded image as
  if it had no padding, and one larger than the output at the wrong places. The last
  was found by the proof, the runs have no such shape. The packing is chosen
  by the channels of all groups, so in a group that does not fill a vector the
  kernel's last rows are not packed (`convolution_gemm_fp32_packn.c:56`).
* **A Winograd kernel is freed by `csinn_conv2d`** (`source/nn2/convolution.c:67`)
  and its pointer stays: in layer mode a second call needs another init. A graph is not
  affected: the executor calls the kernel function itself and does not come
  past line 64. This is read off the code; no run has it.
* **A graph output read inside its own subgraph** is not among the subgraph's
  outputs (`source/graph_ref/setup.c:782`), so nothing delivers it. `PlanReady`
  has `Delivered` as a premise for that reason. No documentation denies it, so
  there is no run for it.
* **Leaks per run**, stated exactly by `ExactRelease`: a CPU tensor that a
  subgraph also reads is never freed.
* **A failing `sbrk` loses a free block** (`source/utils/atat_malloc.c:83`):
  the variable `dropped` of `AtatMalloc`.
* **A gulp overhangs an unaligned break.** `atat_malloc.c:80` rounds the break up to
  find the place of a block, line 88 raises it from the value before the rounding.
  So up to 7 bytes of the last block are above the break, and others who move
  it next get them; a later split or gulp may even put a header there. `InHeap`
  states the extent exactly.
* **Types that are too narrow.** The amount asked of `sbrk` is cast to `int`
  (`atat_malloc.c:88`): a request of 2 GiB lowers the break or raises it by less than
  the blocks need (`torn`). The search keeps lengths in an `unsigned`
  (`atat_malloc.c:56`), so that a free block of 4 GiB or more looks short; if it
  is the highest one, it is cut to the request and its end given back to the
  system.

## Not modelled

* The arithmetic of about 150 reference operators and of their optimised
  variants. They are loops over floating-point numbers without state, and TLC
  and TLAPS have no floating-point numbers. The bulk of the repository's lines is in
  these files, in intrinsics and assembly for six processors, which repeat a
  scheme of blocks per data type and vector length. `RvvConv` models that scheme
  for the float convolutions; int8 and int4 (whose rounding is the point), the
  packed assembly of the c908, the depthwise kernels and the inside of the
  Winograd transformation are left out.
* The builders beyond what they guarantee (`BuildOK`): they differ in arity.
* Constant tensors in the executor: they have no reference count.
* Sizes, layouts and quantisation of `source/nn2/utils.c`, mostly floating point.
* The memory wrappers, which only forward to libc and keep a map for debugging.
* Debug output, profiling, benchmarks, the fixed 4096-byte header of a binary
  model, and the tests themselves.
* The vendors' NPU runtimes, which are not in the repository. `SubSession` takes
  from them one result buffer per output, replaced by the next run, or a failure.
* The allocator once it is torn (the RTOS one after its second gulp, any other after an
  amount that did not fit an `int`): its lists then depend on what the application
  writes. Others only raise the break, and do not write into the bytes that an
  overhanging block shares with them. Requests are so far from 2^64 that rounding
  them up does not overflow.

There are no threads, crashes with recovery or messages in this library, so there
is no fault model beyond failing kernels, devices, inits and `sbrk`.

## Plan

1. Done: GrefGraph, GrefRun, DataflowRun with proofs; SubgraphFuse; AsrBuffer with
   proofs; AtatMalloc.
2. Done: Session; SubSession with its refinement; BinaryModel; Fsmn with proofs;
   RvvConv.
3. Done: proofs of all safety properties of SubgraphFuse, and of `HeapTiled`, `InHeap`
   and `Coalesced` of AtatMalloc.
4. Done: proofs of SubSession, its refinement included, of Session, and of
   `FrozenAfterOverflow` of Fsmn.
5. Done: `SessionsApart`, with what the folds of rebuilding compute; BinaryModel
   for every session that fits into a block.
6. Done: the tiles of RvvConv stay inside their buffers for every shape.
7. Done: `ConvExact` for every shape.
8. Left: the integer layouts of the vector kernels and the packed ones of the c908, as
   widths of RvvConv.
