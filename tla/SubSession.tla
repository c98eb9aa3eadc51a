---------------------------- MODULE SubSession ----------------------------
(***************************************************************************)
(* A subgraph of another device, from the formal parameters that           *)
(* shl_subgraph_rebuild gives it to its runs: shl_subgraph_setup opens a   *)
(* session of its own, shl_subgraph_entry hands the outer buffers to the   *)
(* formal inputs, the device's runtime computes, shl_subgraph_return hands *)
(* the results out.  GrefRun takes all of this as one step, SubRun; this   *)
(* module takes it apart and shows that the executor cannot tell.          *)
(*                                                                         *)
(* The runtime of a device is not in the repository.  It is taken to keep  *)
(* one result buffer per output, replaced by its next run, or to fail.     *)
(***************************************************************************)
EXTENDS GrefRun, SequencesExt

CONSTANT Case   \* graphs with the subgraphs of their plans: [g, sub]

VARIABLES
  sub,       \* sub[l]: device, quantisation and ops of the l-th layer
  wired,     \* wired[l][o][j]: the tensor that op o of layer l reads at j
  sess,      \* tensor->sess, a layer, or 0 for the session of the graph
  backend,   \* backend[l][o]: whose callbacks op o of layer l was given
  settled,   \* the subgraph layers whose setup reached its end
  sl,        \* the layer index of the setup loop
  fdata,     \* tensor->data of the formal inputs
  copies,    \* buffers allocated for conversions
  before,    \* history: the data of the layer's outputs before its entry
  reliable   \* the devices of this session never fail

sv == <<sub, wired, sess, backend, settled, sl, fdata, copies, before, reliable>>
ssvars == <<vars, sv>>

(* A conversion copy: of the k-th input of layer l, or of an output.        *)
InCopy(l, k, r) == <<"incopy", <<l, k>>, r>>
OutCopy(t, r)   == <<"outcopy", t, r>>

(* What an op may read: the k-th formal input of layer l, or a tensor of    *)
(* the graph.                                                               *)
Formal(l, k) == <<"formal", l, k>>
Outer(t)     == <<"outer", t, 0>>
Outers(s)    == [p \in DOMAIN s |-> Outer(s[p])]

Layers      == 1 .. Len(g.plan)
SubLayers   == {l \in Layers : g.plan[l].op = SubGraph}
SubOutputs  == UNION {Elems(g.plan[l].out) : l \in SubLayers}
Inside(ops) == UNION {Elems(ops[o].out) : o \in DOMAIN ops}
-----------------------------------------------------------------------------
(* shl_gref_update_input_output: what a subgraph reads from outside, each   *)
(* tensor once, in the order of its first use.                              *)
SubInputs(ops) ==
  FoldLeft(LAMBDA s, t : IF t \in Inside(ops) \cup Elems(s) THEN s ELSE Append(s, t),
           <<>>, FoldLeft(LAMBDA s, op : s \o op.in, <<>>, ops))

ASSUME CaseAssumption ==
  \A c \in Case :
    /\ c.g \in Graph
    /\ DOMAIN c.sub = {l \in 1 .. Len(c.g.plan) : c.g.plan[l].op = SubGraph}
    /\ \A l \in DOMAIN c.sub :
         /\ c.sub[l].ops \in Seq([in : Seq(Tensor), out : Seq(Tensor), known : BOOLEAN])
         /\ c.g.plan[l].in = SubInputs(c.sub[l].ops)
         /\ Elems(c.g.plan[l].out) \subseteq Inside(c.sub[l].ops)
         /\ \A k \in DOMAIN c.sub \ {l} : Inside(c.sub[l].ops) \cap Inside(c.sub[k].ops) = {}

(* shl_node_find: the first position of t, 0 for none.                      *)
NodeFind(s, t) ==
  IF t \in Elems(s) THEN CHOOSE p \in DOMAIN s : s[p] = t /\ \A q \in 1 .. p - 1 : s[q] # t
  ELSE 0

(* Mutant: all positions are searched. *)
MutReplace(ins, t, f) == [p \in DOMAIN ins |-> IF ins[p] = t THEN f ELSE ins[p]]

(* One op of shl_subgraph_rebuild's inner loop: the formal input f takes    *)
(* the place of t at the position that shl_node_find returns.               *)
Replace(ins, t, f) ==
  LET p == NodeFind(ins, t) IN IF p = 0 THEN ins ELSE [ins EXCEPT ![p] = f]

(* shl_subgraph_rebuild for the l-th layer: one input after the other, in   *)
(* every op.                                                                *)
Rebuild(l, ops) ==
  LET inputs == SubInputs(ops) IN
  [o \in DOMAIN ops |->
     FoldLeft(LAMBDA ins, k : Replace(ins, Outer(inputs[k]), Formal(l, k)),
              Outers(ops[o].in), [k \in DOMAIN inputs |-> k])]

SSInit ==
  /\ Init
  /\ \E c \in Case : g = c.g /\ sub = c.sub
  /\ wired = [l \in DOMAIN sub |-> [o \in DOMAIN sub[l].ops |-> Outers(sub[l].ops[o].in)]]
  /\ sess = [t \in Tensor |-> 0]
  /\ backend = [l \in DOMAIN sub |-> <<>>]
  /\ settled = {} /\ sl = 0
  /\ fdata = [f \in UNION {{<<l, k>> : k \in DOMAIN g.plan[l].in} : l \in DOMAIN sub} |->
                NoBuffer]
  /\ copies = {}
  /\ before = [t \in Tensor |-> NoBuffer]
  /\ reliable \in BOOLEAN
  /\ reliable => \A l \in DOMAIN sub : \A o \in DOMAIN sub[l].ops : sub[l].ops[o].known
-----------------------------------------------------------------------------
(* shl_gref_session_setup counts, and convert_graph makes the plan.         *)
Count == (CountIn \/ CountOut \/ CountGraphOutput) /\ UNCHANGED sv

ConvertGraph ==
  /\ pc = "count" /\ i > Len(g.ops) /\ j > Len(g.output)
  /\ pc' = "setup" /\ sl' = 1
  /\ wired' = [l \in DOMAIN sub |-> Rebuild(l, sub[l].ops)]
  /\ UNCHANGED <<g, i, j, rcInit, rc, data, heap, run, sub, sess, backend, settled,
                 fdata, copies, before, reliable>>

(* The callbacks that shl_op_callback_map finds for the ops: set_sub_session *)
(* assigns CSINN_ASP to the api of the first op (it means to compare) unless *)
(* the device is CSINN_LIGHT.                                                *)
Backend(l, o) == IF o = 1 /\ sub[l].dev # "light" THEN "asp" ELSE sub[l].dev

(* How far shl_subgraph_setup gets: it returns at an op its switch lacks.   *)
Reached(l) == {o \in DOMAIN sub[l].ops : \A p \in 1 .. o - 1 : sub[l].ops[p].known}
Known(l)   == {o \in Reached(l) : sub[l].ops[o].known}

(* The tensors of the graph the builders of layer l are called with, whose  *)
(* sess becomes the sub-session; formal inputs have tensors of their own.   *)
Touched(l) ==
  {t \in Tensor : \E o \in Known(l) :
      Outer(t) \in Elems(wired[l][o]) \/ t \in Elems(sub[l].ops[o].out)}

(* shl_subgraph_setup, or init_op for a layer of the CPU. *)
SetupLayer ==
  /\ pc = "setup" /\ sl <= Len(g.plan)
  /\ sl' = sl + 1
  /\ IF sl \in SubLayers
       THEN /\ sess' = [t \in Tensor |-> IF t \in Touched(sl) THEN sl ELSE sess[t]]
            /\ backend' = [backend EXCEPT ![sl] =
                             [o \in 1 .. Cardinality(Reached(sl)) |-> Backend(sl, o)]]
            /\ settled' = IF Known(sl) = DOMAIN sub[sl].ops THEN settled \cup {sl} ELSE settled
       ELSE UNCHANGED <<sess, backend, settled>>
  /\ UNCHANGED <<vars, sub, wired, fdata, copies, before, reliable>>

SetupReturn ==
  /\ pc = "setup" /\ sl > Len(g.plan)
  /\ pc' = "idle"
  /\ UNCHANGED <<g, i, j, rcInit, rc, data, heap, run, sv>>
-----------------------------------------------------------------------------
(* The layers of the CPU run as in GrefRun; a kernel that is handed NULL    *)
(* stops the program.                                                       *)
Begin == (SessionRun \/ DeinitIn \/ DeinitOut \/ RunDone) /\ UNCHANGED sv

CpuRun ==
  /\ pc = "layer" /\ i \in OpLayers(g)
  /\ IF \E t \in Elems(g.plan[i].in) : data[t] = NoBuffer
       THEN pc' = "crashed" /\ UNCHANGED <<g, i, j, rcInit, rc, data, heap, run>>
       ELSE OpRun
  /\ UNCHANGED sv

(* Whether the data of a tensor is converted on its way in or out.          *)
Converts(l) == l \in DOMAIN sub /\ sub[l].dev = "light" /\ sub[l].quant \in {"int8", "int16"}

(* Mutant: the formal inputs are set by the first run only. *)
MutFormalData(f) ==
  IF f[1] # i \/ fdata[f] # NoBuffer THEN fdata[f]
  ELSE IF Converts(i) THEN InCopy(i, f[2], run)
  ELSE data[g.plan[i].in[f[2]]]

(* Mutant: the inputs are handed over last to first. *)
MutFormalOrder(f) ==
  IF f[1] # i THEN fdata[f]
  ELSE IF Converts(i) THEN InCopy(i, f[2], run)
  ELSE data[g.plan[i].in[Len(g.plan[i].in) + 1 - f[2]]]

(* A formal input aliases the outer buffer or gets a converted copy, which  *)
(* nothing frees.                                                           *)
FormalData(f) ==
  IF f[1] # i THEN fdata[f]
  ELSE IF Converts(i) THEN InCopy(i, f[2], run)
  ELSE data[g.plan[i].in[f[2]]]

(* shl_subgraph_entry: every formal input, then the outputs are cleared.    *)
SubEntry ==
  /\ pc = "layer" /\ i \in SubLayers
  /\ fdata' = [f \in DOMAIN fdata |-> FormalData(f)]
  /\ copies' = copies \cup {b \in {FormalData(f) : f \in DOMAIN fdata} : b[1] = "incopy"}
  /\ data' = [t \in Tensor |-> IF t \in Elems(g.plan[i].out) THEN NoBuffer ELSE data[t]]
  /\ before' = data
  /\ pc' = IF Converts(i) /\ \E t \in Elems(g.plan[i].in) : data[t] = NoBuffer
             THEN "crashed" ELSE "inner"
  /\ UNCHANGED <<g, i, j, rcInit, rc, heap, run, sub, wired, sess, backend, settled, sl,
                 reliable>>

(* shl_subgraph_run up to csinn_get_output.  The device may fail; the       *)
(* result of csinn_session_run is dropped and the outputs stay NULL.  A     *)
(* session whose setup did not reach its end has no array of outputs for    *)
(* csinn_get_output to read.                                                *)
InnerRun(ok) ==
  LET outs == Elems(g.plan[i].out) IN
  /\ pc = "inner"
  /\ ok => i \in settled /\ \A f \in DOMAIN fdata : f[1] = i => fdata[f] # NoBuffer
  /\ reliable => ok
  /\ IF ok
       THEN /\ heap' = (heap \ {Sub(t, r) : t \in outs, r \in 0 .. run}) \cup
                       {Sub(t, run) : t \in outs}
            /\ data' = [t \in Tensor |-> IF t \in outs THEN Sub(t, run) ELSE data[t]]
       ELSE UNCHANGED <<heap, data>>
  /\ pc' = IF i \in settled THEN "return" ELSE "crashed"
  /\ UNCHANGED <<g, i, j, rcInit, rc, run, sv>>

(* Mutant: the decision to convert looks at the device of the layer, and    *)
(* the copy is not handed out.                                              *)
MutSubReturn ==
  /\ pc = "return"
  /\ copies' = copies \cup {OutCopy(t, run) : t \in {u \in Elems(g.plan[i].out) : Converts(sess[u])}}
  /\ data' = [t \in Tensor |->
                IF t \in Elems(g.plan[i].out) /\ Converts(sess[t]) THEN before[t] ELSE data[t]]
  /\ pc' = "layer" /\ i' = i + 1
  /\ UNCHANGED <<g, j, rcInit, rc, heap, run, sub, wired, sess, backend, settled, sl,
                 fdata, before, reliable>>

(* shl_subgraph_return: results of a session that converts are copied; both *)
(* sides are the same tensor, and the copy is never freed.                  *)
SubReturn ==
  LET outs == {t \in Elems(g.plan[i].out) : Converts(sess[t])} IN
  /\ pc = "return"
  /\ IF \E t \in outs : data[t] = NoBuffer
       THEN pc' = "crashed" /\ UNCHANGED <<i, data, copies>>
       ELSE /\ pc' = "layer" /\ i' = i + 1
            /\ data' = [t \in Tensor |-> IF t \in outs THEN OutCopy(t, run) ELSE data[t]]
            /\ copies' = copies \cup {OutCopy(t, run) : t \in outs}
  /\ UNCHANGED <<g, j, rcInit, rc, heap, run, sub, wired, sess, backend, settled, sl,
                 fdata, before, reliable>>

SSApplication == Application /\ UNCHANGED sv

SSNext ==
  \/ Count \/ ConvertGraph \/ SetupLayer \/ SetupReturn
  \/ SSApplication \/ Begin \/ CpuRun
  \/ SubEntry \/ SubReturn \/ \E ok \in BOOLEAN : InnerRun(ok)

SSSpec == SSInit /\ [][SSNext]_ssvars
-----------------------------------------------------------------------------
Live(b) == b \in heap \cup copies

SSTypeOK ==
  /\ pc \in {"count", "setup", "idle", "layer", "deinit", "inner", "return", "crashed"}
  /\ sess \in [Tensor -> {0} \cup SubLayers]
  /\ settled \subseteq SubLayers
  /\ sl \in 0 .. Len(g.plan) + 1
  /\ \A t \in Tensor : data[t] = NoBuffer \/ data[t][2] = t
  /\ \A f \in DOMAIN fdata :
       fdata[f] # NoBuffer =>
         fdata[f][2] = IF fdata[f][1] = "incopy" THEN f ELSE g.plan[f[1]].in[f[2]]

(* The positions of op o in layer l that read a tensor from outside a       *)
(* second time.                                                             *)
Again(l, o) ==
  LET ins == sub[l].ops[o].in IN
  {p \in DOMAIN ins : ins[p] \notin Inside(sub[l].ops) /\ \E q \in 1 .. p - 1 : ins[q] = ins[p]}

ReadsAgain(l, t) == \E o \in Known(l) : \E p \in Again(l, o) : sub[l].ops[o].in[p] = t

(* After setup, the builders of a sub-session were called with tensors of   *)
(* that subgraph alone, and with callbacks of its own device, with two      *)
(* exceptions, which the code has: shl_node_find replaces only the first    *)
(* position of a tensor, so an op that reads it twice is built on the outer *)
(* tensor, whose session is then another (and decides about conversions at  *)
(* its producer's return); and the first op of a device that is neither     *)
(* CSINN_LIGHT nor CSINN_ASP gets the callbacks of CSINN_ASP.               *)
SessionsApart ==
  pc \in {"idle", "layer"} =>
    \A l \in SubLayers :
      /\ \A o \in DOMAIN sub[l].ops : \A p \in DOMAIN sub[l].ops[o].in :
           wired[l][o][p] \in {Outer(t) : t \in Tensor \ Inside(sub[l].ops)} <=>
             p \in Again(l, o)
      /\ \A t \in Elems(g.plan[l].out) : l \in settled =>
           (sess[t] = l <=> \A m \in SubLayers : m > l => ~ReadsAgain(m, t))
      /\ \A o \in DOMAIN backend[l] :
           backend[l][o] = sub[l].dev <=> (o > 1 \/ sub[l].dev \in {"light", "asp"})

(* Whatever fails, nothing computes on data of an earlier run or on freed   *)
(* memory: the outputs of a failing sub-session are NULL because            *)
(* shl_subgraph_entry clears them, and a formal input is set anew by each   *)
(* entry, although its buffer was freed in between.                         *)
NeverStale ==
  /\ pc = "layer" /\ i <= Len(g.plan) =>
       \A t \in Elems(g.plan[i].in) :
         data[t] = NoBuffer \/ (Live(data[t]) /\ data[t][3] = run)
  /\ pc = "inner" =>
       \A f \in DOMAIN fdata : f[1] = i =>
         fdata[f] = NoBuffer \/ (Live(fdata[f]) /\ fdata[f][3] = run)

(* Conversions cost a buffer per formal input and per output in every run,  *)
(* and they are all that sub-sessions leave behind: when a run is over, the *)
(* live buffers of subgraphs are the results of this run and those copies.  *)
ConversionsAccumulate ==
  pc = "idle" /\ reliable =>
    /\ copies =
         {InCopy(f[1], f[2], r) : f \in {h \in DOMAIN fdata : Converts(h[1])}, r \in 1 .. run}
         \cup {OutCopy(t, r) : t \in {u \in SubOutputs : Converts(sess[u])}, r \in 1 .. run}
    /\ \A b \in heap : b[1] = "sub" => b[3] = run

(* The executor cannot tell a sub-session from the single step SubRun, as   *)
(* long as devices do not fail: while a layer's session runs, it sees the   *)
(* outputs as they were, and a converted copy is like any result.           *)
InFlight == pc \in {"inner", "return"}
Seen(b)  == IF b[1] = "outcopy" THEN Sub(b[2], b[3]) ELSE b
SeenData == [t \in Tensor |->
               Seen(IF InFlight /\ t \in Elems(g.plan[i].out) THEN before[t] ELSE data[t])]
SeenHeap == {b \in heap : b[1] # "sub"} \cup
            {SeenData[t] : t \in {u \in Tensor : SeenData[u][1] = "sub"}}
SeenPc   == IF InFlight THEN "layer" ELSE IF pc = "setup" THEN "count" ELSE pc

Unless(x, y) == IF reliable THEN x ELSE y   \* y: the initial state, for ever

Executor == INSTANCE GrefRun WITH
  pc <- Unless(SeenPc, "count"), i <- Unless(i, 1), j <- Unless(j, 1),
  rcInit <- Unless(rcInit, [t \in Tensor |-> 0]), rc <- Unless(rc, [t \in Tensor |-> 0]),
  data <- Unless(SeenData, [t \in Tensor |-> NoBuffer]), heap <- Unless(SeenHeap, {}),
  run <- Unless(run, 0)

ImplementsExecutor == Executor!Spec
=============================================================================
