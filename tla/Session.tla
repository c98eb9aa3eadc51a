------------------------------ MODULE Session ------------------------------
(***************************************************************************)
(* The session API (source/nn2/setup.c) and the dispatch behind it.  Every *)
(* call finds its function in a table: the runtime table for the calls on  *)
(* the session, the operator table of the backend for the calls of an      *)
(* operator, which either computes at once (layer mode) or appends to the  *)
(* graph (graph mode).  tensor->data is the caller's buffer at first, a    *)
(* node of the graph while it is built, and a buffer again when it runs;   *)
(* nothing in the code records which.                                      *)
(*                                                                         *)
(* A program is what the application does with one session: its operators  *)
(* in order, each of a kind that stands for what the tables hold for its   *)
(* operator and data type.  All operators are of the session's backend, so *)
(* the plan is the graph as built; buffers are freed in GrefRun only.      *)
(***************************************************************************)
EXTENDS Naturals, Sequences, FiniteSets, Functions

CONSTANTS Tensor,    \* the tensors of the application
          Program,   \* what the application may do with the session
          MaxRuns    \* bound: csinn_session_run, csinn_update_* between runs

VARIABLES
  prog,      \* the program: [api, mode, ops, input, output]
  mode,      \* sess->base_run_mode
  cb,        \* params->cb of every operator
  data,      \* tensor->data
  mem,       \* contents of the buffers that exist
  nIn, nOp, nOut,  \* how far the application is with inputs, calls, outputs
  graph,     \* the operators the builders appended, with their nodes
  gout,      \* graph->output
  phase,     \* "open", "build", "ready", "running", "crashed", "closed"
  i,         \* the layer index of shl_gref_session_run
  run,       \* calls of csinn_session_run
  given,     \* the version of every input that was handed over last, 0: none
  bad,       \* the operators whose kernel reported a failure in this run
  got        \* what csinn_get_output gave since the last run or update

appl == <<prog, nIn, nOp, nOut>>
vars == <<prog, mode, cb, data, mem, nIn, nOp, nOut, graph, gout, phase, i, run,
          given, bad, got>>

(* Values of tensor->data. *)
Node(t)    == <<"node", t, 0>>     \* shl_node_var_alloc
User(t, v) == <<"user", t, v>>     \* a buffer of the application
Own(t, r)  == <<"own", t, r>>      \* op_run_init

(* A buffer holds what it was computed from: versions of inputs, or junk.   *)
Junk == {<<"junk", 0>>}
Read(t) == IF data[t] \in DOMAIN mem THEN mem[data[t]] ELSE Junk
Computed(ts) == UNION {Read(t) : t \in ts}

Ins(o)  == Range(prog.ops[o].in)
Out(o)  == prog.ops[o].out
Kind(o) == prog.ops[o].kind
Ops     == 1 .. Len(prog.ops)
-----------------------------------------------------------------------------
(* The operator tables.  An entry says which of the three callbacks it has. *)
Cb(est, init, exec) == [est |-> est, init |-> init, exec |-> exec]
NoCb == Cb(FALSE, FALSE, FALSE)

(* source/reference/setup.c: kernels for some data types ("odd" is none of  *)
(* them), builders for every data type, none for operators like squeeze.    *)
RefTable ==
  [conv |-> Cb(TRUE, FALSE, TRUE), plain |-> Cb(TRUE, FALSE, TRUE),
   squeeze |-> Cb(FALSE, FALSE, TRUE), odd |-> Cb(TRUE, FALSE, FALSE),
   foreign |-> Cb(FALSE, FALSE, TRUE)]

(* source/graph_ref/setup.c: builders only; "foreign" operators have none.  *)
GrefTable ==
  [k \in DOMAIN RefTable |-> Cb(k # "foreign", FALSE, FALSE)]

(* The table of an optimised backend: its convolutions get their kernel     *)
(* from the init function.                                                  *)
OptTable == [conv |-> Cb(TRUE, TRUE, FALSE)]

(* shl_cb_map_rvv: what the backend does not have is looked up in the       *)
(* reference table.                                                         *)
CbMapOpt(kind) ==
  IF kind \in DOMAIN OptTable
       /\ (OptTable[kind].est \/ (OptTable[kind].init /\ OptTable[kind].exec))
    THEN OptTable[kind] ELSE RefTable[kind]

(* shl_op_callback_map: in graph mode a session on the reference backend    *)
(* takes the builders of GREF.                                              *)
OpCallbackMap(m, kind) ==
  IF m = "graph" /\ prog.api = "ref" THEN GrefTable[kind]
  ELSE IF prog.api = "ref" THEN RefTable[kind]
  ELSE CbMapOpt(kind)

(* Mutant: computing comes before building. *)
MutP0Cb(m, c) ==
  IF c.exec THEN "exec" ELSE IF m = "graph" /\ c.est THEN "est" ELSE "unset"

(* shl_get_p0_cb: establish the graph or compute directly. *)
P0Cb(m, c) ==
  IF m = "layer" THEN (IF c.exec THEN "exec" ELSE "unset")
  ELSE IF c.est THEN "est" ELSE IF c.exec THEN "exec" ELSE "unset"

(* shl_get_runtime_callback, with the tables shl_init leaves behind: the    *)
(* runtime that setup_cb_map registers for the reference backend is reset   *)
(* to NULL by shl_target_init_ref right after.                              *)
RuntimeTable == [ref |-> "none", opt |-> "gref", gref |-> "gref"]
Runtime == RuntimeTable[IF mode = "graph" /\ prog.api = "ref" THEN "gref" ELSE prog.api]
-----------------------------------------------------------------------------
(* A program is a network: every operator reads inputs and results of       *)
(* earlier ones, every result is computed once, into no input, and is read  *)
(* by an operator or given back.                                            *)
IsProgram(p) ==
  /\ p.api \in {"ref", "opt"} /\ p.mode \in {"layer", "graph"}
  /\ p.ops \in Seq([in : Seq(Tensor), out : Tensor, kind : DOMAIN RefTable])
  /\ p.input \in Seq(Tensor) /\ p.output \in Seq(Tensor) \ {<<>>}
  /\ \A o \in DOMAIN p.ops :
       /\ p.ops[o].out \notin Range(p.input)
       /\ \A q \in DOMAIN p.ops : p.ops[q].out = p.ops[o].out => q = o
       /\ \A t \in Range(p.ops[o].in) :
            t \in Range(p.input) \/ \E q \in 1 .. o - 1 : p.ops[q].out = t
       /\ \/ p.ops[o].out \in Range(p.output)
          \/ \E q \in DOMAIN p.ops : p.ops[o].out \in Range(p.ops[q].in)
  /\ \A t \in Range(p.output) : \E o \in DOMAIN p.ops : p.ops[o].out = t

ASSUME ProgramAssumption == \A p \in Program : IsProgram(p)
ASSUME RunsAssumption    == MaxRuns \in Nat

Init ==
  /\ prog \in Program
  /\ mode = prog.mode
  /\ cb = [o \in Ops |-> NoCb]
  /\ data = [t \in Tensor |-> User(t, 0)]
  /\ mem = [b \in {User(t, 0) : t \in Tensor} |->
              IF b[2] \in Range(prog.input) THEN {<<b[2], 0>>} ELSE Junk]
  /\ nIn = 0 /\ nOp = 0 /\ nOut = 0
  /\ graph = <<>> /\ gout = <<>>
  /\ phase = "open"
  /\ i = 1 /\ run = 0
  /\ given = [t \in Tensor |-> 0]
  /\ bad = {}
  /\ got = [k \in DOMAIN prog.output |-> {}]

(* csinn_session_init with csinn_set_input_number, csinn_set_output_number: *)
(* an empty graph, whichever mode the session is in.                        *)
SessionInit ==
  /\ phase = "open"
  /\ phase' = "build"
  /\ UNCHANGED <<appl, mode, cb, data, mem, graph, gout, i, run, given, bad, got>>

(* Mutant: every input is entered under the node of the first. *)
MutSetInput ==
  /\ phase = "build" /\ mode = "graph" /\ nIn < Len(prog.input)
  /\ nIn' = nIn + 1
  /\ data' = IF Runtime = "gref"
               THEN [data EXCEPT ![prog.input[nIn + 1]] = Node(prog.input[1])]
               ELSE data
  /\ UNCHANGED <<prog, nOp, nOut, mode, cb, mem, graph, gout, phase, i, run, given,
                 bad, got>>

(* csinn_set_tensor_entry and csinn_set_input of the next input. *)
SetInput ==
  /\ phase = "build" /\ mode = "graph" /\ nIn < Len(prog.input)
  /\ nIn' = nIn + 1
  /\ data' = IF Runtime = "gref"
               THEN [data EXCEPT ![prog.input[nIn + 1]] = Node(prog.input[nIn + 1])]
               ELSE data
  /\ UNCHANGED <<prog, nOp, nOut, mode, cb, mem, graph, gout, phase, i, run, given,
                 bad, got>>

(* The init function of a kernel, where the table has one: it selects the   *)
(* kernel, or fails and leaves the entry as it was.                         *)
AfterInit(c, ok) == IF c.init /\ ok THEN [c EXCEPT !.exec = TRUE] ELSE c

(* csinn_<op>_init and csinn_<op>, which drop the results of both callbacks.*)
OpCall(ok) ==
  LET o == nOp + 1
      c == OpCallbackMap(mode, Kind(o))
      c2 == IF mode = "layer" THEN AfterInit(c, ok) ELSE c
  IN
  /\ phase = "build" /\ nOp < Len(prog.ops)
  /\ mode = "graph" => Ins(o) \cap Range(prog.input) \subseteq {prog.input[k] : k \in 1 .. nIn}
  /\ nOp' = o
  /\ cb' = [cb EXCEPT ![o] = c2]
  /\ CASE P0Cb(mode, c2) = "est" ->
            /\ graph' = Append(graph, [op |-> o, in |-> [k \in DOMAIN prog.ops[o].in |->
                                                         data[prog.ops[o].in[k]]]])
            /\ data' = [data EXCEPT ![Out(o)] = Node(Out(o))]
            /\ UNCHANGED mem
       [] P0Cb(mode, c2) = "exec" ->
            /\ mem' = [mem EXCEPT ![data[Out(o)]] = Computed(Ins(o))]
            /\ UNCHANGED <<graph, data>>
       [] OTHER -> UNCHANGED <<graph, data, mem>>
  /\ UNCHANGED <<prog, nIn, nOut, mode, gout, phase, i, run, given, bad, got>>

(* csinn_set_output: the node is taken from tensor->data. *)
SetOutput ==
  /\ phase = "build" /\ mode = "graph" /\ nOp = Len(prog.ops) /\ nOut < Len(prog.output)
  /\ nOut' = nOut + 1
  /\ gout' = Append(gout, data[prog.output[nOut + 1]])
  /\ UNCHANGED <<prog, nIn, nOp, mode, cb, data, mem, graph, phase, i, run, given,
                 bad, got>>

(* What the walks of shl_gref_session_setup dereference as nodes. *)
WalkedNodes == Range(gout) \cup UNION {Range(graph[k].in) : k \in DOMAIN graph}

(* init_op: the table is asked again, in layer mode, and the result of the  *)
(* init function is dropped; a failure leaves the mode behind.              *)
InitOp(o, ok) == AfterInit(OpCallbackMap("layer", Kind(o)), ok)

(* csinn_session_setup; a pointer to a buffer in place of a node is         *)
(* undefined behaviour.  "failed" are the inits that report a failure.      *)
SessionSetup(failed) ==
  /\ phase = "build" /\ mode = "graph" /\ nOut = Len(prog.output)
  /\ \A o \in failed : OpCallbackMap("layer", Kind(o)).init
  /\ IF \E p \in WalkedNodes : p[1] # "node"
       THEN phase' = "crashed" /\ UNCHANGED <<cb, mode>>
       ELSE /\ phase' = "ready"
            /\ cb' = [o \in Ops |-> InitOp(o, o \notin failed)]
            /\ mode' = IF failed = {} THEN mode ELSE "layer"
  /\ UNCHANGED <<appl, data, mem, graph, gout, i, run, given, bad, got>>

(* Mutant: the input is taken over only while it is still a node. *)
MutUpdateInput(k) ==
  LET t == prog.input[k] IN
  /\ phase = "ready" /\ given[t] <= run /\ run < MaxRuns
  /\ given' = [given EXCEPT ![t] = run + 1]
  /\ mem' = [b \in DOMAIN mem \cup {User(t, run + 1)} |->
               IF b = User(t, run + 1) THEN {<<t, run + 1>>} ELSE mem[b]]
  /\ data' = IF data[t] = Node(t) THEN [data EXCEPT ![t] = User(t, run + 1)] ELSE data
  /\ got' = [o \in DOMAIN prog.output |-> {}]
  /\ UNCHANGED <<appl, mode, cb, graph, gout, phase, i, run, bad>>

(* csinn_update_input, once before each run; the application may leave it   *)
(* out.  Session and graph refer to the same tensor.                        *)
UpdateInput(k) ==
  LET t == prog.input[k] IN
  /\ phase = "ready" /\ given[t] <= run /\ run < MaxRuns
  /\ given' = [given EXCEPT ![t] = run + 1]
  /\ mem' = [b \in DOMAIN mem \cup {User(t, run + 1)} |->
               IF b = User(t, run + 1) THEN {<<t, run + 1>>} ELSE mem[b]]
  /\ data' = [data EXCEPT ![t] = User(t, run + 1)]
  /\ got' = [o \in DOMAIN prog.output |-> {}]
  /\ UNCHANGED <<appl, mode, cb, graph, gout, phase, i, run, bad>>

(* csinn_update_output: the application offers a buffer for a result. *)
UpdateOutput(k) ==
  LET t == prog.output[k] IN
  /\ phase = "ready" /\ run < MaxRuns /\ User(t, run + 1) \notin DOMAIN mem
  /\ mem' = [b \in DOMAIN mem \cup {User(t, run + 1)} |->
               IF b = User(t, run + 1) THEN Junk ELSE mem[b]]
  /\ data' = [data EXCEPT ![t] = User(t, run + 1)]
  /\ UNCHANGED <<appl, mode, cb, graph, gout, phase, i, run, given, bad, got>>

(* csinn_session_run of a session that was set up. *)
SessionRun ==
  /\ phase = "ready" /\ run < MaxRuns
  /\ IF Runtime = "gref" THEN phase' = "running" /\ run' = run + 1 /\ bad' = {}
                         ELSE UNCHANGED <<phase, run, bad>>
  /\ i' = 1
  /\ got' = [k \in DOMAIN prog.output |-> {}]
  /\ UNCHANGED <<appl, mode, cb, data, mem, graph, gout, given>>

(* Mutant: an output that already points to a buffer keeps it. *)
MutLayerRun(ok) ==
  LET o == graph[i].op IN
  /\ phase = "running" /\ i <= Len(graph)
  /\ IF ~cb[o].exec
       THEN phase' = "crashed" /\ UNCHANGED <<data, mem, bad, i>>
       ELSE LET b == IF data[Out(o)][1] = "user" THEN data[Out(o)] ELSE Own(Out(o), run) IN
            /\ data' = [data EXCEPT ![Out(o)] = b]
            /\ mem' = [c \in DOMAIN mem \cup {b} |->
                         IF c # b THEN mem[c]
                         ELSE IF ok THEN Computed(Ins(o)) ELSE Junk]
            /\ bad' = IF ok THEN bad ELSE bad \cup {o}
            /\ i' = i + 1
            /\ UNCHANGED phase
  /\ UNCHANGED <<appl, mode, cb, graph, gout, run, given, got>>

(* One layer of shl_gref_session_run: op_run_init gives the output a fresh  *)
(* buffer, op_run calls the kernel and drops its result; calling a kernel   *)
(* that is not there is undefined behaviour.                                *)
LayerRun(ok) ==
  LET o == graph[i].op
      b == Own(Out(o), run)
  IN
  /\ phase = "running" /\ i <= Len(graph)
  /\ IF ~cb[o].exec
       THEN phase' = "crashed" /\ UNCHANGED <<data, mem, bad, i>>
       ELSE /\ data' = [data EXCEPT ![Out(o)] = b]
            /\ mem' = [c \in DOMAIN mem \cup {b} |->
                         IF c # b THEN mem[c]
                         ELSE IF ok THEN Computed(Ins(o)) ELSE Junk]
            /\ bad' = IF ok THEN bad ELSE bad \cup {o}
            /\ i' = i + 1
            /\ UNCHANGED phase
  /\ UNCHANGED <<appl, mode, cb, graph, gout, run, given, got>>

RunDone ==
  /\ phase = "running" /\ i > Len(graph)
  /\ phase' = "ready"
  /\ UNCHANGED <<appl, mode, cb, data, mem, graph, gout, i, run, given, bad, got>>

(* csinn_get_output after a run, before anything is handed over for the     *)
(* next one.                                                                *)
GetOutput(k) ==
  /\ phase = "ready" /\ run > 0 /\ \A t \in Tensor : given[t] <= run
  /\ data[prog.output[k]][1] # "user"
  /\ got' = [got EXCEPT ![k] = Read(prog.output[k])]
  /\ UNCHANGED <<appl, mode, cb, data, mem, graph, gout, phase, i, run, given, bad>>

(* csinn_session_deinit and csinn_free_session. *)
SessionDeinit ==
  /\ phase = "ready" \/ (phase = "build" /\ mode = "layer" /\ nOp = Len(prog.ops))
  /\ phase' = "closed"
  /\ UNCHANGED <<appl, mode, cb, data, mem, graph, gout, i, run, given, bad, got>>

Next ==
  \/ SessionInit \/ SetInput \/ SetOutput \/ SessionRun \/ RunDone \/ SessionDeinit
  \/ \E ok \in BOOLEAN : OpCall(ok) \/ LayerRun(ok)
  \/ \E failed \in SUBSET Ops : SessionSetup(failed)
  \/ \E k \in DOMAIN prog.input : UpdateInput(k)
  \/ \E k \in DOMAIN prog.output : UpdateOutput(k) \/ GetOutput(k)

Spec == Init /\ [][Next]_vars
-----------------------------------------------------------------------------
TypeOK ==
  /\ prog \in Program
  /\ mode \in {"layer", "graph"}
  /\ cb \in [Ops -> [est : BOOLEAN, init : BOOLEAN, exec : BOOLEAN]]
  /\ DOMAIN mem \subseteq {"user", "own"} \X Tensor \X (0 .. MaxRuns)
  /\ \A t \in Tensor : data[t] \in DOMAIN mem \cup {Node(t)}
  /\ nIn \in 0 .. Len(prog.input) /\ nOp \in 0 .. Len(prog.ops)
  /\ nOut \in 0 .. Len(prog.output)
  /\ phase \in {"open", "build", "ready", "running", "crashed", "closed"}
  /\ i \in 1 .. Len(graph) + 1 /\ run \in 0 .. MaxRuns
  /\ given \in [Tensor -> 0 .. MaxRuns] /\ bad \subseteq Ops

(* The operator a tensor comes from. *)
Producer(t) == {o \in Ops : Out(o) = t}

(* What an operator's result should be: computed from the inputs handed     *)
(* over last, and junk where a kernel failed on the way or an input was     *)
(* never handed over.  "version" is the one of an input, "failing" the      *)
(* operators without a result.                                              *)
Wanted(version, failing) ==
  LET val[o \in Ops] ==
        IF o \in failing THEN Junk
        ELSE UNION {IF Producer(t) = {} THEN version[t]
                    ELSE val[CHOOSE p \in Producer(t) : TRUE] : t \in Ins(o)}
  IN  val

GivenVersion == [t \in Tensor |-> IF given[t] = 0 THEN Junk ELSE {<<t, given[t]>>}]
FirstVersion == [t \in Tensor |-> {<<t, 0>>}]

(* What the application reads is the result of the inputs it handed over    *)
(* last, whatever the order of its csinn_update_* calls and earlier runs    *)
(* left behind; a kernel that fails taints exactly the results behind it    *)
(* (csinn_session_run reports nothing), and so does an input that was never *)
(* handed over, whose node is read as if it were data.  In layer mode the   *)
(* same operators compute the same from the caller's buffers.               *)
ResultsExact ==
  /\ \A k \in DOMAIN prog.output : got[k] # {} =>
       \E o \in Producer(prog.output[k]) : got[k] = Wanted(GivenVersion, bad)[o]
  /\ prog.mode = "layer" /\ nOp = Len(prog.ops) =>
       \A o \in Ops :
         Read(Out(o)) = Wanted(FirstVersion, {p \in Ops : ~cb[p].exec})[o]

NoBuilder(o) == ~OpCallbackMap("graph", Kind(o)).est

(* Graph mode breaks for exactly two reasons: an operator without a builder *)
(* in the session's table, which is noticed at no call and leaves a buffer  *)
(* where setup expects a node; or an operator without a kernel when it      *)
(* runs, because its data type has none or because its init failed          *)
(* unnoticed.                                                               *)
BreaksForTwoReasons ==
  prog.mode = "graph" =>
    /\ phase = "crashed" =>
         (\E o \in Ops : NoBuilder(o)) \/ (run > 0 /\ \E o \in Ops : ~cb[o].exec)
    /\ phase \in {"ready", "running"} => ~\E o \in Ops : NoBuilder(o)
    /\ phase = "ready" /\ run > 0 => \A o \in Ops : cb[o].exec

(* Running a graph never writes into a buffer of the application: the one   *)
(* given with csinn_update_output is replaced by op_run_init, not filled.   *)
ApplicationBuffersKept ==
  [][(phase \in {"ready", "running"}) =>
       \A b \in DOMAIN mem : b[1] = "user" => mem'[b] = mem[b]]_vars

(* tests/validation_graph/c906: an operator that has a kernel and whose     *)
(* init succeeds can be built, set up and run in graph mode.                *)
KernelMeansGraph ==
  /\ prog.mode = "graph" /\ mode = prog.mode
  /\ \A o \in Ops : LET c == OpCallbackMap("layer", Kind(o)) IN c.init \/ c.exec
  => phase # "crashed"
=============================================================================
