--------------------------- MODULE SessionProofs ---------------------------
(***************************************************************************)
(* Proofs about Session for every set of tensors, every set of programs,   *)
(* of any length, and every number of runs.  The inductive invariant says  *)
(* what the builders have entered into the graph, where tensor->data       *)
(* points in each phase, and that every result that stands was computed    *)
(* from the ones before it; that these results are the ones a recursive    *)
(* definition over the program gives follows by induction on its operators.*)
(***************************************************************************)
EXTENDS Session, InductionProofs, TLAPS

(* The equation of Wanted for one operator: what it makes of the versions   *)
(* of the inputs and of the results val of the operators before it.         *)
Source(val, version, t) ==
  IF Producer(t) = {} THEN version[t] ELSE val[CHOOSE p \in Producer(t) : TRUE]

Expected(val, version, failing, o) ==
  IF o \in failing THEN Junk ELSE UNION {Source(val, version, t) : t \in Ins(o)}

Solves(val, version, failing) ==
  val = [o \in Ops |-> Expected(val, version, failing, o)]

Pointer == {"user", "own", "node"} \X Tensor \X Nat
Layer   == [op : Ops, in : Seq(Pointer)]

(* The shapes TypeOK does not spell out. *)
ShapeInv ==
  /\ data \in [Tensor -> Pointer]
  /\ mem = [b \in DOMAIN mem |-> mem[b]]
  /\ got = [k \in DOMAIN prog.output |-> got[k]]
  /\ graph \in Seq(Layer)
  /\ gout \in Seq(Pointer)

(* Where a session is: nothing has run while it is built, one in layer mode *)
(* is never set up, and only a session on an optimised backend can be left  *)
(* in layer mode by its setup.                                              *)
PhaseInv ==
  /\ phase \in {"open", "build"} =>
       /\ mode = prog.mode /\ run = 0 /\ i = 1 /\ bad = {}
       /\ \A t \in Tensor : given[t] = 0
       /\ DOMAIN mem = {User(t, 0) : t \in Tensor}
  /\ phase \in {"open", "build", "running"} => \A k \in DOMAIN prog.output : got[k] = {}
  /\ prog.mode = "layer" => phase \in {"open", "build", "closed"}
  /\ prog.mode = "graph" /\ prog.api = "ref" => mode = "graph"
  /\ nOut > 0 => nOp = Len(prog.ops)
  /\ phase \in {"ready", "running"} => nOp = Len(prog.ops)
  /\ phase = "running" => run > 0

(* What a builder finds in tensor->data: a node, except for a result of an  *)
(* operator that was not built.                                             *)
Entry(t) ==
  IF \E o \in Ops : Out(o) = t /\ NoBuilder(o) THEN User(t, 0) ELSE Node(t)

(* While a graph is built, tensor->data is a node for the inputs entered so *)
(* far, which include those that were read, and the results of the          *)
(* operators built so far.                                                  *)
BuildData ==
  phase \in {"open", "build"} =>
    /\ \A o \in Ops : data[Out(o)] = IF o <= nOp THEN Entry(Out(o)) ELSE User(Out(o), 0)
    /\ \A k \in 1 .. nIn : data[prog.input[k]] = Node(prog.input[k])
    /\ \A o \in 1 .. nOp : \A t \in Ins(o) \cap Range(prog.input) : data[t] = Node(t)

(* The graph has the operators with a builder, and no others, each with     *)
(* what its builder found.                                                  *)
GraphInv ==
  /\ \A k \in DOMAIN graph :
       LET o == graph[k].op IN
       /\ o <= nOp /\ ~NoBuilder(o)
       /\ graph[k].in = [l \in DOMAIN prog.ops[o].in |-> Entry(prog.ops[o].in[l])]
  /\ \A o \in 1 .. nOp : ~NoBuilder(o) => \E k \in DOMAIN graph : graph[k].op = o
  /\ (\A o \in Ops : ~NoBuilder(o)) =>
       Len(graph) = nOp /\ \A k \in 1 .. nOp : graph[k].op = k
  /\ Len(gout) = nOut
  /\ \A k \in 1 .. nOut : gout[k] = Entry(prog.output[k])

(* A layer that has been run had a kernel. *)
KernelInv ==
  /\ phase = "running" => \A k \in 1 .. i - 1 : cb[k].exec
  /\ BreaksForTwoReasons

(* The buffers of the inputs: none newer than the version handed over last, *)
(* which tensor->data points to; a node where nothing was handed over.      *)
InputInv ==
  \A t \in Range(prog.input) :
    /\ \A v \in Nat : User(t, v) \in DOMAIN mem => v <= given[t]
    /\ given[t] > 0 =>
         /\ data[t] = User(t, given[t]) /\ User(t, given[t]) \in DOMAIN mem
         /\ mem[User(t, given[t])] = {<<t, given[t]>>}
    /\ phase \in {"ready", "running"} /\ given[t] = 0 /\ (\E o \in Ops : t \in Ins(o)) =>
         data[t] = Node(t)
    /\ given[t] <= run + (IF phase = "running" THEN 0 ELSE 1)

(* How far the current run is, or the last one was. *)
Done == IF phase = "running" THEN i - 1 ELSE IF phase = "ready" /\ run > 0 THEN Len(prog.ops) ELSE 0

Results == [o \in Ops |-> mem[Own(Out(o), run)]]

AllGiven == \A t \in Tensor : given[t] <= run

(* Every result of the current run is in its buffer and follows from those  *)
(* before it; only the application replaces tensor->data, after the run.    *)
ResultInv ==
  /\ phase = "running" => \A o \in bad : o < i
  /\ \A o \in 1 .. Done :
       /\ Own(Out(o), run) \in DOMAIN mem
       /\ data[Out(o)] = Own(Out(o), run) \/ (phase = "ready" /\ data[Out(o)][1] = "user")
       /\ AllGiven => Results[o] = Expected(Results, GivenVersion, bad, o)

GraphModeInv ==
  prog.mode = "graph" => BuildData /\ GraphInv /\ KernelInv /\ InputInv /\ ResultInv

(* In layer mode every tensor keeps the caller's buffer, and the operators  *)
(* called so far have computed theirs.                                      *)
Held == [o \in Ops |-> mem[User(Out(o), 0)]]

NoKernel == {o \in Ops : ~cb[o].exec}

LayerModeInv ==
  prog.mode = "layer" =>
    /\ graph = <<>> /\ gout = <<>>
    /\ \A t \in Tensor : data[t] = User(t, 0)
    /\ DOMAIN mem = {User(t, 0) : t \in Tensor}
    /\ \A t \in Range(prog.input) : mem[User(t, 0)] = {<<t, 0>>}
    /\ \A o \in Ops :
         Held[o] = IF o <= nOp THEN Expected(Held, FirstVersion, NoKernel, o) ELSE Junk

(* What the application got is a result of the equations.                   *)
GotInv ==
  \A k \in DOMAIN prog.output : got[k] # {} =>
    \E val, o : /\ Solves(val, GivenVersion, bad)
                /\ o \in Producer(prog.output[k]) /\ got[k] = val[o]

IInv == TypeOK /\ ShapeInv /\ PhaseInv /\ GraphModeInv /\ LayerModeInv /\ GotInv
-----------------------------------------------------------------------------
(* Facts about the program, the tables and the pointers. *)

Kinds == {"conv", "plain", "squeeze", "odd", "foreign"}
Callback == [est : BOOLEAN, init : BOOLEAN, exec : BOOLEAN]

ProgramNow ==
  /\ prog.api \in {"ref", "opt"} /\ prog.mode \in {"layer", "graph"}
  /\ Len(prog.ops) \in Nat /\ Len(prog.input) \in Nat /\ Len(prog.output) \in Nat \ {0}
  /\ DOMAIN prog.ops = Ops
  /\ DOMAIN prog.input = 1 .. Len(prog.input)
  /\ DOMAIN prog.output = 1 .. Len(prog.output)
  /\ \A k \in 1 .. Len(prog.input) : prog.input[k] \in Tensor
  /\ \A k \in 1 .. Len(prog.output) : prog.output[k] \in Tensor
  /\ \A o \in Ops :
       /\ Out(o) \in Tensor /\ Kind(o) \in Kinds /\ Ins(o) \subseteq Tensor
       /\ prog.ops[o].in \in Seq(Tensor)
       /\ Out(o) \notin Range(prog.input)
       /\ \A q \in Ops : Out(q) = Out(o) => q = o
       /\ \A t \in Ins(o) : t \in Range(prog.input) \/ \E q \in 1 .. o - 1 : Out(q) = t
       /\ Out(o) \in Range(prog.output) \/ \E q \in Ops : Out(o) \in Ins(q)
  /\ \A k \in 1 .. Len(prog.output) : \E o \in Ops : Out(o) = prog.output[k]

LEMMA ProgramFacts == prog \in Program => ProgramNow
<1> SUFFICES ASSUME prog \in Program PROVE ProgramNow
  OBVIOUS
<1>1. IsProgram(prog)
  BY ProgramAssumption
<1>2. DOMAIN RefTable = Kinds
  BY DEF RefTable, Kinds, Cb
<1>3. /\ prog.ops \in Seq([in : Seq(Tensor), out : Tensor, kind : Kinds])
      /\ prog.input \in Seq(Tensor) /\ prog.output \in Seq(Tensor) /\ prog.output # <<>>
  BY <1>1, <1>2 DEF IsProgram
<1>4. /\ Len(prog.ops) \in Nat /\ Len(prog.input) \in Nat /\ Len(prog.output) \in Nat \ {0}
      /\ DOMAIN prog.ops = Ops
      /\ DOMAIN prog.input = 1 .. Len(prog.input)
      /\ DOMAIN prog.output = 1 .. Len(prog.output)
  BY <1>3 DEF Ops
<1>5. /\ \A k \in 1 .. Len(prog.input) : prog.input[k] \in Tensor
      /\ \A k \in 1 .. Len(prog.output) : prog.output[k] \in Tensor
  BY <1>3
<1>6. ASSUME NEW o \in Ops
      PROVE  Out(o) \in Tensor /\ Kind(o) \in Kinds /\ prog.ops[o].in \in Seq(Tensor)
  <2> DEFINE Operator == [in : Seq(Tensor), out : Tensor, kind : Kinds]
  <2>1. prog.ops \in Seq(Operator) /\ o \in 1 .. Len(prog.ops)
    BY <1>3 DEF Ops
  <2> HIDE DEF Operator
  <2>2. prog.ops[o] \in Operator
    BY <2>1
  <2>3. prog.ops[o] \in [in : Seq(Tensor), out : Tensor, kind : Kinds]
    BY <2>2 DEF Operator
  <2> QED BY <2>3 DEF Out, Kind
<1>7. ASSUME NEW o \in Ops PROVE Ins(o) \subseteq Tensor
  BY <1>6 DEF Ins, Range
<1>8. ASSUME NEW o \in Ops
      PROVE  /\ Out(o) \notin Range(prog.input)
             /\ \A q \in Ops : Out(q) = Out(o) => q = o
             /\ \A t \in Ins(o) : t \in Range(prog.input) \/ \E q \in 1 .. o - 1 : Out(q) = t
             /\ Out(o) \in Range(prog.output) \/ \E q \in Ops : Out(o) \in Ins(q)
  BY <1>1, <1>4 DEF IsProgram, Out, Ins
<1>9. \A k \in 1 .. Len(prog.output) : \E o \in Ops : Out(o) = prog.output[k]
  <2>1. \A k \in 1 .. Len(prog.output) : prog.output[k] \in Range(prog.output)
    BY <1>4 DEF Range
  <2> QED BY <1>1, <1>4, <2>1 DEF IsProgram, Out
<1>10. prog.api \in {"ref", "opt"} /\ prog.mode \in {"layer", "graph"}
  BY <1>1 DEF IsProgram
<1> QED BY <1>4, <1>5, <1>6, <1>7, <1>8, <1>9, <1>10 DEF ProgramNow

LEMMA TableFacts ==
  ASSUME ProgramNow, NEW o \in Ops
  PROVE  /\ \A m \in {"layer", "graph"} : OpCallbackMap(m, Kind(o)) \in Callback
         /\ prog.api = "ref" => ~OpCallbackMap("layer", Kind(o)).init
         /\ P0Cb("graph", OpCallbackMap("graph", Kind(o))) = "est" <=> ~NoBuilder(o)
<1>1. Kind(o) \in Kinds /\ prog.api \in {"ref", "opt"}
  BY DEF ProgramNow
<1>2. ASSUME NEW k \in Kinds
      PROVE  /\ RefTable[k] \in Callback /\ ~RefTable[k].init
             /\ GrefTable[k] \in Callback
             /\ CbMapOpt(k) \in Callback
  <2>1. DOMAIN RefTable = Kinds /\ DOMAIN OptTable = {"conv"}
    BY DEF RefTable, OptTable, Kinds, Cb
  <2>2. RefTable[k] \in Callback /\ ~RefTable[k].init
    <3>1. CASE k = "conv"
      BY <3>1 DEF RefTable, Cb, Callback
    <3>2. CASE k = "plain"
      BY <3>2 DEF RefTable, Cb, Callback
    <3>3. CASE k = "squeeze"
      BY <3>3 DEF RefTable, Cb, Callback
    <3>4. CASE k = "odd"
      BY <3>4 DEF RefTable, Cb, Callback
    <3>5. CASE k = "foreign"
      BY <3>5 DEF RefTable, Cb, Callback
    <3> QED BY <3>1, <3>2, <3>3, <3>4, <3>5 DEF Kinds
  <2>3. GrefTable[k] \in Callback
    BY <2>1 DEF GrefTable, Cb, Callback
  <2>4. OptTable["conv"] \in Callback
    BY DEF OptTable, Cb, Callback
  <2>5. CbMapOpt(k) \in {OptTable["conv"], RefTable[k]}
    BY <2>1 DEF CbMapOpt
  <2> QED BY <2>2, <2>3, <2>4, <2>5
<1>3. \A m \in {"layer", "graph"} : OpCallbackMap(m, Kind(o)) \in Callback
  BY <1>1, <1>2 DEF OpCallbackMap
<1>4. prog.api = "ref" => ~OpCallbackMap("layer", Kind(o)).init
  BY <1>1, <1>2 DEF OpCallbackMap
<1>5. P0Cb("graph", OpCallbackMap("graph", Kind(o))) = "est" <=> ~NoBuilder(o)
  BY <1>3 DEF P0Cb, NoBuilder, Callback
<1> QED BY <1>3, <1>4, <1>5

LEMMA P0CbFacts ==
  ASSUME NEW c \in Callback, NEW ok \in BOOLEAN
  PROVE  /\ P0Cb("layer", c) \in {"exec", "unset"} /\ (P0Cb("layer", c) = "exec" <=> c.exec)
         /\ AfterInit(c, ok) \in Callback
  BY DEF P0Cb, AfterInit, Callback

LEMMA PointerFacts ==
  /\ \A t, u, v : Node(t) # User(u, v) /\ User(u, v) # Node(t)
  /\ \A t, u, v : Node(t) # Own(u, v)
  /\ \A t, u, v, w : User(t, v) # Own(u, w)
  /\ \A t, u, v, w : User(t, v) = User(u, w) => t = u /\ v = w
  /\ \A t, u, v, w : Own(t, v) = Own(u, w) => t = u /\ v = w
  /\ \A t, u : Node(t) = Node(u) => t = u
  /\ \A t, v : Node(t)[1] = "node" /\ User(t, v)[1] = "user" /\ Own(t, v)[1] = "own"
  BY DEF Node, User, Own

LEMMA PointerTypes ==
  ASSUME NEW t \in Tensor, NEW v \in Nat
  PROVE  /\ Node(t) \in Pointer /\ User(t, v) \in Pointer /\ Own(t, v) \in Pointer
         /\ v <= MaxRuns => /\ User(t, v) \in {"user", "own"} \X Tensor \X (0 .. MaxRuns)
                            /\ Own(t, v) \in {"user", "own"} \X Tensor \X (0 .. MaxRuns)
  BY RunsAssumption DEF Node, User, Own, Pointer

(* What is fixed with the program. *)
LEMMA SameProgram ==
  ASSUME prog' = prog
  PROVE  /\ ProgramNow' = ProgramNow /\ Ops' = Ops /\ Layer' = Layer
         /\ \A o : Out(o)' = Out(o) /\ Ins(o)' = Ins(o) /\ Kind(o)' = Kind(o)
         /\ \A o : NoBuilder(o)' = NoBuilder(o)
         /\ \A m, o : OpCallbackMap(m, Kind(o))' = OpCallbackMap(m, Kind(o))
         /\ \A t : Entry(t)' = Entry(t) /\ Producer(t)' = Producer(t)
<1>1. Ops' = Ops /\ \A o : Out(o)' = Out(o) /\ Ins(o)' = Ins(o) /\ Kind(o)' = Kind(o)
  BY DEF Ops, Out, Ins, Kind
<1>2. \A m, o : OpCallbackMap(m, Kind(o))' = OpCallbackMap(m, Kind(o))
  BY DEF OpCallbackMap, Kind
<1>3. \A o : NoBuilder(o)' = NoBuilder(o)
  BY DEF NoBuilder, OpCallbackMap, Kind
<1>4. \A t : Entry(t)' = Entry(t)
  BY <1>1, <1>3 DEF Entry
<1>5. \A t : Producer(t)' = Producer(t)
  BY <1>1 DEF Producer
<1>6. ProgramNow' = ProgramNow
  BY DEF ProgramNow, Ops, Out, Ins, Kind
<1>7. Layer' = Layer
  BY <1>1 DEF Layer, Pointer
<1> QED BY <1>1, <1>2, <1>3, <1>4, <1>5, <1>6, <1>7
-----------------------------------------------------------------------------
(* Types and shapes. *)

LEMMA ProgKept == [Next]_vars => prog' = prog
  BY DEF Next, vars, appl, SessionInit, SetInput, SetOutput, SessionRun, RunDone, SessionDeinit,
         OpCall, LayerRun, SessionSetup, UpdateInput, UpdateOutput, GetOutput

LEMMA TypeStep ==
  ASSUME TypeOK, ShapeInv, PhaseInv, LayerModeInv, [Next]_vars
  PROVE  TypeOK' /\ ShapeInv'
<1> USE RunsAssumption
<1>1. ProgramNow /\ prog' = prog /\ prog \in Program
  BY ProgramFacts, ProgKept DEF TypeOK
<1>2. Ops' = Ops /\ Layer' = Layer /\ \A o : Out(o)' = Out(o) /\ Ins(o)' = Ins(o)
  BY <1>1, SameProgram
<1>3. /\ Len(graph) \in Nat /\ Len(gout) \in Nat /\ DOMAIN graph = 1 .. Len(graph)
      /\ run \in Nat /\ run <= MaxRuns /\ i \in Nat /\ nIn \in Nat /\ nOut \in Nat
  <2>1. graph \in Seq(Layer) /\ gout \in Seq(Pointer)
    BY DEF ShapeInv
  <2>2. run \in 0 .. MaxRuns /\ i \in 1 .. Len(graph) + 1
    BY DEF TypeOK
  <2> QED BY <2>1, <2>2, <1>1 DEF ProgramNow, TypeOK
<1>4. \A k \in DOMAIN graph : graph[k].op \in Ops
  <2>1. graph \in Seq(Layer)
    BY DEF ShapeInv
  <2>2. \A k \in DOMAIN graph : graph[k] \in Layer
    BY <2>1
  <2> QED BY <2>2 DEF Layer
<1>5. cb \in [Ops -> Callback]
  BY DEF TypeOK, Callback
<1>6. CASE UNCHANGED vars
  BY <1>6, <1>2 DEF vars, appl, TypeOK, ShapeInv
<1>7. CASE SessionInit
  BY <1>7, <1>2 DEF SessionInit, appl, TypeOK, ShapeInv
<1>8. CASE SetInput
  <2>1. /\ nIn + 1 \in 1 .. Len(prog.input) /\ prog.input[nIn + 1] \in Tensor
        /\ Node(prog.input[nIn + 1]) \in Pointer
    <3>1. nIn + 1 \in 1 .. Len(prog.input)
      BY <1>8, <1>1, <1>3 DEF SetInput, ProgramNow
    <3> QED BY <3>1, <1>1, PointerTypes DEF ProgramNow
  <2> DEFINE t == prog.input[nIn + 1]
  <2>4. data' = [data EXCEPT ![t] = Node(t)] \/ data' = data
    BY <1>8 DEF SetInput
  <2>5. /\ UNCHANGED <<prog, nOp, nOut, mode, cb, mem, graph, gout, phase, i, run, given, bad, got>>
        /\ nIn' = nIn + 1
    BY <1>8 DEF SetInput
  <2>6. t \in Tensor
    BY <2>1
  <2> HIDE DEF t
  <2>7. \A u \in Tensor : data'[u] \in DOMAIN mem \cup {Node(u)}
    BY <2>4, <2>6 DEF ShapeInv, TypeOK
  <2>2. TypeOK'
    <3>1. nIn' \in 0 .. Len(prog.input)
      BY <2>1, <2>5, <1>3 DEF TypeOK
    <3> QED BY <3>1, <2>5, <2>7, <1>2 DEF TypeOK
  <2>3. ShapeInv'
    BY <1>8, <1>2, <2>1 DEF SetInput, ShapeInv
  <2> QED BY <2>2, <2>3
<1>9. CASE SetOutput
  <2>1. /\ nOut + 1 \in 1 .. Len(prog.output) /\ prog.output[nOut + 1] \in Tensor
    <3>1. nOut \in Nat /\ nOut < Len(prog.output) /\ Len(prog.output) \in Nat
      BY <1>9, <1>1 DEF SetOutput, TypeOK, ProgramNow
    <3>2. nOut + 1 \in 1 .. Len(prog.output)
      BY <3>1
    <3> QED BY <3>2, <1>1 DEF ProgramNow
  <2>2. data[prog.output[nOut + 1]] \in Pointer
    BY <2>1 DEF ShapeInv
  <2>5. /\ UNCHANGED <<prog, nIn, nOp, mode, cb, data, mem, graph, phase, i, run, given, bad>>
        /\ nOut' = nOut + 1
    BY <1>9 DEF SetOutput
  <2>6. nOut' \in 0 .. Len(prog.output)
    BY <2>1, <2>5 DEF TypeOK
  <2>3. TypeOK'
    BY <1>2, <2>5, <2>6 DEF TypeOK
  <2>4. ShapeInv'
    BY <1>9, <1>2, <2>2 DEF SetOutput, ShapeInv
  <2> QED BY <2>3, <2>4
<1>10. CASE SessionRun
  <2>1. run + 1 \in 0 .. MaxRuns \/ UNCHANGED <<phase, run, bad>>
    BY <1>10, <1>3 DEF SessionRun
  <2>2. /\ UNCHANGED <<prog, nIn, nOp, nOut, mode, cb, data, mem, graph, gout, given>>
        /\ phase' \in {phase, "running"} /\ i' = 1 /\ bad' \in {bad, {}} /\ run' \in {run, run + 1}
    BY <1>10 DEF SessionRun, appl
  <2>4. run' \in 0 .. MaxRuns
    BY <1>10, <2>1, <2>2 DEF SessionRun, TypeOK
  <2>5. TypeOK'
    <3>1. i' \in 1 .. Len(graph') + 1
      <4>1. Len(graph) \in Nat
        BY DEF ShapeInv
      <4> QED BY <4>1, <2>2
    <3>2. phase' \in {"open", "build", "ready", "running", "crashed", "closed"} /\ bad' \subseteq Ops
      BY <2>2 DEF TypeOK
    <3> QED BY <1>2, <2>2, <2>4, <3>1, <3>2 DEF TypeOK
  <2>3. ShapeInv'
    BY <1>10, <1>2 DEF SessionRun, appl, ShapeInv
  <2> QED BY <2>5, <2>3
<1>11. CASE RunDone
  BY <1>11, <1>2 DEF RunDone, appl, TypeOK, ShapeInv
<1>12. CASE SessionDeinit
  BY <1>12, <1>2 DEF SessionDeinit, appl, TypeOK, ShapeInv
<1>13. ASSUME NEW k \in DOMAIN prog.output, GetOutput(k) PROVE TypeOK' /\ ShapeInv'
  BY <1>13, <1>2 DEF GetOutput, appl, TypeOK, ShapeInv
<1>14. ASSUME NEW failed \in SUBSET Ops, SessionSetup(failed) PROVE TypeOK' /\ ShapeInv'
  <2>1. \A o \in Ops : InitOp(o, o \notin failed) \in Callback
    BY <1>1, TableFacts, P0CbFacts DEF InitOp
  <2>2. cb' \in [Ops -> Callback] /\ mode' \in {"layer", "graph"}
    BY <1>14, <1>5, <2>1 DEF SessionSetup, TypeOK
  <2>3. TypeOK'
    BY <1>14, <1>2, <2>2 DEF SessionSetup, appl, TypeOK, Callback
  <2>4. ShapeInv'
    BY <1>14, <1>2 DEF SessionSetup, appl, ShapeInv
  <2> QED BY <2>3, <2>4
<1>15. ASSUME NEW ok \in BOOLEAN, OpCall(ok) PROVE TypeOK' /\ ShapeInv'
  <2> DEFINE o == nOp + 1
             c == OpCallbackMap(mode, Kind(o))
             c2 == IF mode = "layer" THEN AfterInit(c, ok) ELSE c
             entry == [op |-> o, in |-> [k \in DOMAIN prog.ops[o].in |-> data[prog.ops[o].in[k]]]]
  <2>1. o \in Ops /\ o \in 0 .. Len(prog.ops) /\ i = 1
    BY <1>15, <1>1 DEF OpCall, TypeOK, Ops, PhaseInv, ProgramNow
  <2>2. Out(o) \in Tensor /\ prog.ops[o].in \in Seq(Tensor) /\ Node(Out(o)) \in Pointer
    BY <2>1, <1>1, PointerTypes DEF ProgramNow
  <2>3. c2 \in Callback
    BY <2>1, <1>1, TableFacts, P0CbFacts DEF TypeOK
  <2>4. entry \in Layer
    <3>1. DOMAIN prog.ops[o].in = 1 .. Len(prog.ops[o].in) /\ Len(prog.ops[o].in) \in Nat
      BY <2>2
    <3>2. \A k \in DOMAIN prog.ops[o].in : data[prog.ops[o].in[k]] \in Pointer
      BY <2>2 DEF ShapeInv
    <3>3. entry.in \in Seq(Pointer)
      BY <3>1, <3>2
    <3> QED BY <3>3, <2>1 DEF Layer
  <2> HIDE DEF entry
  <2>5. cb' = [cb EXCEPT ![o] = c2]
    BY <1>15 DEF OpCall
  <2>6. \/ graph' = Append(graph, entry) /\ data' = [data EXCEPT ![Out(o)] = Node(Out(o))]
           /\ mem' = mem
        \/ mem' = [mem EXCEPT ![data[Out(o)]] = Computed(Ins(o))] /\ UNCHANGED <<graph, data>>
        \/ UNCHANGED <<graph, data, mem>>
    BY <1>15 DEF OpCall, entry
  <2>7. UNCHANGED <<prog, nIn, nOut, mode, gout, phase, i, run, given, bad, got>> /\ nOp' = o
    BY <1>15 DEF OpCall
  <2> HIDE DEF c2, c, o
  <2>8. data' \in [Tensor -> Pointer]
    BY <2>2, <2>6 DEF ShapeInv
  <2>9. graph' \in Seq(Layer)
    <3>1. graph \in Seq(Layer)
      BY DEF ShapeInv
    <3>2. graph' = Append(graph, entry) \/ graph' = graph
      BY <2>6
    <3> QED BY <2>4, <3>1, <3>2
  <2>10. mem' = [b \in DOMAIN mem |-> mem'[b]] /\ DOMAIN mem' = DOMAIN mem
    BY <2>6 DEF ShapeInv
  <2>11. \A t \in Tensor : data'[t] \in DOMAIN mem \cup {Node(t)}
    BY <2>2, <2>6 DEF ShapeInv, TypeOK
  <2>12. ShapeInv'
    BY <2>7, <2>8, <2>9, <2>10, <1>2 DEF ShapeInv
  <2>13. cb' \in [Ops -> Callback]
    BY <1>5, <2>1, <2>3, <2>5
  <2>14. i' \in 1 .. Len(graph') + 1
    <3>1. Len(graph') \in Nat
      BY <2>9
    <3> QED BY <3>1, <2>1, <2>7
  <2>15. TypeOK'
    BY <2>1, <2>7, <2>10, <2>11, <2>13, <2>14, <1>2 DEF TypeOK, Callback
  <2> QED BY <2>12, <2>15
<1>16. ASSUME NEW ok \in BOOLEAN, LayerRun(ok) PROVE TypeOK' /\ ShapeInv'
  <2> DEFINE o == graph[i].op
             b == Own(Out(o), run)
  <2>1. o \in Ops
    BY <1>16, <1>4, <1>3 DEF LayerRun, TypeOK, ShapeInv
  <2>2. Out(o) \in Tensor /\ b \in Pointer /\ b \in {"user", "own"} \X Tensor \X (0 .. MaxRuns)
    BY <2>1, <1>1, <1>3, PointerTypes DEF ProgramNow, TypeOK
  <2>3. /\ UNCHANGED <<prog, nIn, nOp, nOut, mode, cb, graph, gout, run, given, got>>
        /\ phase' \in {phase, "crashed"}
        /\ i' = i \/ (i' = i + 1 /\ i <= Len(graph))
    BY <1>16 DEF LayerRun, appl
  <2>4. \/ UNCHANGED <<data, mem, bad>>
        \/ /\ data' = [data EXCEPT ![Out(o)] = b]
           /\ mem' = [c \in DOMAIN mem \cup {b} |-> mem'[c]]
           /\ bad' \subseteq bad \cup {o}
    BY <1>16 DEF LayerRun
  <2> HIDE DEF o, b
  <2>5. data' \in [Tensor -> Pointer] /\ mem' = [c \in DOMAIN mem' |-> mem'[c]]
    BY <2>2, <2>4 DEF ShapeInv
  <2>6. /\ DOMAIN mem' \subseteq {"user", "own"} \X Tensor \X (0 .. MaxRuns)
        /\ \A t \in Tensor : data'[t] \in DOMAIN mem' \cup {Node(t)}
        /\ bad' \subseteq Ops
    BY <2>1, <2>2, <2>4 DEF ShapeInv, TypeOK
  <2>7. ShapeInv'
    BY <2>3, <2>5, <1>2 DEF ShapeInv
  <2>8. TypeOK'
    <3>1. i' \in 1 .. Len(graph') + 1
      <4>1. Len(graph) \in Nat
        BY DEF ShapeInv
      <4> QED BY <4>1, <2>3 DEF TypeOK
    <3>2. phase' \in {"open", "build", "ready", "running", "crashed", "closed"}
      BY <2>3 DEF TypeOK
    <3> QED BY <3>1, <3>2, <2>3, <2>6, <1>2 DEF TypeOK
  <2> QED BY <2>7, <2>8
<1>17. ASSUME NEW k \in DOMAIN prog.input, UpdateInput(k) PROVE TypeOK' /\ ShapeInv'
  <2> DEFINE t == prog.input[k]
             b == User(t, run + 1)
  <2>1. t \in Tensor /\ run + 1 \in 0 .. MaxRuns /\ run + 1 \in Nat /\ run + 1 <= MaxRuns
    BY <1>17, <1>1, <1>3 DEF UpdateInput, ProgramNow
  <2>2. b \in Pointer /\ b \in {"user", "own"} \X Tensor \X (0 .. MaxRuns)
    BY <2>1, <1>3, PointerTypes
  <2>3. /\ UNCHANGED <<prog, nIn, nOp, nOut, mode, cb, graph, gout, phase, i, run, bad>>
        /\ given' = [given EXCEPT ![t] = run + 1]
        /\ mem' = [c \in DOMAIN mem \cup {b} |-> IF c = b THEN {<<t, run + 1>>} ELSE mem[c]]
        /\ data' = [data EXCEPT ![t] = b]
        /\ got' = [o \in DOMAIN prog.output |-> {}]
    BY <1>17 DEF UpdateInput, appl
  <2> HIDE DEF t, b
  <2>4. ShapeInv'
    BY <2>1, <2>2, <2>3, <1>2 DEF ShapeInv
  <2>5. TypeOK'
    BY <2>1, <2>2, <2>3, <1>2 DEF ShapeInv, TypeOK
  <2> QED BY <2>4, <2>5
<1>18. ASSUME NEW k \in DOMAIN prog.output, UpdateOutput(k) PROVE TypeOK' /\ ShapeInv'
  <2> DEFINE t == prog.output[k]
             b == User(t, run + 1)
  <2>1. t \in Tensor /\ run + 1 \in 0 .. MaxRuns /\ run + 1 \in Nat /\ run + 1 <= MaxRuns
    BY <1>18, <1>1, <1>3 DEF UpdateOutput, ProgramNow
  <2>2. b \in Pointer /\ b \in {"user", "own"} \X Tensor \X (0 .. MaxRuns)
    BY <2>1, <1>3, PointerTypes
  <2>3. /\ UNCHANGED <<prog, nIn, nOp, nOut, mode, cb, graph, gout, phase, i, run, given, bad, got>>
        /\ mem' = [c \in DOMAIN mem \cup {b} |-> IF c = b THEN Junk ELSE mem[c]]
        /\ data' = [data EXCEPT ![t] = b]
    BY <1>18 DEF UpdateOutput, appl
  <2> HIDE DEF t, b
  <2>4. ShapeInv'
    BY <2>1, <2>2, <2>3, <1>2 DEF ShapeInv
  <2>5. TypeOK'
    BY <2>1, <2>2, <2>3, <1>2 DEF ShapeInv, TypeOK
  <2> QED BY <2>4, <2>5
<1> QED BY <1>6, <1>7, <1>8, <1>9, <1>10, <1>11, <1>12, <1>13, <1>14, <1>15, <1>16, <1>17,
           <1>18 DEF Next
-----------------------------------------------------------------------------
(* Phases. *)

LEMMA PhaseStep ==
  ASSUME TypeOK, ShapeInv, PhaseInv, [Next]_vars
  PROVE  PhaseInv'
<1>1. ProgramNow /\ prog' = prog
  BY ProgramFacts, ProgKept DEF TypeOK
<1>2. nOut \in Nat /\ nOp \in Nat /\ run \in Nat
  BY <1>1 DEF TypeOK, ProgramNow
<1>3. CASE UNCHANGED vars
  BY <1>3 DEF vars, appl, PhaseInv
<1>4. CASE SessionInit
  BY <1>4 DEF SessionInit, appl, PhaseInv
<1>5. CASE SetInput
  BY <1>5 DEF SetInput, PhaseInv
<1>6. CASE SetOutput
  BY <1>6 DEF SetOutput, PhaseInv
<1>7. CASE SessionRun
  <2>1. /\ UNCHANGED <<prog, nOp, nOut, mode>> /\ phase = "ready" /\ phase' \in {"ready", "running"}
        /\ got' = [k \in DOMAIN prog.output |-> {}]
        /\ phase' = "running" => run' = run + 1
    BY <1>7 DEF SessionRun, appl
  <2> QED BY <1>2, <2>1 DEF PhaseInv
<1>8. CASE RunDone
  BY <1>8 DEF RunDone, appl, PhaseInv
<1>9. CASE SessionDeinit
  BY <1>9 DEF SessionDeinit, appl, PhaseInv
<1>10. ASSUME NEW k \in DOMAIN prog.output, GetOutput(k) PROVE PhaseInv'
  BY <1>10 DEF GetOutput, appl, PhaseInv
<1>11. ASSUME NEW failed \in SUBSET Ops, SessionSetup(failed) PROVE PhaseInv'
  <2>1. /\ UNCHANGED <<prog, nOp, nOut, got>> /\ phase = "build" /\ phase' \in {"crashed", "ready"}
        /\ nOut = Len(prog.output) /\ prog.mode = "graph"
        /\ mode' = mode \/ failed # {}
    BY <1>11 DEF SessionSetup, appl, PhaseInv
  <2>2. prog.api = "ref" => failed = {}
    BY <1>1, <1>11, TableFacts DEF SessionSetup
  <2>3. nOp = Len(prog.ops)
    BY <2>1, <1>1 DEF PhaseInv, ProgramNow
  <2> QED BY <2>1, <2>2, <2>3 DEF PhaseInv
<1>12. ASSUME NEW ok \in BOOLEAN, OpCall(ok) PROVE PhaseInv'
  <2>1. /\ UNCHANGED <<prog, nOut, mode, phase, i, run, given, bad, got>> /\ phase = "build"
        /\ nOp < Len(prog.ops)
    BY <1>12 DEF OpCall
  <2>2. DOMAIN mem' = DOMAIN mem
    BY <1>12 DEF OpCall
  <2> QED BY <1>1, <1>2, <2>1, <2>2 DEF PhaseInv, ProgramNow
<1>13. ASSUME NEW ok \in BOOLEAN, LayerRun(ok) PROVE PhaseInv'
  <2>1. /\ UNCHANGED <<prog, nOp, nOut, mode, got, run>> /\ phase = "running"
        /\ phase' \in {"running", "crashed"}
    BY <1>13 DEF LayerRun, appl
  <2> QED BY <2>1 DEF PhaseInv
<1>14. ASSUME NEW k \in DOMAIN prog.input, UpdateInput(k) PROVE PhaseInv'
  BY <1>14 DEF UpdateInput, appl, PhaseInv
<1>15. ASSUME NEW k \in DOMAIN prog.output, UpdateOutput(k) PROVE PhaseInv'
  BY <1>15 DEF UpdateOutput, appl, PhaseInv
<1> QED BY <1>3, <1>4, <1>5, <1>6, <1>7, <1>8, <1>9, <1>10, <1>11, <1>12, <1>13, <1>14, <1>15
        DEF Next
-----------------------------------------------------------------------------
(* Building the graph. *)

LEMMA EntryFacts ==
  ASSUME ProgramNow
  PROVE  /\ \A o \in Ops : Entry(Out(o)) = IF NoBuilder(o) THEN User(Out(o), 0) ELSE Node(Out(o))
         /\ \A t \in Range(prog.input) : Entry(t) = Node(t)
<1>1. \A o \in Ops : \A q \in Ops : Out(q) = Out(o) => q = o
  BY DEF ProgramNow
<1>2. \A o \in Ops : Out(o) \notin Range(prog.input)
  BY DEF ProgramNow
<1> QED BY <1>1, <1>2 DEF Entry

LEMMA OpCallGraph ==
  ASSUME ProgramNow, TypeOK, PhaseInv, prog.mode = "graph", NEW ok \in BOOLEAN, OpCall(ok)
  PROVE  /\ nOp + 1 \in Ops /\ nOp' = nOp + 1 /\ phase = "build" /\ nOp \in Nat
         /\ UNCHANGED <<prog, nIn, nOut, mode, gout, phase, i, run, given, bad, got>>
         /\ Ins(nOp + 1) \cap Range(prog.input) \subseteq {prog.input[k] : k \in 1 .. nIn}
         /\ NoBuilder(nOp + 1) => UNCHANGED <<graph, data>>
         /\ ~NoBuilder(nOp + 1) =>
              /\ graph' = Append(graph, [op |-> nOp + 1,
                                         in |-> [k \in DOMAIN prog.ops[nOp + 1].in |->
                                                   data[prog.ops[nOp + 1].in[k]]]])
              /\ data' = [data EXCEPT ![Out(nOp + 1)] = Node(Out(nOp + 1))]
<1>1. phase = "build" /\ mode = "graph" /\ nOp \in Nat /\ nOp + 1 \in Ops
  BY DEF OpCall, PhaseInv, TypeOK, ProgramNow, Ops
<1>2. P0Cb("graph", OpCallbackMap("graph", Kind(nOp + 1))) = "est" <=> ~NoBuilder(nOp + 1)
  BY <1>1, TableFacts
<1>3. /\ nOp' = nOp + 1
      /\ UNCHANGED <<prog, nIn, nOut, mode, gout, phase, i, run, given, bad, got>>
      /\ Ins(nOp + 1) \cap Range(prog.input) \subseteq {prog.input[k] : k \in 1 .. nIn}
  BY <1>1 DEF OpCall
<1>4. CASE NoBuilder(nOp + 1)
  <2>1. P0Cb("graph", OpCallbackMap("graph", Kind(nOp + 1))) # "est"
    BY <1>2, <1>4
  <2> QED BY <1>1, <1>3, <1>4, <2>1 DEF OpCall
<1>5. CASE ~NoBuilder(nOp + 1)
  <2>1. P0Cb("graph", OpCallbackMap("graph", Kind(nOp + 1))) = "est"
    BY <1>2, <1>5
  <2> QED BY <1>1, <1>3, <1>5, <2>1 DEF OpCall
<1> QED BY <1>4, <1>5

LEMMA RuntimeIsGref == ProgramNow /\ PhaseInv /\ prog.mode = "graph" => Runtime = "gref"
  BY DEF ProgramNow, PhaseInv, Runtime, RuntimeTable

LEMMA BuildStep ==
  ASSUME TypeOK, ShapeInv, PhaseInv, prog.mode = "graph", BuildData, [Next]_vars
  PROVE  BuildData'
<1>1. ProgramNow /\ prog' = prog
  BY ProgramFacts, ProgKept DEF TypeOK
<1>2. /\ Ops' = Ops /\ \A o : Out(o)' = Out(o) /\ Ins(o)' = Ins(o)
      /\ \A t : Entry(t)' = Entry(t)
  BY <1>1, SameProgram
<1>3. /\ nIn \in Nat /\ nOp \in Nat /\ Runtime = "gref"
      /\ nIn <= Len(prog.input) /\ nOp <= Len(prog.ops)
  <2>1. Runtime = "gref"
    BY <1>1, RuntimeIsGref
  <2>2. Len(prog.input) \in Nat /\ Len(prog.ops) \in Nat
    BY <1>1 DEF ProgramNow
  <2> QED BY <2>1, <2>2 DEF TypeOK
<1>4. ASSUME phase' \in {"open", "build"} => phase \in {"open", "build"} /\ UNCHANGED <<data, nIn, nOp>>
      PROVE  BuildData'
  BY <1>1, <1>2, <1>4 DEF BuildData
<1>5. CASE SetInput
  <2> DEFINE t == prog.input[nIn + 1]
  <2>1. /\ phase = "build" /\ nIn' = nIn + 1 /\ UNCHANGED <<prog, nOp, phase>>
        /\ data' = [data EXCEPT ![t] = Node(t)] /\ nIn + 1 \in DOMAIN prog.input
    BY <1>1, <1>3, <1>5 DEF SetInput, ProgramNow
  <2>2. t \in Range(prog.input) /\ t \in Tensor /\ \A o \in Ops : Out(o) # t /\ Out(o) \in Tensor
    BY <2>1, <1>1 DEF Range, ProgramNow
  <2>3. \A k \in 1 .. nIn + 1 : k \in DOMAIN prog.input /\ prog.input[k] \in Tensor
    BY <2>1, <1>1, <1>3 DEF ProgramNow
  <2>4. \A u \in Tensor : data'[u] = IF u = t THEN Node(t) ELSE data[u]
    BY <2>1 DEF ShapeInv
  <2>5. \A o \in Ops : data'[Out(o)] = IF o <= nOp THEN Entry(Out(o)) ELSE User(Out(o), 0)
    BY <2>1, <2>2, <2>4 DEF BuildData
  <2>6. \A k \in 1 .. nIn + 1 : data'[prog.input[k]] = Node(prog.input[k])
    <3> SUFFICES ASSUME NEW k \in 1 .. nIn + 1 PROVE data'[prog.input[k]] = Node(prog.input[k])
      OBVIOUS
    <3>1. CASE k = nIn + 1
      BY <3>1, <2>3, <2>4
    <3>2. CASE k # nIn + 1
      <4>1. k \in 1 .. nIn
        BY <3>2, <1>3
      <4> QED BY <4>1, <2>1, <2>3, <2>4 DEF BuildData
    <3> QED BY <3>1, <3>2
  <2>7. \A o \in 1 .. nOp : \A u \in Ins(o) \cap Range(prog.input) : data'[u] = Node(u)
    <3>1. \A o \in 1 .. nOp : o \in Ops
      BY <1>3 DEF Ops
    <3>2. \A o \in 1 .. nOp : Ins(o) \subseteq Tensor
      BY <1>1, <3>1 DEF ProgramNow
    <3> QED BY <3>2, <2>1, <2>4 DEF BuildData
  <2> HIDE DEF t
  <2> QED BY <1>1, <1>2, <2>1, <2>5, <2>6, <2>7 DEF BuildData
<1>6. ASSUME NEW ok \in BOOLEAN, OpCall(ok) PROVE BuildData'
  <2> DEFINE q == nOp + 1
  <2>1. /\ q \in Ops /\ nOp' = q /\ phase = "build" /\ UNCHANGED <<prog, nIn, phase>>
        /\ Ins(q) \cap Range(prog.input) \subseteq {prog.input[k] : k \in 1 .. nIn}
        /\ NoBuilder(q) => data' = data
        /\ ~NoBuilder(q) => data' = [data EXCEPT ![Out(q)] = Node(Out(q))]
    BY <1>1, <1>6, OpCallGraph
  <2>2. /\ Entry(Out(q)) = IF NoBuilder(q) THEN User(Out(q), 0) ELSE Node(Out(q))
        /\ data[Out(q)] = User(Out(q), 0)
    BY <2>1, <1>1, <1>3, EntryFacts DEF BuildData
  <2>3. \A u \in Tensor : data'[u] = IF u = Out(q) THEN Entry(Out(q)) ELSE data[u]
    BY <2>1, <2>2 DEF ShapeInv
  <2>4. ASSUME NEW o \in Ops
        PROVE  data'[Out(o)] = IF o <= q THEN Entry(Out(o)) ELSE User(Out(o), 0)
    <3>1. Out(o) \in Tensor /\ (Out(o) = Out(q) => o = q) /\ o \in Nat
      BY <1>1, <2>1 DEF ProgramNow, Ops
    <3>2. data[Out(o)] = IF o <= nOp THEN Entry(Out(o)) ELSE User(Out(o), 0)
      BY <2>1 DEF BuildData
    <3>3. CASE o = q
      BY <3>1, <3>3, <2>3
    <3>4. CASE o # q
      <4>1. o <= q <=> o <= nOp
        BY <3>1, <3>4, <1>3
      <4> QED BY <3>1, <3>2, <3>4, <4>1, <2>3
    <3> QED BY <3>3, <3>4
  <2>5. \A t \in Range(prog.input) : t \in Tensor /\ data'[t] = data[t]
    <3>1. \A t \in Range(prog.input) : t \in Tensor /\ t # Out(q)
      BY <1>1, <2>1 DEF Range, ProgramNow
    <3> QED BY <3>1, <2>3
  <2>6. \A k \in 1 .. nIn : prog.input[k] \in Range(prog.input)
    <3>1. DOMAIN prog.input = 1 .. Len(prog.input)
      BY <1>1 DEF ProgramNow
    <3>2. \A k \in 1 .. nIn : k \in DOMAIN prog.input
      BY <3>1, <1>3
    <3> QED BY <3>2 DEF Range
  <2>7. \A k \in 1 .. nIn : data'[prog.input[k]] = Node(prog.input[k])
    BY <2>1, <2>5, <2>6 DEF BuildData
  <2>8. ASSUME NEW o \in 1 .. q, NEW t \in Ins(o) \cap Range(prog.input) PROVE data'[t] = Node(t)
    <3>1. CASE o = q
      BY <3>1, <2>1, <2>7
    <3>2. CASE o # q
      <4>1. o \in 1 .. nOp
        BY <3>2, <1>3
      <4> QED BY <4>1, <2>1, <2>5 DEF BuildData
    <3> QED BY <3>1, <3>2
  <2> HIDE DEF q
  <2> QED BY <1>1, <1>2, <2>1, <2>4, <2>7, <2>8 DEF BuildData
<1>7. CASE UNCHANGED vars
  BY <1>4, <1>7 DEF vars, appl
<1>8. CASE SessionInit \/ SetOutput \/ SessionRun \/ RunDone \/ SessionDeinit
  <2>1. phase' \in {"open", "build"} => phase \in {"open", "build"} /\ UNCHANGED <<data, nIn, nOp>>
    BY <1>8 DEF SessionInit, SetOutput, SessionRun, RunDone, SessionDeinit, appl
  <2> QED BY <1>4, <2>1
<1>9. ASSUME NEW ok \in BOOLEAN, LayerRun(ok) PROVE BuildData'
  <2>1. phase' \notin {"open", "build"}
    BY <1>9 DEF LayerRun
  <2> QED BY <1>4, <2>1
<1>10. ASSUME NEW failed \in SUBSET Ops, SessionSetup(failed) PROVE BuildData'
  <2>1. phase' \notin {"open", "build"}
    BY <1>10 DEF SessionSetup
  <2> QED BY <1>4, <2>1
<1>11. ASSUME NEW k, UpdateInput(k) \/ UpdateOutput(k) \/ GetOutput(k) PROVE BuildData'
  <2>1. phase' \notin {"open", "build"}
    BY <1>11 DEF UpdateInput, UpdateOutput, GetOutput
  <2> QED BY <1>4, <2>1
<1> QED BY <1>5, <1>6, <1>7, <1>8, <1>9, <1>10, <1>11 DEF Next

(* While the graph is built, every tensor an operator reads or the graph    *)
(* gives back is what Entry says.                                           *)
LEMMA EntriesFound ==
  ASSUME ProgramNow, TypeOK, BuildData, phase = "build"
  PROVE  /\ nOp + 1 \in Ops
              /\ Ins(nOp + 1) \cap Range(prog.input) \subseteq {prog.input[k] : k \in 1 .. nIn}
            => \A t \in Ins(nOp + 1) : data[t] = Entry(t)
         /\ nOp = Len(prog.ops) => \A t \in Range(prog.output) : data[t] = Entry(t)
<1>1. nOp \in Nat /\ nOp <= Len(prog.ops)
  BY DEF TypeOK, ProgramNow
<1>2. ASSUME nOp + 1 \in Ops,
             Ins(nOp + 1) \cap Range(prog.input) \subseteq {prog.input[k] : k \in 1 .. nIn},
             NEW t \in Ins(nOp + 1)
      PROVE  data[t] = Entry(t)
  <2>1. t \in Range(prog.input) \/ \E q \in 1 .. nOp : Out(q) = t
    BY <1>1, <1>2 DEF ProgramNow
  <2>2. CASE t \in Range(prog.input)
    <3>1. PICK k \in 1 .. nIn : t = prog.input[k]
      BY <1>2, <2>2
    <3> QED BY <2>2, <3>1, EntryFacts DEF BuildData
  <2>3. ASSUME NEW q \in 1 .. nOp, Out(q) = t PROVE data[t] = Entry(t)
    <3>1. q \in Ops /\ q <= nOp
      BY <1>1 DEF Ops, ProgramNow
    <3> QED BY <2>3, <3>1 DEF BuildData
  <2> QED BY <2>1, <2>2, <2>3
<1>3. ASSUME nOp = Len(prog.ops), NEW t \in Range(prog.output) PROVE data[t] = Entry(t)
  <2>1. PICK o \in Ops : Out(o) = t
    BY DEF Range, ProgramNow
  <2>2. o <= nOp
    BY <1>3 DEF Ops, ProgramNow
  <2> QED BY <2>1, <2>2 DEF BuildData
<1> QED BY <1>2, <1>3

LEMMA GraphStep ==
  ASSUME TypeOK, ShapeInv, PhaseInv, prog.mode = "graph", BuildData, GraphInv, [Next]_vars
  PROVE  GraphInv'
<1>1. ProgramNow /\ prog' = prog
  BY ProgramFacts, ProgKept DEF TypeOK
<1>2. /\ Ops' = Ops /\ \A o : Out(o)' = Out(o) /\ Ins(o)' = Ins(o) /\ NoBuilder(o)' = NoBuilder(o)
      /\ \A t : Entry(t)' = Entry(t)
  BY <1>1, SameProgram
<1>3. /\ nOut \in Nat /\ nOp \in Nat /\ nOut <= Len(prog.output)
      /\ graph \in Seq(Layer) /\ gout \in Seq(Pointer)
  BY <1>1 DEF TypeOK, ProgramNow, ShapeInv
<1>4. ASSUME UNCHANGED <<graph, gout, nOp, nOut>> PROVE GraphInv'
  BY <1>1, <1>2, <1>4 DEF GraphInv
<1>5. CASE SetOutput
  <2> DEFINE t == prog.output[nOut + 1]
  <2>1. /\ phase = "build" /\ nOp = Len(prog.ops) /\ nOut' = nOut + 1 /\ gout' = Append(gout, data[t])
        /\ UNCHANGED <<prog, nOp, graph>> /\ nOut + 1 \in DOMAIN prog.output
    BY <1>1, <1>3, <1>5 DEF SetOutput, ProgramNow
  <2>2. t \in Range(prog.output) /\ t \in Tensor
    BY <2>1, <1>1 DEF Range, ProgramNow
  <2>3. data[t] = Entry(t) /\ data[t] \in Pointer
    BY <2>1, <2>2, <1>1, EntriesFound DEF ShapeInv
  <2>4. /\ Len(gout') = nOut + 1
        /\ \A k \in 1 .. nOut + 1 : gout'[k] = IF k = nOut + 1 THEN data[t] ELSE gout[k]
    BY <2>1, <2>3, <1>3 DEF GraphInv
  <2>5. \A k \in 1 .. nOut + 1 : gout'[k] = Entry(prog.output[k])
    <3> SUFFICES ASSUME NEW k \in 1 .. nOut + 1 PROVE gout'[k] = Entry(prog.output[k])
      OBVIOUS
    <3>1. CASE k = nOut + 1
      BY <3>1, <2>3, <2>4
    <3>2. CASE k # nOut + 1
      <4>1. k \in 1 .. nOut
        BY <3>2, <1>3
      <4> QED BY <4>1, <3>2, <2>4 DEF GraphInv
    <3> QED BY <3>1, <3>2
  <2> HIDE DEF t
  <2> QED BY <1>1, <1>2, <2>1, <2>4, <2>5 DEF GraphInv
<1>6. ASSUME NEW ok \in BOOLEAN, OpCall(ok) PROVE GraphInv'
  <2> DEFINE q == nOp + 1
             entry == [op |-> q, in |-> [k \in DOMAIN prog.ops[q].in |-> data[prog.ops[q].in[k]]]]
  <2>1. /\ q \in Ops /\ nOp' = q /\ phase = "build" /\ UNCHANGED <<prog, gout, nOut>>
        /\ Ins(q) \cap Range(prog.input) \subseteq {prog.input[k] : k \in 1 .. nIn}
        /\ NoBuilder(q) => graph' = graph
        /\ ~NoBuilder(q) => graph' = Append(graph, entry)
    BY <1>1, <1>6, OpCallGraph
  <2>2. \A t \in Ins(q) : data[t] = Entry(t)
    BY <2>1, <1>1, EntriesFound
  <2>3. entry.op = q /\ entry.in = [l \in DOMAIN prog.ops[q].in |-> Entry(prog.ops[q].in[l])]
    BY <2>2 DEF Ins, Range
  <2> HIDE DEF entry
  <2>4. \A o \in 1 .. q : o = q \/ o \in 1 .. nOp
    BY <1>3
  <2>5. Len(graph) \in Nat /\ DOMAIN graph = 1 .. Len(graph)
    BY <1>3
  <2>6. CASE NoBuilder(q)
    <3>1. \A k \in DOMAIN graph : graph[k].op <= q
      <4>1. \A k \in DOMAIN graph : graph[k].op \in Nat /\ graph[k].op <= nOp
        <5>1. \A k \in DOMAIN graph : graph[k] \in Layer
          BY <1>3
        <5>2. \A k \in DOMAIN graph : graph[k].op \in Ops
          BY <5>1 DEF Layer
        <5>3. \A o \in Ops : o \in Nat
          BY <1>1 DEF Ops, ProgramNow
        <5> QED BY <5>2, <5>3 DEF GraphInv
      <4> QED BY <4>1, <1>3
    <3>2. \A o \in 1 .. q : ~NoBuilder(o) => \E k \in DOMAIN graph : graph[k].op = o
      BY <2>4, <2>6 DEF GraphInv
    <3>3. ~\A o \in Ops : ~NoBuilder(o)
      BY <2>1, <2>6
    <3> HIDE DEF q
    <3> QED BY <1>1, <1>2, <2>1, <2>6, <3>1, <3>2, <3>3 DEF GraphInv
  <2>7. CASE ~NoBuilder(q)
    <3>1. /\ DOMAIN graph' = 1 .. Len(graph) + 1 /\ Len(graph') = Len(graph) + 1
          /\ \A k \in DOMAIN graph : k \in DOMAIN graph' /\ graph'[k] = graph[k]
          /\ Len(graph) + 1 \in DOMAIN graph' /\ graph'[Len(graph) + 1] = entry
          /\ \A k \in DOMAIN graph' : k = Len(graph) + 1 \/ k \in DOMAIN graph
      BY <1>3, <2>1, <2>5, <2>7
    <3>2. ASSUME NEW k \in DOMAIN graph'
          PROVE  LET o == graph'[k].op IN
                 /\ o <= q /\ ~NoBuilder(o)
                 /\ graph'[k].in = [l \in DOMAIN prog.ops[o].in |-> Entry(prog.ops[o].in[l])]
      <4>1. CASE k = Len(graph) + 1
        BY <4>1, <3>1, <2>3, <2>7, <1>3
      <4>2. CASE k \in DOMAIN graph
        <5>1. graph[k].op \in Nat
          <6>1. graph[k] \in Layer
            BY <4>2, <1>3
          <6> QED BY <6>1, <1>1 DEF Layer, Ops, ProgramNow
        <5> QED BY <4>2, <3>1, <5>1, <1>3 DEF GraphInv
      <4> QED BY <4>1, <4>2, <3>1
    <3>3. ASSUME NEW o \in 1 .. q, ~NoBuilder(o) PROVE \E k \in DOMAIN graph' : graph'[k].op = o
      <4>1. CASE o = q
        BY <4>1, <3>1, <2>3
      <4>2. CASE o \in 1 .. nOp
        BY <4>2, <3>1, <3>3 DEF GraphInv
      <4> QED BY <4>1, <4>2, <2>4
    <3>4. ASSUME \A o \in Ops : ~NoBuilder(o)
          PROVE  Len(graph') = q /\ \A k \in 1 .. q : graph'[k].op = k
      <4>1. Len(graph) = nOp /\ \A k \in 1 .. nOp : graph[k].op = k
        BY <3>4 DEF GraphInv
      <4> QED BY <4>1, <3>1, <2>3, <2>4, <2>5
    <3> HIDE DEF q
    <3> QED BY <1>1, <1>2, <2>1, <3>2, <3>3, <3>4 DEF GraphInv
  <2> QED BY <2>6, <2>7
<1>7. CASE UNCHANGED vars
  BY <1>4, <1>7 DEF vars, appl
<1>8. CASE SessionInit \/ SetInput \/ SessionRun \/ RunDone \/ SessionDeinit
  <2>1. UNCHANGED <<graph, gout, nOp, nOut>>
    BY <1>8 DEF SessionInit, SetInput, SessionRun, RunDone, SessionDeinit, appl
  <2> QED BY <1>4, <2>1
<1>9. ASSUME NEW ok \in BOOLEAN, LayerRun(ok) PROVE GraphInv'
  <2>1. UNCHANGED <<graph, gout, nOp, nOut>>
    BY <1>9 DEF LayerRun, appl
  <2> QED BY <1>4, <2>1
<1>10. ASSUME NEW failed \in SUBSET Ops, SessionSetup(failed) PROVE GraphInv'
  <2>1. UNCHANGED <<graph, gout, nOp, nOut>>
    BY <1>10 DEF SessionSetup, appl
  <2> QED BY <1>4, <2>1
<1>11. ASSUME NEW k, UpdateInput(k) \/ UpdateOutput(k) \/ GetOutput(k) PROVE GraphInv'
  <2>1. UNCHANGED <<graph, gout, nOp, nOut>>
    BY <1>11 DEF UpdateInput, UpdateOutput, GetOutput, appl
  <2> QED BY <1>4, <2>1
<1> QED BY <1>5, <1>6, <1>7, <1>8, <1>9, <1>10, <1>11 DEF Next
-----------------------------------------------------------------------------
(* The two ways to break. *)

(* The walks of setup meet a pointer that is no node exactly when an        *)
(* operator was not built: the last such operator's result is given back,   *)
(* or read by an operator that was.                                         *)
LEMMA UnbuiltIsWalked ==
  ASSUME ProgramNow, GraphInv, nOp = Len(prog.ops), nOut = Len(prog.output),
         \E o \in Ops : NoBuilder(o)
  PROVE  \E p \in WalkedNodes : p[1] # "node"
<1>1. Len(prog.ops) \in Nat /\ DOMAIN prog.ops = Ops /\ nOut \in Nat
  BY DEF ProgramNow
<1> DEFINE S == {o \in Ops : NoBuilder(o)}
<1>2. S \in SUBSET (0 .. Len(prog.ops)) /\ S # {}
  BY <1>1 DEF Ops
<1>3. PICK o \in S : \A x \in S : x <= o
  BY <1>1, <1>2, Greatest
<1>4. o \in Ops /\ o \in Nat /\ Entry(Out(o)) = User(Out(o), 0) /\ Entry(Out(o))[1] # "node"
  BY <1>1, <1>3, EntryFacts, PointerFacts DEF Ops
<1>5. CASE Out(o) \in Range(prog.output)
  <2>1. PICK k \in 1 .. nOut : prog.output[k] = Out(o)
    BY <1>5 DEF Range, ProgramNow
  <2>2. gout[k] = Entry(Out(o)) /\ k \in DOMAIN gout
    <3>1. gout[k] = Entry(Out(o))
      BY <2>1 DEF GraphInv
    <3>2. Len(gout) = nOut
      BY DEF GraphInv
    <3> QED BY <3>1, <3>2, <2>1
  <2>3. gout[k] \in WalkedNodes
    BY <2>2 DEF WalkedNodes, Range
  <2> QED BY <1>4, <2>2, <2>3
<1>6. CASE \E q \in Ops : Out(o) \in Ins(q)
  <2>1. PICK q \in Ops : Out(o) \in Ins(q)
    BY <1>6
  <2>2. q > o /\ q \in 1 .. nOp
    <3>1. Out(o) \notin Range(prog.input)
      BY <1>4 DEF ProgramNow
    <3>2. PICK p \in 1 .. q - 1 : Out(p) = Out(o)
      BY <2>1, <3>1 DEF ProgramNow
    <3>3. q \in Nat /\ q <= nOp /\ p \in Ops
      BY <1>1, <2>1, <3>2 DEF Ops
    <3>4. p = o
      BY <1>4, <3>2, <3>3 DEF ProgramNow
    <3> QED BY <2>1, <3>2, <3>3, <3>4 DEF Ops
  <2>3. ~NoBuilder(q)
    <3>1. q \in Nat
      BY <2>2
    <3> QED BY <1>3, <1>4, <2>1, <2>2, <3>1
  <2>4. PICK k \in DOMAIN graph : graph[k].op = q
    BY <2>2, <2>3 DEF GraphInv
  <2>5. graph[k].in = [l \in DOMAIN prog.ops[q].in |-> Entry(prog.ops[q].in[l])]
    BY <2>4 DEF GraphInv
  <2>6. PICK l \in DOMAIN prog.ops[q].in : prog.ops[q].in[l] = Out(o)
    BY <2>1 DEF Ins, Range
  <2>7. Entry(Out(o)) \in Range(graph[k].in)
    BY <2>5, <2>6 DEF Range
  <2>8. Entry(Out(o)) \in WalkedNodes
    BY <2>7 DEF WalkedNodes
  <2> QED BY <1>4, <2>8
<1> QED BY <1>4, <1>5, <1>6 DEF ProgramNow

LEMMA BuiltIsNodes ==
  ASSUME ProgramNow, GraphInv, ShapeInv, \A o \in Ops : ~NoBuilder(o)
  PROVE  \A p \in WalkedNodes : p[1] = "node"
<1>1. \A t : Entry(t) = Node(t) /\ Node(t)[1] = "node"
  BY PointerFacts DEF Entry
<1>2. \A k \in DOMAIN gout : gout[k][1] = "node"
  <2>1. gout \in Seq(Pointer) /\ Len(gout) = nOut
    BY DEF ShapeInv, GraphInv
  <2>2. \A k \in DOMAIN gout : k \in 1 .. nOut
    BY <2>1
  <2> QED BY <1>1, <2>2 DEF GraphInv
<1>3. \A k \in DOMAIN graph : \A p \in Range(graph[k].in) : p[1] = "node"
  <2> SUFFICES ASSUME NEW k \in DOMAIN graph, NEW p \in Range(graph[k].in) PROVE p[1] = "node"
    OBVIOUS
  <2> DEFINE in == prog.ops[graph[k].op].in
  <2>1. graph[k].in = [l \in DOMAIN in |-> Entry(in[l])]
    BY DEF GraphInv
  <2>2. PICK l \in DOMAIN in : p = Entry(in[l])
    BY <2>1 DEF Range
  <2> QED BY <2>2, <1>1
<1> QED BY <1>2, <1>3 DEF WalkedNodes, Range

LEMMA KernelStep ==
  ASSUME TypeOK, ShapeInv, PhaseInv, prog.mode = "graph", GraphInv, KernelInv, [Next]_vars
  PROVE  KernelInv'
<1>1. ProgramNow /\ prog' = prog
  BY ProgramFacts, ProgKept DEF TypeOK
<1>2. Ops' = Ops /\ \A o : NoBuilder(o)' = NoBuilder(o)
  BY <1>1, SameProgram
<1>3. /\ graph \in Seq(Layer) /\ Len(graph) \in Nat /\ i \in Nat /\ run \in Nat
      /\ Len(prog.ops) \in Nat
  BY <1>1 DEF TypeOK, ShapeInv, ProgramNow
<1>4. ASSUME UNCHANGED <<cb, i, run>>, phase' = phase \/ phase' \notin {"crashed", "ready", "running"}
      PROVE  KernelInv'
  BY <1>1, <1>2, <1>4 DEF KernelInv, BreaksForTwoReasons
<1>5. phase = "running" =>
        /\ \A o \in Ops : ~NoBuilder(o)
        /\ Len(graph) = Len(prog.ops) /\ \A k \in DOMAIN graph : graph[k].op = k
        /\ run > 0
  <2> SUFFICES ASSUME phase = "running"
               PROVE  /\ \A o \in Ops : ~NoBuilder(o)
                      /\ Len(graph) = Len(prog.ops) /\ \A k \in DOMAIN graph : graph[k].op = k
                      /\ run > 0
    OBVIOUS
  <2>1. \A o \in Ops : ~NoBuilder(o)
    BY DEF KernelInv, BreaksForTwoReasons
  <2>2. nOp = Len(prog.ops) /\ run > 0
    BY DEF PhaseInv
  <2>3. DOMAIN graph = 1 .. Len(graph)
    BY <1>3
  <2> QED BY <2>1, <2>2, <2>3 DEF GraphInv
<1>6. CASE SessionRun
  <2>1. /\ phase = "ready" /\ phase' = "running" /\ i' = 1 /\ UNCHANGED cb
    BY <1>1, <1>6, RuntimeIsGref DEF SessionRun
  <2>2. \A o \in Ops : ~NoBuilder(o)
    BY <2>1 DEF KernelInv, BreaksForTwoReasons
  <2> QED BY <1>1, <1>2, <2>1, <2>2 DEF KernelInv, BreaksForTwoReasons
<1>7. CASE RunDone
  <2>1. /\ phase = "running" /\ phase' = "ready" /\ UNCHANGED <<cb, run, i>> /\ i > Len(graph)
    BY <1>7 DEF RunDone
  <2>2. \A o \in Ops : cb[o].exec
    <3>1. \A o \in Ops : o \in 1 .. i - 1
      BY <1>3, <1>5, <2>1 DEF Ops
    <3> QED BY <3>1, <2>1 DEF KernelInv
  <2> QED BY <1>1, <1>2, <1>5, <2>1, <2>2 DEF KernelInv, BreaksForTwoReasons
<1>8. ASSUME NEW ok \in BOOLEAN, LayerRun(ok) PROVE KernelInv'
  <2>1. phase = "running" /\ i <= Len(graph) /\ UNCHANGED <<cb, run>> /\ i \in DOMAIN graph
    <3>1. i >= 1
      BY DEF TypeOK
    <3> QED BY <1>8, <1>3, <3>1 DEF LayerRun
  <2>2. graph[i].op = i /\ i \in Ops
    BY <2>1, <1>3, <1>5 DEF Ops
  <2>3. CASE ~cb[i].exec
    <3>1. phase' = "crashed"
      BY <1>8, <2>2, <2>3 DEF LayerRun
    <3> QED BY <1>1, <1>2, <1>5, <2>1, <2>2, <2>3, <3>1 DEF KernelInv, BreaksForTwoReasons
  <2>4. CASE cb[i].exec
    <3>1. phase' = "running" /\ i' = i + 1
      BY <1>8, <2>2, <2>4, <2>1 DEF LayerRun
    <3>2. \A k \in 1 .. i' - 1 : cb[k].exec
      <4>1. \A k \in 1 .. i' - 1 : k = i \/ k \in 1 .. i - 1
        BY <3>1, <1>3
      <4> QED BY <4>1, <2>1, <2>4 DEF KernelInv
    <3> QED BY <1>1, <1>2, <1>5, <2>1, <3>1, <3>2 DEF KernelInv, BreaksForTwoReasons
  <2> QED BY <2>3, <2>4
<1>9. ASSUME NEW failed \in SUBSET Ops, SessionSetup(failed) PROVE KernelInv'
  <2>1. /\ run' = 0 /\ phase = "build" /\ nOut = Len(prog.output) /\ nOp = Len(prog.ops)
    BY <1>1, <1>9 DEF SessionSetup, PhaseInv, ProgramNow
  <2>2. CASE \E p \in WalkedNodes : p[1] # "node"
    <3>1. phase' = "crashed"
      BY <1>9, <2>2 DEF SessionSetup
    <3>2. \E o \in Ops : NoBuilder(o)
      BY <1>1, <2>2, BuiltIsNodes
    <3> QED BY <1>1, <1>2, <3>1, <3>2 DEF KernelInv, BreaksForTwoReasons
  <2>3. CASE ~\E p \in WalkedNodes : p[1] # "node"
    <3>1. phase' = "ready"
      BY <1>9, <2>3 DEF SessionSetup
    <3>2. ~\E o \in Ops : NoBuilder(o)
      BY <1>1, <2>1, <2>3, UnbuiltIsWalked
    <3> QED BY <1>1, <1>2, <2>1, <3>1, <3>2 DEF KernelInv, BreaksForTwoReasons
  <2> QED BY <2>2, <2>3
<1>10. ASSUME NEW ok \in BOOLEAN, OpCall(ok) PROVE KernelInv'
  <2>1. phase' = "build"
    BY <1>10 DEF OpCall
  <2> QED BY <2>1 DEF KernelInv, BreaksForTwoReasons
<1>11. CASE UNCHANGED vars
  BY <1>4, <1>11 DEF vars
<1>12. CASE SessionInit \/ SetInput \/ SetOutput \/ SessionDeinit
  <2>1. UNCHANGED <<cb, i, run>> /\ (phase' = phase \/ phase' \notin {"crashed", "ready", "running"})
    BY <1>12 DEF SessionInit, SetInput, SetOutput, SessionDeinit
  <2> QED BY <1>4, <2>1
<1>13. ASSUME NEW k, UpdateInput(k) \/ UpdateOutput(k) \/ GetOutput(k) PROVE KernelInv'
  <2>1. UNCHANGED <<cb, i, run, phase>>
    BY <1>13 DEF UpdateInput, UpdateOutput, GetOutput
  <2> QED BY <1>4, <2>1
<1> QED BY <1>6, <1>7, <1>8, <1>9, <1>10, <1>11, <1>12, <1>13 DEF Next
-----------------------------------------------------------------------------
(* What the recursive definition of the wanted results gives.  There is no  *)
(* more than one function that satisfies its equation, because an operator  *)
(* reads results of earlier ones only.                                      *)

LEMMA ProducerFacts ==
  ASSUME ProgramNow, NEW o \in Ops, NEW t \in Ins(o)
  PROVE  \/ Producer(t) = {} /\ t \in Range(prog.input)
         \/ \E q \in 1 .. o - 1 : q \in Ops /\ Out(q) = t /\ Producer(t) = {q}
<1>1. t \in Range(prog.input) \/ \E q \in 1 .. o - 1 : Out(q) = t
  BY DEF ProgramNow
<1>2. CASE t \in Range(prog.input)
  BY <1>2 DEF ProgramNow, Producer
<1>3. ASSUME NEW q \in 1 .. o - 1, Out(q) = t
      PROVE  q \in Ops /\ Producer(t) = {q}
  <2>1. Len(prog.ops) \in Nat
    BY DEF ProgramNow
  <2>2. q \in Ops
    BY <2>1 DEF Ops
  <2>3. \A p \in Ops : Out(p) = t => p = q
    BY <1>3, <2>2 DEF ProgramNow
  <2> QED BY <1>3, <2>2, <2>3 DEF Producer
<1> QED BY <1>1, <1>2, <1>3

LEMMA SolutionUnique ==
  ASSUME ProgramNow, NEW version, NEW failing, NEW f, NEW g,
         Solves(f, version, failing), Solves(g, version, failing)
  PROVE  f = g
<1> SUFFICES ASSUME f # g PROVE FALSE
  OBVIOUS
<1> DEFINE D == {o \in Ops : f[o] # g[o]}
<1>1. \A o \in Ops : /\ f[o] = Expected(f, version, failing, o)
                     /\ g[o] = Expected(g, version, failing, o)
  BY DEF Solves
<1>2. D # {}
  BY DEF Solves
<1>3. Len(prog.ops) \in Nat
  BY DEF ProgramNow
<1>4. D \in SUBSET Nat
  BY <1>3 DEF Ops
<1>5. PICK m \in D : \A o \in D : m <= o
  BY <1>2, <1>4, Least
<1>6. m \in Ops /\ f[m] # g[m] /\ m \in Nat
  BY <1>4, <1>5
<1>7. ASSUME NEW t \in Ins(m) PROVE Source(f, version, t) = Source(g, version, t)
  <2>1. CASE Producer(t) = {}
    BY <2>1 DEF Source
  <2>2. ASSUME NEW q \in 1 .. m - 1, q \in Ops, Producer(t) = {q}
        PROVE  Source(f, version, t) = Source(g, version, t)
    <3>1. q \notin D
      BY <1>5, <1>6, <2>2
    <3>2. f[q] = g[q]
      BY <2>2, <3>1
    <3>3. (CHOOSE p \in Producer(t) : TRUE) = q
      BY <2>2
    <3> QED BY <2>2, <3>2, <3>3 DEF Source
  <2> QED BY <1>6, <2>1, <2>2, ProducerFacts
<1>8. {Source(f, version, t) : t \in Ins(m)} = {Source(g, version, t) : t \in Ins(m)}
  BY <1>7
<1>9. Expected(f, version, failing, m) = Expected(g, version, failing, m)
  BY <1>8 DEF Expected
<1> QED BY <1>1, <1>6, <1>9

LEMMA WantedIs ==
  ASSUME ProgramNow, NEW version, NEW failing, NEW val, Solves(val, version, failing)
  PROVE  Wanted(version, failing) = val
<1>1. Wanted(version, failing) = CHOOSE f : Solves(f, version, failing)
  BY DEF Wanted, Solves, Expected, Source
<1>2. Solves(CHOOSE f : Solves(f, version, failing), version, failing)
  OBVIOUS
<1> QED BY <1>1, <1>2, SolutionUnique
-----------------------------------------------------------------------------
(* The inputs and the results of a run. *)

(* A run takes the layers in the order of the operators. *)
LEMMA LayerOrder ==
  ASSUME ProgramNow, TypeOK, ShapeInv, PhaseInv, GraphInv, KernelInv, prog.mode = "graph",
         phase = "running"
  PROVE  /\ Len(graph) = Len(prog.ops) /\ i \in Nat /\ i >= 1 /\ i <= Len(prog.ops) + 1
         /\ \A k \in DOMAIN graph : graph[k].op = k /\ k \in Ops
         /\ i <= Len(graph) => i \in DOMAIN graph
<1>1. graph \in Seq(Layer) /\ i \in 1 .. Len(graph) + 1
  BY DEF TypeOK, ShapeInv
<1>2. \A o \in Ops : ~NoBuilder(o)
  BY DEF KernelInv, BreaksForTwoReasons
<1>3. nOp = Len(prog.ops)
  BY DEF PhaseInv
<1>4. Len(graph) \in Nat /\ DOMAIN graph = 1 .. Len(graph)
  BY <1>1
<1>5. Len(graph) = Len(prog.ops) /\ \A k \in 1 .. Len(graph) : graph[k].op = k
  BY <1>2, <1>3 DEF GraphInv
<1> QED BY <1>1, <1>4, <1>5 DEF Ops

LEMMA LayerRunEffect ==
  ASSUME ProgramNow, TypeOK, ShapeInv, PhaseInv, GraphInv, KernelInv, prog.mode = "graph",
         NEW ok \in BOOLEAN, LayerRun(ok)
  PROVE  /\ phase = "running" /\ i \in Ops /\ Out(i) \in Tensor
         /\ UNCHANGED <<prog, nIn, nOp, nOut, mode, cb, graph, gout, run, given, got>>
         /\ \/ phase' = "crashed" /\ UNCHANGED <<data, mem, bad, i>>
            \/ /\ phase' = "running" /\ i' = i + 1
               /\ bad' = IF ok THEN bad ELSE bad \cup {i}
               /\ data' = [data EXCEPT ![Out(i)] = Own(Out(i), run)]
               /\ DOMAIN mem' = DOMAIN mem \cup {Own(Out(i), run)}
               /\ \A b \in DOMAIN mem' :
                    mem'[b] = IF b # Own(Out(i), run) THEN mem[b]
                              ELSE IF ok THEN Computed(Ins(i)) ELSE Junk
<1>1. phase = "running" /\ i <= Len(graph)
  BY DEF LayerRun
<1>2. graph[i].op = i /\ i \in Ops
  BY <1>1, LayerOrder
<1>3. UNCHANGED <<prog, nIn, nOp, nOut, mode, cb, graph, gout, run, given, got>>
  BY DEF LayerRun, appl
<1>4. Out(i) \in Tensor
  BY <1>2 DEF ProgramNow
<1>5. CASE ~cb[i].exec
  BY <1>1, <1>2, <1>3, <1>4, <1>5 DEF LayerRun
<1>6. CASE cb[i].exec
  <2> DEFINE b == Own(Out(i), run)
  <2>1. /\ data' = [data EXCEPT ![Out(i)] = b]
        /\ mem' = [c \in DOMAIN mem \cup {b} |->
                     IF c # b THEN mem[c] ELSE IF ok THEN Computed(Ins(i)) ELSE Junk]
        /\ bad' = IF ok THEN bad ELSE bad \cup {i}
        /\ i' = i + 1 /\ phase' = phase
    BY <1>2, <1>6 DEF LayerRun
  <2> HIDE DEF b
  <2>2. /\ DOMAIN mem' = DOMAIN mem \cup {b}
        /\ \A c \in DOMAIN mem' :
             mem'[c] = IF c # b THEN mem[c] ELSE IF ok THEN Computed(Ins(i)) ELSE Junk
    BY <2>1
  <2> QED BY <1>1, <1>2, <1>3, <1>4, <2>1, <2>2 DEF b
<1> QED BY <1>5, <1>6

LEMMA InputsAndOutputs ==
  ASSUME ProgramNow
  PROVE  /\ \A o \in Ops : Out(o) \notin Range(prog.input)
         /\ \A t \in Range(prog.input) : t \in Tensor
         /\ \A k \in DOMAIN prog.input : prog.input[k] \in Range(prog.input)
         /\ \A k \in DOMAIN prog.output :
              prog.output[k] \in Tensor /\ prog.output[k] \notin Range(prog.input)
<1>1. \A o \in Ops : Out(o) \notin Range(prog.input)
  BY DEF ProgramNow
<1>2. \A t \in Range(prog.input) : t \in Tensor
  BY DEF ProgramNow, Range
<1>3. \A k \in DOMAIN prog.input : prog.input[k] \in Range(prog.input)
  BY DEF Range
<1>4. \A k \in DOMAIN prog.output : \E o \in Ops : prog.output[k] = Out(o) /\ Out(o) \in Tensor
  BY DEF ProgramNow
<1> QED BY <1>1, <1>2, <1>3, <1>4

LEMMA InputStep ==
  ASSUME TypeOK, ShapeInv, PhaseInv, prog.mode = "graph", BuildData, GraphInv, KernelInv, InputInv,
         PhaseInv', [Next]_vars
  PROVE  InputInv'
<1>1. ProgramNow /\ prog' = prog
  BY ProgramFacts, ProgKept DEF TypeOK
<1>2. Ops' = Ops /\ \A o : Ins(o)' = Ins(o)
  BY <1>1, SameProgram
<1>3. /\ run \in Nat /\ \A t \in Tensor : given[t] \in Nat
      /\ \A t \in Range(prog.input) : t \in Tensor
  BY <1>1, InputsAndOutputs, RunsAssumption DEF TypeOK
<1>4. ASSUME UNCHANGED <<data, mem, given, run>>,
             phase' = phase \/ (phase = "running" /\ phase' = "ready")
                            \/ phase' \in {"closed", "crashed"}
      PROVE  InputInv'
  BY <1>1, <1>2, <1>3, <1>4 DEF InputInv
<1>5. CASE phase' \in {"open", "build"}
  <2>1. run' = 0 /\ (\A t \in Tensor : given'[t] = 0) /\ DOMAIN mem' = {User(t, 0) : t \in Tensor}
    BY <1>5 DEF PhaseInv
  <2>2. \A t \in Tensor : \A v \in Nat : User(t, v) \in DOMAIN mem' => v = 0
    BY <2>1, PointerFacts
  <2> QED BY <1>1, <1>3, <1>5, <2>1, <2>2 DEF InputInv
<1>6. CASE SessionRun
  <2>1. phase = "ready" /\ phase' = "running" /\ run' = run + 1 /\ UNCHANGED <<data, mem, given>>
    BY <1>1, <1>6, RuntimeIsGref DEF SessionRun
  <2> QED BY <1>1, <1>2, <1>3, <2>1 DEF InputInv
<1>7. ASSUME NEW failed \in SUBSET Ops, SessionSetup(failed) PROVE InputInv'
  <2>1. /\ phase = "build" /\ UNCHANGED <<data, mem, given, run>> /\ nOp = Len(prog.ops)
        /\ run = 0 /\ phase' \in {"ready", "crashed"}
        /\ \A t \in Tensor : given[t] = 0
    BY <1>1, <1>7 DEF SessionSetup, PhaseInv, ProgramNow
  <2>2. \A o \in Ops : \A t \in Ins(o) \cap Range(prog.input) : data[t] = Node(t)
    BY <2>1 DEF BuildData, Ops
  <2> QED BY <1>1, <1>2, <1>3, <2>1, <2>2 DEF InputInv
<1>8. ASSUME NEW ok \in BOOLEAN, LayerRun(ok) PROVE InputInv'
  <2>1. /\ phase = "running" /\ i \in Ops /\ Out(i) \in Tensor /\ UNCHANGED <<prog, given, run>>
        /\ \/ phase' = "crashed" /\ UNCHANGED <<data, mem>>
           \/ /\ phase' = "running"
              /\ data' = [data EXCEPT ![Out(i)] = Own(Out(i), run)]
              /\ DOMAIN mem' = DOMAIN mem \cup {Own(Out(i), run)}
              /\ \A b \in DOMAIN mem : b # Own(Out(i), run) => mem'[b] = mem[b]
    BY <1>1, <1>8, LayerRunEffect
  <2>2. CASE phase' = "crashed" /\ UNCHANGED <<data, mem>>
    BY <1>4, <2>1, <2>2
  <2>3. CASE /\ phase' = "running"
             /\ data' = [data EXCEPT ![Out(i)] = Own(Out(i), run)]
             /\ DOMAIN mem' = DOMAIN mem \cup {Own(Out(i), run)}
             /\ \A b \in DOMAIN mem : b # Own(Out(i), run) => mem'[b] = mem[b]
    <3>1. \A t \in Range(prog.input) : t # Out(i) /\ data'[t] = data[t]
      BY <1>1, <1>3, <2>1, <2>3, InputsAndOutputs DEF ShapeInv
    <3>2. \A t, v : /\ User(t, v) \in DOMAIN mem' <=> User(t, v) \in DOMAIN mem
                    /\ User(t, v) \in DOMAIN mem => mem'[User(t, v)] = mem[User(t, v)]
      BY <2>3, PointerFacts
    <3> QED BY <1>1, <1>2, <1>3, <2>1, <2>3, <3>1, <3>2 DEF InputInv
  <2> QED BY <2>1, <2>2, <2>3
<1>9. ASSUME NEW k \in DOMAIN prog.input, UpdateInput(k) PROVE InputInv'
  <2> DEFINE u == prog.input[k]
             b == User(u, run + 1)
  <2>1. /\ phase = "ready" /\ given[u] <= run /\ UNCHANGED <<prog, phase, run>>
        /\ given' = [given EXCEPT ![u] = run + 1]
        /\ mem' = [c \in DOMAIN mem \cup {b} |-> IF c = b THEN {<<u, run + 1>>} ELSE mem[c]]
        /\ data' = [data EXCEPT ![u] = b]
    BY <1>9 DEF UpdateInput, appl
  <2>2. u \in Range(prog.input) /\ u \in Tensor
    BY <1>1, InputsAndOutputs
  <2> HIDE DEF u, b
  <2>3. \A t \in Tensor : /\ data'[t] = IF t = u THEN b ELSE data[t]
                          /\ given'[t] = IF t = u THEN run + 1 ELSE given[t]
    BY <2>1, <2>2 DEF ShapeInv, TypeOK
  <2>4. DOMAIN mem' = DOMAIN mem \cup {b} /\ mem'[b] = {<<u, run + 1>>}
    BY <2>1
  <2>5. \A c \in DOMAIN mem : c # b => mem'[c] = mem[c]
    BY <2>1
  <2>6. ASSUME NEW t \in Range(prog.input), t # u, NEW v
        PROVE  /\ User(t, v) # b /\ (User(t, v) \in DOMAIN mem' <=> User(t, v) \in DOMAIN mem)
               /\ User(t, v) \in DOMAIN mem => mem'[User(t, v)] = mem[User(t, v)]
    <3>1. User(t, v) # b
      BY <2>6, PointerFacts DEF b
    <3> QED BY <3>1, <2>4, <2>5
  <2>7. ASSUME NEW t \in Range(prog.input)
        PROVE  /\ \A v \in Nat : User(t, v) \in DOMAIN mem' => v <= given'[t]
               /\ given'[t] > 0 =>
                    /\ data'[t] = User(t, given'[t]) /\ User(t, given'[t]) \in DOMAIN mem'
                    /\ mem'[User(t, given'[t])] = {<<t, given'[t]>>}
               /\ given'[t] = 0 /\ (\E o \in Ops : t \in Ins(o)) => data'[t] = Node(t)
               /\ given'[t] <= run + 1
    <3>1. CASE t = u
      <4>1. given'[t] = run + 1 /\ data'[t] = User(t, run + 1)
        BY <3>1, <2>2, <2>3 DEF b
      <4>2. User(t, run + 1) \in DOMAIN mem' /\ mem'[User(t, run + 1)] = {<<t, run + 1>>}
        BY <3>1, <2>4 DEF b
      <4>3. ASSUME NEW v \in Nat, User(t, v) \in DOMAIN mem' PROVE v <= run + 1
        <5>1. CASE User(t, v) = b
          <6>1. v = run + 1
            BY <3>1, <5>1, PointerFacts DEF b
          <6> QED BY <6>1, <1>3
        <5>2. CASE User(t, v) \in DOMAIN mem
          <6>1. v <= given[t] /\ given[t] <= run /\ given[t] \in Nat
            BY <1>3, <2>1, <3>1, <5>2 DEF InputInv
          <6> QED BY <6>1, <1>3
        <5> QED BY <4>3, <5>1, <5>2, <2>4
      <4> QED BY <1>3, <4>1, <4>2, <4>3
    <3>2. CASE t # u
      <4>1. data'[t] = data[t] /\ given'[t] = given[t] /\ given[t] \in Nat
        BY <1>3, <2>3, <3>2
      <4> QED BY <1>3, <2>1, <2>6, <3>2, <4>1 DEF InputInv
    <3> QED BY <3>1, <3>2
  <2> QED BY <1>1, <1>2, <2>1, <2>7 DEF InputInv
<1>10. ASSUME NEW k \in DOMAIN prog.output, UpdateOutput(k) PROVE InputInv'
  <2> DEFINE u == prog.output[k]
             b == User(u, run + 1)
  <2>1. /\ phase = "ready" /\ UNCHANGED <<prog, phase, run, given>>
        /\ mem' = [c \in DOMAIN mem \cup {b} |-> IF c = b THEN Junk ELSE mem[c]]
        /\ data' = [data EXCEPT ![u] = b]
    BY <1>10 DEF UpdateOutput, appl
  <2>2. u \notin Range(prog.input) /\ u \in Tensor
    BY <1>1, InputsAndOutputs
  <2> HIDE DEF u, b
  <2>3. \A t \in Range(prog.input) : data'[t] = data[t]
    BY <1>3, <2>1, <2>2 DEF ShapeInv
  <2>4. DOMAIN mem' = DOMAIN mem \cup {b} /\ \A c \in DOMAIN mem : c # b => mem'[c] = mem[c]
    BY <2>1
  <2>5. \A t \in Range(prog.input) : \A v :
          /\ User(t, v) \in DOMAIN mem' <=> User(t, v) \in DOMAIN mem
          /\ User(t, v) \in DOMAIN mem => mem'[User(t, v)] = mem[User(t, v)]
    <3>1. \A t \in Range(prog.input) : \A v : User(t, v) # b
      BY <2>2, PointerFacts DEF b
    <3> QED BY <3>1, <2>4
  <2> QED BY <1>1, <1>2, <2>1, <2>3, <2>5 DEF InputInv
<1>11. ASSUME NEW k, GetOutput(k) PROVE InputInv'
  <2>1. UNCHANGED <<data, mem, given, run, phase>>
    BY <1>11 DEF GetOutput
  <2> QED BY <1>4, <2>1
<1>12. CASE RunDone \/ SessionDeinit \/ UNCHANGED vars
  <2>1. /\ UNCHANGED <<data, mem, given, run>>
        /\ phase' = phase \/ (phase = "running" /\ phase' = "ready") \/ phase' \in {"closed", "crashed"}
    BY <1>12 DEF RunDone, SessionDeinit, vars
  <2> QED BY <1>4, <2>1
<1>13. ASSUME SessionInit \/ SetInput \/ SetOutput \/ \E ok \in BOOLEAN : OpCall(ok)
       PROVE  phase' \in {"open", "build"}
  BY <1>13 DEF SessionInit, SetInput, SetOutput, OpCall
<1> QED BY <1>5, <1>6, <1>7, <1>8, <1>9, <1>10, <1>11, <1>12, <1>13 DEF Next

(* What an operator of the run reads is what its equation says. *)
LEMMA ReadsSources ==
  ASSUME ProgramNow, TypeOK, ShapeInv, PhaseInv, GraphInv, KernelInv, InputInv, ResultInv,
         prog.mode = "graph", phase = "running", i \in Ops, AllGiven
  PROVE  Computed(Ins(i)) = UNION {Source(Results, GivenVersion, t) : t \in Ins(i)}
<1>1. ASSUME NEW t \in Ins(i) PROVE Read(t) = Source(Results, GivenVersion, t)
  <2>1. t \in Tensor
    BY DEF ProgramNow
  <2>2. CASE Producer(t) = {} /\ t \in Range(prog.input)
    <3>1. Source(Results, GivenVersion, t) = IF given[t] = 0 THEN Junk ELSE {<<t, given[t]>>}
      BY <2>1, <2>2 DEF Source, GivenVersion
    <3>2. CASE given[t] = 0
      <4>1. data[t] = Node(t)
        BY <2>2, <3>2 DEF InputInv
      <4>2. Node(t) \notin DOMAIN mem
        BY DEF TypeOK, Node
      <4> QED BY <3>1, <3>2, <4>1, <4>2 DEF Read
    <3>3. CASE given[t] # 0
      <4>1. given[t] > 0
        BY <2>1, <3>3, RunsAssumption DEF TypeOK
      <4>2. data[t] = User(t, given[t]) /\ data[t] \in DOMAIN mem /\ mem[data[t]] = {<<t, given[t]>>}
        BY <2>2, <4>1 DEF InputInv
      <4> QED BY <3>1, <3>3, <4>2 DEF Read
    <3> QED BY <3>2, <3>3
  <2>3. ASSUME NEW q \in 1 .. i - 1, q \in Ops, Out(q) = t, Producer(t) = {q}
        PROVE  Read(t) = Source(Results, GivenVersion, t)
    <3>1. q \in 1 .. Done
      BY <2>3 DEF Done
    <3>2. data[t] = Own(t, run) /\ Own(t, run) \in DOMAIN mem
      BY <2>3, <3>1 DEF ResultInv
    <3>3. (CHOOSE p \in Producer(t) : TRUE) = q /\ Producer(t) # {}
      BY <2>3
    <3>4. Source(Results, GivenVersion, t) = mem[Own(t, run)]
      BY <2>3, <3>3 DEF Source, Results
    <3> QED BY <3>2, <3>4 DEF Read
  <2> QED BY <2>2, <2>3, ProducerFacts
<1>2. {Read(t) : t \in Ins(i)} = {Source(Results, GivenVersion, t) : t \in Ins(i)}
  BY <1>1
<1> QED BY <1>2 DEF Computed

(* An equation does not change with results it does not read. *)
LEMMA ExpectedSame ==
  ASSUME ProgramNow, NEW o \in Ops, NEW f, NEW g, NEW version, NEW v2, NEW failing, NEW failing2,
         o \in failing2 <=> o \in failing,
         \A t \in Range(prog.input) : v2[t] = version[t],
         \A q \in Ops : q < o => f[q] = g[q]
  PROVE  Expected(f, version, failing, o) = Expected(g, v2, failing2, o)
<1>1. ASSUME NEW t \in Ins(o) PROVE Source(f, version, t) = Source(g, v2, t)
  <2>1. CASE Producer(t) = {} /\ t \in Range(prog.input)
    BY <2>1 DEF Source
  <2>2. ASSUME NEW q \in 1 .. o - 1, q \in Ops, Producer(t) = {q}
        PROVE  Source(f, version, t) = Source(g, v2, t)
    <3>1. o \in Nat
      BY DEF Ops, ProgramNow
    <3>2. f[q] = g[q]
      BY <2>2, <3>1
    <3>3. (CHOOSE p \in Producer(t) : TRUE) = q /\ Producer(t) # {}
      BY <2>2
    <3> QED BY <3>2, <3>3 DEF Source
  <2> QED BY <2>1, <2>2, ProducerFacts
<1>2. {Source(f, version, t) : t \in Ins(o)} = {Source(g, v2, t) : t \in Ins(o)}
  BY <1>1
<1> QED BY <1>2 DEF Expected

(* The equations in the next state. *)
LEMMA ExpectedNext ==
  ASSUME prog' = prog
  PROVE  /\ \A o : Expected(Results, GivenVersion, bad, o)' =
                     Expected(Results', GivenVersion', bad', o)
         /\ \A o : Expected(Held, FirstVersion, NoKernel, o)' =
                     Expected(Held', FirstVersion, NoKernel', o)
         /\ \A val : Solves(val, GivenVersion, bad)' = Solves(val, GivenVersion', bad')
  BY DEF Expected, Source, Producer, Ins, Ops, Out, Junk, Solves, FirstVersion

LEMMA ResultStep ==
  ASSUME TypeOK, ShapeInv, PhaseInv, prog.mode = "graph", GraphInv, KernelInv, InputInv, ResultInv,
         [Next]_vars
  PROVE  ResultInv'
<1>1. ProgramNow /\ prog' = prog
  BY ProgramFacts, ProgKept DEF TypeOK
<1>2. /\ Ops' = Ops /\ \A o : Out(o)' = Out(o)
      /\ \A o : Expected(Results, GivenVersion, bad, o)' = Expected(Results', GivenVersion', bad', o)
  BY <1>1, SameProgram, ExpectedNext
<1>3. /\ run \in Nat /\ Len(prog.ops) \in Nat /\ i \in Nat
      /\ \A t \in Range(prog.input) : t \in Tensor
      /\ \A o \in Ops : o \in Nat /\ Out(o) \in Tensor
  <2>1. run \in Nat /\ i \in Nat
    BY DEF TypeOK
  <2>2. Len(prog.ops) \in Nat
    BY <1>1 DEF ProgramNow
  <2>3. \A o \in Ops : o \in Nat
    BY <2>2 DEF Ops
  <2>4. \A o \in Ops : Out(o) \in Tensor
    BY <1>1 DEF ProgramNow
  <2>5. \A t \in Range(prog.input) : t \in Tensor
    BY <1>1, InputsAndOutputs
  <2> QED BY <2>1, <2>2, <2>3, <2>4, <2>5
<1>4. ASSUME phase' \notin {"running", "ready"} PROVE ResultInv'
  <2>1. Done' = 0
    BY <1>4 DEF Done
  <2>2. \A o \in 1 .. Done' : FALSE
    BY <2>1
  <2> QED BY <1>4, <2>2 DEF ResultInv
<1>5. ASSUME Done' = 0, phase' = "running" => bad' = {} PROVE ResultInv'
  <2>1. \A o \in 1 .. Done' : FALSE
    BY <1>5
  <2> QED BY <1>5, <2>1 DEF ResultInv
<1>6. Done \in Nat /\ \A o \in 1 .. Done : o \in Ops
  <2>1. CASE phase = "running"
    <3>1. i >= 1 /\ i <= Len(prog.ops) + 1
      BY <1>1, <2>1, LayerOrder
    <3> QED BY <1>3, <2>1, <3>1 DEF Done, Ops
  <2>2. CASE phase # "running"
    BY <1>3, <2>2 DEF Done, Ops
  <2> QED BY <2>1, <2>2
<1>7. ASSUME UNCHANGED <<given, run, bad>>, phase' = "ready", Done' = Done,
             \A o \in 1 .. Done : /\ Own(Out(o), run) \in DOMAIN mem'
                                  /\ mem'[Own(Out(o), run)] = mem[Own(Out(o), run)]
                                  /\ data'[Out(o)] = data[Out(o)] \/ data'[Out(o)][1] = "user"
      PROVE  ResultInv'
  <2>1. GivenVersion' = GivenVersion /\ AllGiven' = AllGiven
    BY <1>7 DEF GivenVersion, AllGiven
  <2>2. \A o \in 1 .. Done : Results'[o] = Results[o]
    BY <1>2, <1>6, <1>7 DEF Results
  <2>3. ASSUME NEW o \in 1 .. Done, AllGiven
        PROVE  Results'[o] = Expected(Results', GivenVersion', bad', o)
    <3>1. \A q \in Ops : q < o => Results'[q] = Results[q]
      <4>1. \A q \in Ops : q < o => q \in 1 .. Done
        BY <1>3, <1>6 DEF Ops
      <4> QED BY <2>2, <4>1
    <3>2. Expected(Results, GivenVersion, bad, o) = Expected(Results', GivenVersion', bad', o)
      BY <1>1, <1>6, <1>7, <2>1, <3>1, ExpectedSame
    <3> QED BY <2>2, <2>3, <3>2 DEF ResultInv
  <2> QED BY <1>2, <1>7, <2>1, <2>3 DEF ResultInv
<1>8. CASE SessionRun
  <2>1. phase' = "running" /\ i' = 1 /\ bad' = {}
    BY <1>1, <1>8, RuntimeIsGref DEF SessionRun
  <2>2. Done' = 0
    BY <2>1 DEF Done
  <2> QED BY <1>5, <2>1, <2>2
<1>9. ASSUME NEW failed \in SUBSET Ops, SessionSetup(failed) PROVE ResultInv'
  <2>1. run' = 0 /\ phase' # "running"
    BY <1>9 DEF SessionSetup, PhaseInv
  <2>2. Done' = 0
    BY <2>1 DEF Done
  <2> QED BY <1>5, <2>1, <2>2
<1>10. ASSUME NEW ok \in BOOLEAN, LayerRun(ok) PROVE ResultInv'
  <2> DEFINE b == Own(Out(i), run)
  <2>1. /\ phase = "running" /\ i \in Ops /\ Out(i) \in Tensor /\ UNCHANGED <<prog, given, run>>
        /\ \/ phase' = "crashed"
           \/ /\ phase' = "running" /\ i' = i + 1
              /\ bad' = IF ok THEN bad ELSE bad \cup {i}
              /\ data' = [data EXCEPT ![Out(i)] = b]
              /\ DOMAIN mem' = DOMAIN mem \cup {b}
              /\ \A c \in DOMAIN mem' :
                   mem'[c] = IF c # b THEN mem[c] ELSE IF ok THEN Computed(Ins(i)) ELSE Junk
    BY <1>1, <1>10, LayerRunEffect
  <2>2. CASE phase' = "crashed"
    BY <1>4, <2>2
  <2>3. CASE /\ phase' = "running" /\ i' = i + 1
             /\ bad' = IF ok THEN bad ELSE bad \cup {i}
             /\ data' = [data EXCEPT ![Out(i)] = b]
             /\ DOMAIN mem' = DOMAIN mem \cup {b}
             /\ \A c \in DOMAIN mem' :
                  mem'[c] = IF c # b THEN mem[c] ELSE IF ok THEN Computed(Ins(i)) ELSE Junk
    <3>1. Done = i - 1 /\ Done' = i /\ i \in Nat /\ \A o \in bad : o < i
      BY <2>1, <2>3, <1>3 DEF Done, ResultInv
    <3>2. \A o \in bad' : o < i'
      <4>1. \A o \in bad' : o \in Nat
        <5>1. bad \subseteq Ops
          BY DEF TypeOK
        <5> QED BY <1>3, <2>1, <2>3, <5>1
      <4> QED BY <2>3, <3>1, <4>1
    <3>3. GivenVersion' = GivenVersion /\ AllGiven' = AllGiven
      BY <2>1 DEF GivenVersion, AllGiven
    <3>4. ASSUME NEW o \in Ops, o < i
          PROVE  /\ Own(Out(o), run) \in DOMAIN mem' /\ data'[Out(o)] = Own(Out(o), run)
                 /\ Results'[o] = Results[o] /\ (o \in bad' <=> o \in bad)
                 /\ AllGiven => Results[o] = Expected(Results, GivenVersion, bad, o)
      <4>1. o \in 1 .. Done /\ o # i
        BY <1>3, <3>1, <3>4 DEF Ops
      <4>2. Out(o) # Out(i)
        BY <1>1, <2>1, <4>1 DEF ProgramNow
      <4>3. Own(Out(o), run) # b
        BY <4>2, PointerFacts
      <4>4. Own(Out(o), run) \in DOMAIN mem /\ data[Out(o)] = Own(Out(o), run)
        BY <2>1, <4>1 DEF ResultInv
      <4>5. mem'[Own(Out(o), run)] = mem[Own(Out(o), run)] /\ Own(Out(o), run) \in DOMAIN mem'
        BY <2>3, <4>3, <4>4
      <4>6. Results'[o] = Results[o]
        BY <1>2, <2>1, <4>5 DEF Results
      <4>7. data'[Out(o)] = data[Out(o)]
        BY <1>3, <2>3, <4>2 DEF ShapeInv
      <4>8. o \in bad' <=> o \in bad
        BY <2>3, <4>1
      <4> QED BY <4>1, <4>4, <4>5, <4>6, <4>7, <4>8 DEF ResultInv
    <3>5. /\ b \in DOMAIN mem' /\ data'[Out(i)] = b
          /\ Results'[i] = IF ok THEN Computed(Ins(i)) ELSE Junk
      <4>1. mem'[b] = IF ok THEN Computed(Ins(i)) ELSE Junk
        BY <2>3
      <4>2. Results'[i] = mem'[b]
        BY <1>2, <2>1 DEF Results
      <4> QED BY <2>1, <2>3, <4>1, <4>2 DEF ShapeInv
    <3>6. ASSUME NEW o \in Ops, o < i, AllGiven
          PROVE  Results'[o] = Expected(Results', GivenVersion', bad', o)
      <4>1. \A q \in Ops : q < o => Results'[q] = Results[q]
        <5>1. \A q \in Ops : q < o => q < i
          BY <1>3, <3>1, <3>6
        <5> QED BY <3>4, <5>1
      <4>2. Expected(Results, GivenVersion, bad, o) = Expected(Results', GivenVersion', bad', o)
        BY <1>1, <3>3, <3>4, <3>6, <4>1, ExpectedSame
      <4> QED BY <3>4, <3>6, <4>2
    <3>7. ASSUME AllGiven
          PROVE  Results'[i] = Expected(Results', GivenVersion', bad', i)
      <4>1. CASE ~ok
        BY <2>3, <3>5, <4>1 DEF Expected
      <4>2. CASE ok
        <5>1. i \notin bad
          BY <3>1
        <5>2. Computed(Ins(i)) = Expected(Results, GivenVersion, bad, i)
          BY <1>1, <2>1, <3>7, <5>1, ReadsSources DEF Expected
        <5>3. \A q \in Ops : q < i => Results[q] = Results'[q]
          BY <3>4
        <5>4. bad' = bad
          BY <2>3, <4>2
        <5>5. Expected(Results, GivenVersion, bad, i) = Expected(Results', GivenVersion', bad', i)
          BY <1>1, <2>1, <3>3, <5>3, <5>4, ExpectedSame
        <5> QED BY <3>5, <4>2, <5>2, <5>5
      <4> QED BY <4>1, <4>2
    <3>8. \A o \in 1 .. i : o = i \/ (o < i /\ o \in Ops)
      BY <1>3, <2>1, <3>1 DEF Ops
    <3> HIDE DEF b
    <3>9. \A o \in 1 .. Done' :
            /\ Own(Out(o), run) \in DOMAIN mem' /\ data'[Out(o)] = Own(Out(o), run)
            /\ AllGiven => Results'[o] = Expected(Results', GivenVersion', bad', o)
      BY <3>1, <3>4, <3>5, <3>6, <3>7, <3>8 DEF b
    <3> QED BY <1>2, <2>1, <3>2, <3>3, <3>9 DEF ResultInv
  <2> QED BY <2>1, <2>2, <2>3
<1>11. CASE RunDone
  <2>1. /\ phase = "running" /\ phase' = "ready" /\ i > Len(graph)
        /\ UNCHANGED <<prog, data, mem, given, run, bad>>
    BY <1>11 DEF RunDone, appl
  <2>2. Done = Len(prog.ops) /\ Done' = Len(prog.ops)
    <3>1. run > 0
      BY <2>1 DEF PhaseInv
    <3>2. i = Len(prog.ops) + 1
      BY <1>1, <1>3, <2>1, LayerOrder
    <3> QED BY <1>3, <2>1, <3>1, <3>2 DEF Done
  <2> QED BY <1>7, <2>1, <2>2 DEF ResultInv
<1>12. ASSUME NEW k \in DOMAIN prog.input, UpdateInput(k) PROVE ResultInv'
  <2> DEFINE u == prog.input[k]
             b == User(u, run + 1)
  <2>1. /\ phase = "ready" /\ UNCHANGED <<prog, phase, run, i, bad>>
        /\ given' = [given EXCEPT ![u] = run + 1]
        /\ DOMAIN mem' = DOMAIN mem \cup {b}
        /\ data' = [data EXCEPT ![u] = b]
    BY <1>12 DEF UpdateInput, appl
  <2>2. u \in Tensor /\ \A o \in Ops : Out(o) # u
    BY <1>1, InputsAndOutputs
  <2> HIDE DEF u, b
  <2>3. ~AllGiven'
    <3>1. given'[u] = run + 1
      BY <2>1, <2>2 DEF TypeOK
    <3>2. ~(given'[u] <= run')
      BY <1>3, <2>1, <3>1
    <3> QED BY <2>2, <3>2 DEF AllGiven
  <2>4. Done' = Done
    BY <2>1 DEF Done
  <2>5. \A o \in Ops : data'[Out(o)] = data[Out(o)]
    BY <1>3, <2>1, <2>2 DEF ShapeInv
  <2> QED BY <1>2, <1>6, <2>1, <2>3, <2>4, <2>5 DEF ResultInv
<1>13. ASSUME NEW k \in DOMAIN prog.output, UpdateOutput(k) PROVE ResultInv'
  <2> DEFINE u == prog.output[k]
             b == User(u, run + 1)
  <2>1. /\ phase = "ready" /\ UNCHANGED <<prog, phase, run, given, bad>>
        /\ mem' = [c \in DOMAIN mem \cup {b} |-> IF c = b THEN Junk ELSE mem[c]]
        /\ data' = [data EXCEPT ![u] = b]
    BY <1>13 DEF UpdateOutput, appl
  <2>2. u \in Tensor /\ b[1] = "user" /\ \A t, r : Own(t, r) # b
    BY <1>1, InputsAndOutputs, PointerFacts
  <2> HIDE DEF u, b
  <2>3. \A o \in Ops : data'[Out(o)] = data[Out(o)] \/ data'[Out(o)][1] = "user"
    BY <1>3, <2>1, <2>2 DEF ShapeInv
  <2>4. Done' = Done
    BY <2>1 DEF Done
  <2>5. DOMAIN mem' = DOMAIN mem \cup {b} /\ \A c \in DOMAIN mem : c # b => mem'[c] = mem[c]
    BY <2>1
  <2>6. \A o \in 1 .. Done : Own(Out(o), run) \in DOMAIN mem
    BY DEF ResultInv
  <2>7. \A o \in 1 .. Done : /\ Own(Out(o), run) \in DOMAIN mem'
                             /\ mem'[Own(Out(o), run)] = mem[Own(Out(o), run)]
    BY <2>2, <2>5, <2>6
  <2> QED BY <1>6, <1>7, <2>1, <2>3, <2>4, <2>7
<1>14. ASSUME NEW k, GetOutput(k) PROVE ResultInv'
  <2>1. UNCHANGED <<prog, data, mem, given, run, bad, phase>> /\ phase = "ready"
    BY <1>14 DEF GetOutput, appl
  <2>2. Done' = Done
    BY <2>1 DEF Done
  <2> QED BY <1>7, <2>1, <2>2 DEF ResultInv
<1>15. CASE UNCHANGED vars
  <2>1. UNCHANGED <<prog, data, mem, given, run, bad, phase, i>>
    BY <1>15 DEF vars, appl
  <2>2. Done' = Done /\ Results' = Results /\ GivenVersion' = GivenVersion /\ AllGiven' = AllGiven
    BY <1>2, <2>1 DEF Done, Results, GivenVersion, AllGiven
  <2> QED BY <1>2, <2>1, <2>2 DEF ResultInv
<1>16. ASSUME SessionInit \/ SetInput \/ SetOutput \/ SessionDeinit \/ \E ok \in BOOLEAN : OpCall(ok)
       PROVE  ResultInv'
  <2>1. phase' \notin {"running", "ready"}
    BY <1>16 DEF SessionInit, SetInput, SetOutput, SessionDeinit, OpCall
  <2> QED BY <1>4, <2>1
<1> QED BY <1>8, <1>9, <1>10, <1>11, <1>12, <1>13, <1>14, <1>15, <1>16 DEF Next
-----------------------------------------------------------------------------
(* What the application gets, and layer mode. *)

LEMMA GotStep ==
  ASSUME TypeOK, ShapeInv, PhaseInv, GraphModeInv, GotInv, [Next]_vars
  PROVE  GotInv'
<1>1. ProgramNow /\ prog' = prog
  BY ProgramFacts, ProgKept DEF TypeOK
<1>2. /\ \A t : Producer(t)' = Producer(t)
      /\ \A val : Solves(val, GivenVersion, bad)' = Solves(val, GivenVersion', bad')
  BY <1>1, SameProgram, ExpectedNext
<1>3. ASSUME \A k \in DOMAIN prog.output : got'[k] = {} PROVE GotInv'
  BY <1>1, <1>3 DEF GotInv
<1>4. ASSUME UNCHANGED <<given, bad>>,
             \A k \in DOMAIN prog.output :
               \/ got'[k] = got[k]
               \/ \E val, o : /\ Solves(val, GivenVersion, bad)
                              /\ o \in Producer(prog.output[k]) /\ got'[k] = val[o]
      PROVE  GotInv'
  <2>1. GivenVersion' = GivenVersion
    BY <1>4 DEF GivenVersion
  <2>2. \A val : Solves(val, GivenVersion, bad)' = Solves(val, GivenVersion, bad)
    BY <1>2, <1>4, <2>1
  <2>3. ASSUME NEW k \in DOMAIN prog.output, got'[k] # {}
        PROVE  \E val, o : /\ Solves(val, GivenVersion, bad)
                           /\ o \in Producer(prog.output[k]) /\ got'[k] = val[o]
    BY <1>4, <2>3 DEF GotInv
  <2> QED BY <1>1, <1>2, <2>2, <2>3 DEF GotInv
<1>5. CASE UNCHANGED vars
  BY <1>4, <1>5 DEF vars
<1>6. CASE SessionInit \/ SetInput \/ SetOutput \/ RunDone \/ SessionDeinit
  <2>1. UNCHANGED <<given, bad, got>>
    BY <1>6 DEF SessionInit, SetInput, SetOutput, RunDone, SessionDeinit
  <2> QED BY <1>4, <2>1
<1>7. CASE SessionRun
  BY <1>3, <1>7 DEF SessionRun
<1>8. ASSUME NEW ok \in BOOLEAN, OpCall(ok) PROVE GotInv'
  <2>1. UNCHANGED <<given, bad, got>>
    BY <1>8 DEF OpCall
  <2> QED BY <1>4, <2>1
<1>9. ASSUME NEW ok \in BOOLEAN, LayerRun(ok) PROVE GotInv'
  <2>1. UNCHANGED got /\ phase = "running"
    BY <1>9 DEF LayerRun
  <2> QED BY <1>3, <2>1 DEF PhaseInv
<1>10. ASSUME NEW failed \in SUBSET Ops, SessionSetup(failed) PROVE GotInv'
  <2>1. UNCHANGED <<given, bad, got>>
    BY <1>10 DEF SessionSetup
  <2> QED BY <1>4, <2>1
<1>11. ASSUME NEW k \in DOMAIN prog.input, UpdateInput(k) PROVE GotInv'
  BY <1>3, <1>11 DEF UpdateInput
<1>12. ASSUME NEW k \in DOMAIN prog.output, UpdateOutput(k) PROVE GotInv'
  <2>1. UNCHANGED <<given, bad, got>>
    BY <1>12 DEF UpdateOutput
  <2> QED BY <1>4, <2>1
<1>13. ASSUME NEW k \in DOMAIN prog.output, GetOutput(k) PROVE GotInv'
  <2> DEFINE t == prog.output[k]
  <2>1. /\ phase = "ready" /\ run > 0 /\ AllGiven /\ data[t][1] # "user"
        /\ UNCHANGED <<given, bad>> /\ got' = [got EXCEPT ![k] = Read(t)]
    BY <1>13 DEF GetOutput, AllGiven
  <2>2. prog.mode = "graph"
    BY <1>1, <2>1 DEF PhaseInv, ProgramNow
  <2>3. Done = Len(prog.ops)
    BY <2>1 DEF Done
  <2>4. PICK o \in Ops : Out(o) = t
    BY <1>1 DEF ProgramNow
  <2>5. \A q \in Ops : q \in 1 .. Done
    BY <2>3 DEF Ops
  <2>6. \A q \in Ops : Results[q] = Expected(Results, GivenVersion, bad, q)
    BY <2>1, <2>2, <2>5 DEF GraphModeInv, ResultInv
  <2>7. Solves(Results, GivenVersion, bad)
    <3>1. Results = [q \in Ops |-> Results[q]]
      BY DEF Results
    <3> HIDE DEF Results
    <3> QED BY <2>6, <3>1 DEF Solves
  <2>8. data[t] = Own(t, run) /\ Own(t, run) \in DOMAIN mem
    BY <2>1, <2>2, <2>4, <2>5 DEF GraphModeInv, ResultInv
  <2>9. Read(t) = Results[o] /\ o \in Producer(t)
    BY <2>4, <2>8 DEF Read, Results, Producer
  <2>10. \A l \in DOMAIN prog.output : got'[l] = IF l = k THEN Read(t) ELSE got[l]
    BY <2>1 DEF ShapeInv
  <2> QED BY <1>4, <2>1, <2>7, <2>9, <2>10
<1> QED BY <1>5, <1>6, <1>7, <1>8, <1>9, <1>10, <1>11, <1>12, <1>13 DEF Next

LEMMA LayerStep ==
  ASSUME TypeOK, ShapeInv, PhaseInv, LayerModeInv, prog.mode = "layer", [Next]_vars
  PROVE  LayerModeInv'
<1>1. ProgramNow /\ prog' = prog
  BY ProgramFacts, ProgKept DEF TypeOK
<1>2. /\ Ops' = Ops /\ \A o : Out(o)' = Out(o)
      /\ \A o : Expected(Held, FirstVersion, NoKernel, o)' =
                Expected(Held', FirstVersion, NoKernel', o)
  BY <1>1, SameProgram, ExpectedNext
<1>3. /\ phase \in {"open", "build", "closed"} /\ (phase # "closed" => mode = "layer")
      /\ nOp \in Nat /\ cb \in [Ops -> Callback]
      /\ \A o \in Ops : o \in Nat /\ Out(o) \in Tensor
  BY <1>1 DEF PhaseInv, TypeOK, Callback, ProgramNow, Ops
<1>4. ASSUME UNCHANGED <<data, mem, cb, nOp, graph, gout>> PROVE LayerModeInv'
  <2>1. Held' = Held /\ NoKernel' = NoKernel
    BY <1>2, <1>4 DEF Held, NoKernel
  <2> QED BY <1>1, <1>2, <1>4, <2>1 DEF LayerModeInv
<1>5. ASSUME NEW ok \in BOOLEAN, OpCall(ok) PROVE LayerModeInv'
  <2> DEFINE q == nOp + 1
             c == AfterInit(OpCallbackMap("layer", Kind(q)), ok)
             b == User(Out(q), 0)
  <2>1. q \in Ops /\ mode = "layer" /\ Out(q) \in Tensor
    <3>1. phase = "build" /\ nOp < Len(prog.ops)
      BY <1>5 DEF OpCall
    <3> QED BY <3>1, <1>1, <1>3 DEF Ops, ProgramNow
  <2>2. c \in Callback
    BY <1>1, <2>1, TableFacts, P0CbFacts
  <2>3. P0Cb("layer", c) \in {"exec", "unset"} /\ (P0Cb("layer", c) = "exec" <=> c.exec)
    BY <2>2, P0CbFacts
  <2>4. /\ cb' = [cb EXCEPT ![q] = c] /\ nOp' = q /\ UNCHANGED <<graph, gout, data>>
        /\ c.exec => mem' = [mem EXCEPT ![data[Out(q)]] = Computed(Ins(q))]
        /\ ~c.exec => mem' = mem
    <3>1. CASE c.exec
      BY <1>5, <2>1, <2>3, <3>1 DEF OpCall
    <3>2. CASE ~c.exec
      BY <1>5, <2>1, <2>3, <3>2 DEF OpCall
    <3> QED BY <3>1, <3>2
  <2> HIDE DEF c
  <2>5. data[Out(q)] = b /\ b \in DOMAIN mem
    BY <1>1, <2>1 DEF LayerModeInv
  <2>6. /\ DOMAIN mem' = DOMAIN mem
        /\ \A d \in DOMAIN mem : mem'[d] = IF d = b /\ c.exec THEN Computed(Ins(q)) ELSE mem[d]
    BY <2>4, <2>5
  <2>7. ASSUME NEW t \in Range(prog.input) PROVE mem'[User(t, 0)] = {<<t, 0>>}
    <3>1. t \in Tensor /\ t # Out(q)
      BY <1>1, <2>1, InputsAndOutputs
    <3>2. User(t, 0) \in DOMAIN mem /\ User(t, 0) # b
      BY <3>1, PointerFacts DEF LayerModeInv
    <3> QED BY <2>6, <3>2 DEF LayerModeInv
  <2>8. ASSUME NEW o \in Ops, o # q
        PROVE  Held'[o] = Held[o] /\ (o \in NoKernel' <=> o \in NoKernel)
    <3>1. User(Out(o), 0) # b /\ User(Out(o), 0) \in DOMAIN mem
      <4>1. Out(o) # Out(q) /\ Out(o) \in Tensor
        BY <1>1, <2>1, <2>8 DEF ProgramNow
      <4> QED BY <4>1, PointerFacts DEF LayerModeInv
    <3>2. mem'[User(Out(o), 0)] = mem[User(Out(o), 0)]
      BY <2>6, <3>1
    <3>3. cb'[o] = cb[o]
      BY <1>3, <2>4, <2>8
    <3> QED BY <1>2, <3>2, <3>3 DEF Held, NoKernel
  <2>9. Held'[q] = IF c.exec THEN Computed(Ins(q)) ELSE Held[q]
    BY <1>2, <2>1, <2>5, <2>6 DEF Held
  <2>10. q \in NoKernel' <=> ~c.exec
    <3>1. cb'[q] = c
      BY <1>3, <2>1, <2>4
    <3> QED BY <1>2, <2>1, <3>1 DEF NoKernel
  <2>11. Held[q] = Junk
    <3>1. ~(q <= nOp)
      BY <1>3
    <3> QED BY <2>1, <3>1 DEF LayerModeInv
  <2>12. Computed(Ins(q)) = UNION {Source(Held, FirstVersion, t) : t \in Ins(q)}
    <3>1. ASSUME NEW t \in Ins(q) PROVE Read(t) = Source(Held, FirstVersion, t)
      <4>1. t \in Tensor
        BY <1>1, <2>1 DEF ProgramNow
      <4>2. Read(t) = mem[User(t, 0)]
        BY <4>1 DEF LayerModeInv, Read
      <4>3. CASE Producer(t) = {} /\ t \in Range(prog.input)
        BY <4>1, <4>2, <4>3 DEF Source, FirstVersion, LayerModeInv
      <4>4. ASSUME NEW p \in 1 .. q - 1, p \in Ops, Out(p) = t, Producer(t) = {p}
            PROVE  Read(t) = Source(Held, FirstVersion, t)
        <5>1. (CHOOSE r \in Producer(t) : TRUE) = p /\ Producer(t) # {}
          BY <4>4
        <5> QED BY <4>2, <4>4, <5>1 DEF Source, Held
      <4> QED BY <1>1, <2>1, <4>3, <4>4, ProducerFacts
    <3>2. {Read(t) : t \in Ins(q)} = {Source(Held, FirstVersion, t) : t \in Ins(q)}
      BY <3>1
    <3> QED BY <3>2 DEF Computed
  <2>13. ASSUME NEW o \in Ops, o <= q
         PROVE  Expected(Held, FirstVersion, NoKernel', o) =
                Expected(Held', FirstVersion, NoKernel', o)
    <3>1. \A p \in Ops : p < o => Held[p] = Held'[p]
      <4>1. \A p \in Ops : p < o => p # q
        BY <1>3, <2>13
      <4> QED BY <2>8, <4>1
    <3> QED BY <1>1, <3>1, ExpectedSame
  <2>14. ASSUME NEW o \in Ops
         PROVE  Held'[o] = IF o <= q THEN Expected(Held', FirstVersion, NoKernel', o) ELSE Junk
    <3>1. CASE o = q
      <4>1. Held'[q] = Expected(Held, FirstVersion, NoKernel', q)
        BY <2>9, <2>10, <2>11, <2>12 DEF Expected
      <4>2. q <= q
        BY <1>3
      <4> QED BY <2>13, <3>1, <4>1, <4>2
    <3>2. CASE o # q
      <4>1. o <= q <=> o <= nOp
        BY <1>3, <3>2
      <4>2. o <= q => Expected(Held, FirstVersion, NoKernel, o) =
                      Expected(Held, FirstVersion, NoKernel', o)
        BY <2>8, <3>2 DEF Expected
      <4> QED BY <2>8, <2>13, <3>2, <4>1, <4>2 DEF LayerModeInv
    <3> QED BY <3>1, <3>2
  <2> HIDE DEF q
  <2> QED BY <1>1, <1>2, <2>4, <2>6, <2>7, <2>14 DEF LayerModeInv
<1>6. CASE SessionInit \/ SetInput \/ SetOutput \/ SessionDeinit \/ UNCHANGED vars
  <2>1. UNCHANGED <<data, mem, cb, nOp, graph, gout>>
    BY <1>3, <1>6 DEF SessionInit, SetInput, SetOutput, SessionDeinit, vars, appl
  <2> QED BY <1>4, <2>1
<1>7. ASSUME NEW failed \in SUBSET Ops, SessionSetup(failed) PROVE FALSE
  BY <1>3, <1>7 DEF SessionSetup
<1>8. ASSUME NEW ok \in BOOLEAN, LayerRun(ok) PROVE FALSE
  BY <1>3, <1>8 DEF LayerRun
<1>9. ASSUME NEW k, UpdateInput(k) \/ UpdateOutput(k) \/ GetOutput(k) PROVE FALSE
  BY <1>3, <1>9 DEF UpdateInput, UpdateOutput, GetOutput
<1>10. ~SessionRun /\ ~RunDone
  BY <1>3 DEF SessionRun, RunDone
<1> QED BY <1>5, <1>6, <1>7, <1>8, <1>9, <1>10 DEF Next
-----------------------------------------------------------------------------
(* The inductive invariant. *)

LEMMA InitInv == Init => IInv
<1> SUFFICES ASSUME Init PROVE IInv
  OBVIOUS
<1>1. ProgramNow /\ prog \in Program
  BY ProgramFacts DEF Init
<1>2. /\ mode = prog.mode /\ cb = [o \in Ops |-> NoCb] /\ data = [t \in Tensor |-> User(t, 0)]
      /\ nIn = 0 /\ nOp = 0 /\ nOut = 0 /\ graph = <<>> /\ gout = <<>> /\ phase = "open"
      /\ i = 1 /\ run = 0 /\ given = [t \in Tensor |-> 0] /\ bad = {}
      /\ got = [k \in DOMAIN prog.output |-> {}]
  BY DEF Init
<1>3. /\ DOMAIN mem = {User(t, 0) : t \in Tensor} /\ mem = [b \in DOMAIN mem |-> mem[b]]
      /\ \A t \in Tensor :
           mem[User(t, 0)] = IF t \in Range(prog.input) THEN {<<t, 0>>} ELSE Junk
  <2>1. /\ DOMAIN mem = {User(t, 0) : t \in Tensor} /\ mem = [b \in DOMAIN mem |-> mem[b]]
        /\ \A b \in DOMAIN mem : mem[b] = IF b[2] \in Range(prog.input) THEN {<<b[2], 0>>} ELSE Junk
    BY DEF Init
  <2>2. \A t \in Tensor : User(t, 0)[2] = t /\ User(t, 0) \in DOMAIN mem
    BY <2>1 DEF User
  <2>3. ASSUME NEW t \in Tensor
        PROVE  mem[User(t, 0)] = IF t \in Range(prog.input) THEN {<<t, 0>>} ELSE Junk
    <3> DEFINE b == User(t, 0)
    <3>1. b[2] = t /\ b \in DOMAIN mem
      BY <2>2
    <3> HIDE DEF b
    <3>2. mem[b] = IF t \in Range(prog.input) THEN {<<t, 0>>} ELSE Junk
      BY <2>1, <3>1
    <3> QED BY <3>2 DEF b
  <2> QED BY <2>1, <2>3
<1>4. /\ Len(prog.ops) \in Nat /\ Len(prog.input) \in Nat /\ Len(prog.output) \in Nat
      /\ \A o \in Ops : o \in Nat /\ ~(o <= 0) /\ Out(o) \in Tensor
  BY <1>1 DEF ProgramNow, Ops
<1>5. \A t \in Tensor : User(t, 0) \in Pointer /\ User(t, 0) \in {"user", "own"} \X Tensor \X (0 .. MaxRuns)
  BY PointerTypes, RunsAssumption
<1>6. TypeOK
  <2>1. mode \in {"layer", "graph"}
    BY <1>1, <1>2 DEF ProgramNow
  <2>2. DOMAIN mem \subseteq {"user", "own"} \X Tensor \X (0 .. MaxRuns)
    BY <1>3, <1>5
  <2>3. \A t \in Tensor : data[t] \in DOMAIN mem \cup {Node(t)}
    BY <1>2, <1>3
  <2>4. cb \in [Ops -> [est : BOOLEAN, init : BOOLEAN, exec : BOOLEAN]]
    BY <1>2 DEF NoCb, Cb
  <2>5. i \in 1 .. Len(graph) + 1 /\ run \in 0 .. MaxRuns /\ given \in [Tensor -> 0 .. MaxRuns]
    BY <1>2, RunsAssumption
  <2> QED BY <1>1, <1>2, <1>4, <2>1, <2>2, <2>3, <2>4, <2>5 DEF TypeOK
<1>7. ShapeInv
  <2>1. data \in [Tensor -> Pointer]
    BY <1>2, <1>5
  <2> QED BY <1>2, <1>3, <2>1 DEF ShapeInv
<1>8. PhaseInv
  BY <1>2, <1>3 DEF PhaseInv
<1>9. GraphModeInv
  <2> SUFFICES ASSUME prog.mode = "graph"
               PROVE  BuildData /\ GraphInv /\ KernelInv /\ InputInv /\ ResultInv
    BY DEF GraphModeInv
  <2>1. BuildData
    <3>1. \A k \in 1 .. 0 : FALSE
      OBVIOUS
    <3> QED BY <1>2, <1>4, <3>1 DEF BuildData
  <2>2. GraphInv
    BY <1>2 DEF GraphInv
  <2>3. KernelInv
    BY <1>2 DEF KernelInv, BreaksForTwoReasons
  <2>4. InputInv
    <3>1. \A t \in Tensor : \A v \in Nat : User(t, v) \in DOMAIN mem => v = 0
      BY <1>3, PointerFacts
    <3>2. \A t \in Range(prog.input) : t \in Tensor
      BY <1>1, InputsAndOutputs
    <3> QED BY <1>2, <3>1, <3>2 DEF InputInv
  <2>5. ResultInv
    BY <1>2 DEF ResultInv, Done
  <2> QED BY <2>1, <2>2, <2>3, <2>4, <2>5
<1>10. LayerModeInv
  <2>1. \A t \in Range(prog.input) : mem[User(t, 0)] = {<<t, 0>>}
    BY <1>1, <1>3, InputsAndOutputs
  <2>2. \A o \in Ops : Held[o] = Junk /\ ~(o <= nOp)
    <3>1. \A o \in Ops : Out(o) \notin Range(prog.input)
      BY <1>1, InputsAndOutputs
    <3>2. \A o \in Ops : mem[User(Out(o), 0)] = Junk
      BY <1>3, <1>4, <3>1
    <3> QED BY <1>2, <1>4, <3>2 DEF Held
  <2> QED BY <1>2, <1>3, <2>1, <2>2 DEF LayerModeInv
<1>11. GotInv
  BY <1>2 DEF GotInv
<1> QED BY <1>6, <1>7, <1>8, <1>9, <1>10, <1>11 DEF IInv

LEMMA NextInv == IInv /\ [Next]_vars => IInv'
<1> SUFFICES ASSUME IInv, [Next]_vars PROVE IInv'
  OBVIOUS
<1>1. TypeOK /\ ShapeInv /\ PhaseInv /\ GraphModeInv /\ LayerModeInv /\ GotInv
  BY DEF IInv
<1>2. TypeOK' /\ ShapeInv'
  BY <1>1, TypeStep
<1>3. PhaseInv'
  BY <1>1, PhaseStep
<1>4. prog' = prog
  BY ProgKept
<1>5. GraphModeInv'
  <2>1. CASE prog.mode = "graph"
    <3>1. BuildData /\ GraphInv /\ KernelInv /\ InputInv /\ ResultInv
      BY <1>1, <2>1 DEF GraphModeInv
    <3>2. BuildData'
      BY <1>1, <2>1, <3>1, BuildStep
    <3>3. GraphInv'
      BY <1>1, <2>1, <3>1, GraphStep
    <3>4. KernelInv'
      BY <1>1, <2>1, <3>1, KernelStep
    <3>5. InputInv'
      BY <1>1, <1>3, <2>1, <3>1, InputStep
    <3>6. ResultInv'
      BY <1>1, <2>1, <3>1, ResultStep
    <3> QED BY <3>2, <3>3, <3>4, <3>5, <3>6 DEF GraphModeInv
  <2>2. CASE prog.mode # "graph"
    BY <1>4, <2>2 DEF GraphModeInv
  <2> QED BY <2>1, <2>2
<1>6. LayerModeInv'
  <2>1. CASE prog.mode = "layer"
    BY <1>1, <2>1, LayerStep
  <2>2. CASE prog.mode # "layer"
    BY <1>4, <2>2 DEF LayerModeInv
  <2> QED BY <2>1, <2>2
<1>7. GotInv'
  BY <1>1, GotStep
<1> QED BY <1>2, <1>3, <1>5, <1>6, <1>7 DEF IInv

THEOREM Invariance == Spec => []IInv
  BY InitInv, NextInv, PTL DEF Spec

(* The types of the session's state: in particular tensor->data is always   *)
(* a buffer that exists or the tensor's own node.                           *)
THEOREM SessionTypes == Spec => []TypeOK
<1>1. IInv => TypeOK
  BY DEF IInv
<1> QED BY <1>1, Invariance, PTL

(* Graph mode breaks only where an operator has no builder, which setup     *)
(* meets as a buffer in place of a node, or where it has no kernel, which a *)
(* run meets.                                                               *)
THEOREM BreaksOnlySo == Spec => []BreaksForTwoReasons
<1>1. IInv => BreaksForTwoReasons
  BY DEF IInv, GraphModeInv, KernelInv, BreaksForTwoReasons
<1> QED BY <1>1, Invariance, PTL

(* What csinn_get_output gives in graph mode, and what the caller's buffers *)
(* hold after the calls in layer mode, are the results the program defines. *)
THEOREM ResultsAreExact == Spec => []ResultsExact
<1>1. ASSUME IInv PROVE ResultsExact
  <2>1. ProgramNow
    BY <1>1, ProgramFacts DEF IInv, TypeOK
  <2>2. ASSUME NEW k \in DOMAIN prog.output, got[k] # {}
        PROVE  \E o \in Producer(prog.output[k]) : got[k] = Wanted(GivenVersion, bad)[o]
    <3>1. PICK val, o : /\ Solves(val, GivenVersion, bad)
                        /\ o \in Producer(prog.output[k]) /\ got[k] = val[o]
      BY <1>1, <2>2 DEF IInv, GotInv
    <3>2. Wanted(GivenVersion, bad) = val
      BY <2>1, <3>1, WantedIs
    <3> QED BY <3>1, <3>2
  <2>3. ASSUME prog.mode = "layer", nOp = Len(prog.ops)
        PROVE  \A o \in Ops : Read(Out(o)) = Wanted(FirstVersion, NoKernel)[o]
    <3>1. \A o \in Ops : Held[o] = Expected(Held, FirstVersion, NoKernel, o)
      <4>1. \A o \in Ops : o <= nOp
        BY <2>1, <2>3 DEF Ops, ProgramNow
      <4> QED BY <1>1, <2>3, <4>1 DEF IInv, LayerModeInv
    <3>2. Solves(Held, FirstVersion, NoKernel)
      <4>1. Held = [o \in Ops |-> Held[o]]
        BY DEF Held
      <4> HIDE DEF Held
      <4> QED BY <3>1, <4>1 DEF Solves
    <3>3. Wanted(FirstVersion, NoKernel) = Held
      BY <2>1, <3>2, WantedIs
    <3>4. \A o \in Ops : Read(Out(o)) = Held[o]
      <4>1. \A o \in Ops : Out(o) \in Tensor
        BY <2>1 DEF ProgramNow
      <4> QED BY <1>1, <2>3, <4>1 DEF IInv, LayerModeInv, Read, Held
    <3> QED BY <3>3, <3>4
  <2> QED BY <2>2, <2>3 DEF ResultsExact, NoKernel
<1> QED BY <1>1, Invariance, PTL

(* op_run_init replaces the buffer given with csinn_update_output, and no   *)
(* call writes into a buffer of the application.                            *)
THEOREM ApplicationBuffers == Spec => ApplicationBuffersKept
<1>1. ASSUME IInv, [Next]_vars, phase \in {"ready", "running"},
             NEW b \in DOMAIN mem, b[1] = "user"
      PROVE  mem'[b] = mem[b]
  <2>1. /\ ProgramNow /\ TypeOK /\ ShapeInv /\ PhaseInv /\ prog.mode = "graph"
        /\ GraphInv /\ KernelInv /\ InputInv
    <3>1. ProgramNow /\ PhaseInv /\ TypeOK /\ ShapeInv
      BY <1>1, ProgramFacts DEF IInv, TypeOK
    <3>2. prog.mode = "graph"
      BY <1>1, <3>1 DEF PhaseInv, ProgramNow
    <3> QED BY <1>1, <3>1, <3>2 DEF IInv, GraphModeInv
  <2>2. ASSUME NEW ok \in BOOLEAN, LayerRun(ok) PROVE mem'[b] = mem[b]
    <3>1. b # Own(Out(i), run)
      BY <1>1, PointerFacts
    <3> QED BY <2>1, <2>2, <3>1, LayerRunEffect
  <2>3. ASSUME NEW k \in DOMAIN prog.input, UpdateInput(k) PROVE mem'[b] = mem[b]
    <3> DEFINE t == prog.input[k]
    <3>1. /\ given[t] <= run
          /\ mem' = [c \in DOMAIN mem \cup {User(t, run + 1)} |->
                       IF c = User(t, run + 1) THEN {<<t, run + 1>>} ELSE mem[c]]
      BY <2>3 DEF UpdateInput
    <3>2. t \in Range(prog.input) /\ t \in Tensor
      BY <2>1, InputsAndOutputs
    <3>3. run \in Nat /\ given[t] \in Nat
      BY <2>1, <3>2 DEF TypeOK
    <3>4. User(t, run + 1) \notin DOMAIN mem
      BY <2>1, <3>1, <3>2, <3>3 DEF InputInv
    <3> QED BY <3>1, <3>4
  <2>4. ASSUME NEW k \in DOMAIN prog.output, UpdateOutput(k) PROVE mem'[b] = mem[b]
    BY <2>4 DEF UpdateOutput
  <2>5. ASSUME \/ SessionRun \/ RunDone \/ SessionDeinit \/ UNCHANGED vars
               \/ \E k \in DOMAIN prog.output : GetOutput(k)
        PROVE  mem'[b] = mem[b]
    <3>1. mem' = mem
      BY <2>5 DEF SessionRun, RunDone, SessionDeinit, GetOutput, vars
    <3> QED BY <3>1
  <2>6. ~(\/ SessionInit \/ SetInput \/ SetOutput \/ \E ok \in BOOLEAN : OpCall(ok)
          \/ \E failed \in SUBSET Ops : SessionSetup(failed))
    BY <1>1 DEF SessionInit, SetInput, SetOutput, OpCall, SessionSetup
  <2> QED BY <1>1, <2>2, <2>3, <2>4, <2>5, <2>6 DEF Next
<1>2. IInv /\ [Next]_vars =>
        [(phase \in {"ready", "running"}) =>
           \A b \in DOMAIN mem : b[1] = "user" => mem'[b] = mem[b]]_vars
  BY <1>1
<1> QED BY <1>2, Invariance, PTL DEF Spec, ApplicationBuffersKept
=============================================================================
