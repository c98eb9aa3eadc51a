-------------------------- MODULE SubSessionProofs --------------------------
(***************************************************************************)
(* Proofs about SubSession for every graph, every device and every number  *)
(* of runs.  The executor's part of the state is related to what it would  *)
(* be had no device failed, which is a behaviour of GrefRun: its inductive *)
(* invariant, proved in GrefRunProofs, holds of that mapping, and the      *)
(* invariant here says how far the true state may differ from it.          *)
(* The last part is about building: what the folds of SubInputs and Rebuild *)
(* compute, and that the rebuilt plans keep to their own session's tensors. *)
(***************************************************************************)
EXTENDS SubSession, InductionProofs, FiniteSetTheorems, TLAPS

(* The last run that layer l has taken part in when the layers before the   *)
(* i-th are past, not positive when there is none; and what the subgraph    *)
(* layer that hands out t has made of it by then.                           *)
LayerTurn(l) == IF l < i THEN run ELSE run - 1
Producer(t)  == CHOOSE l \in SubLayers : t \in Elems(g.plan[l].out)
Turn(t)      == LayerTurn(Producer(t))
Result(t)    == IF Turn(t) > 0 THEN Sub(t, Turn(t)) ELSE NoBuffer

(* The state of the executor as if every device had answered at once.       *)
HealthyPc ==
  IF pc \in {"inner", "return", "crashed"} THEN "layer"
  ELSE IF pc = "setup" THEN "count" ELSE pc
HealthyData == [t \in Tensor |-> IF t \in SubOutputs THEN Result(t) ELSE data[t]]
Results     == {Result(t) : t \in {u \in SubOutputs : Turn(u) > 0}}
HealthyHeap == {b \in heap : b[1] # "sub"} \cup Results

Healthy == INSTANCE GrefRunProofs WITH
  pc <- HealthyPc, data <- HealthyData, heap <- HealthyHeap

(* The outputs of the layer whose session is at work. *)
Pending == IF InFlight THEN Elems(g.plan[i].out) ELSE {}

CaseInv == \E c \in Case : g = c.g /\ sub = c.sub

PhaseInv ==
  /\ run \in Nat
  /\ pc \in {"count", "setup", "idle", "layer", "deinit", "inner", "return", "crashed"}
  /\ pc = "idle" /\ run > 0 => i > Len(g.plan)
  /\ pc \in {"layer", "deinit", "inner", "return", "crashed"} => run > 0
  /\ pc \in {"count", "setup"} => run = 0
  /\ pc = "setup" => i > Len(g.ops) /\ j > Len(g.output)
  /\ InFlight => i \in SubLayers

SetupInv ==
  /\ sess \in [Tensor -> {0} \cup SubLayers]
  /\ settled \subseteq SubLayers
  /\ sl \in 0 .. Len(g.plan) + 1
  /\ pc = "setup" => sl > 0
  /\ DOMAIN fdata = UNION {{<<l, k>> : k \in DOMAIN g.plan[l].in} : l \in SubLayers}

(* Tensors of the CPU point to buffers of the executor or the application.  *)
CpuData ==
  /\ data = [t \in Tensor |-> data[t]]
  /\ \A t \in Tensor \ SubOutputs : data[t] \in {NoBuffer} \cup {"own", "user"} \X {t} \X Nat

(* A result is what its device made in its turn, a copy of that, or nothing. *)
Delivered(t, b) == b = NoBuffer \/ (Turn(t) > 0 /\ b \in {Sub(t, Turn(t)), OutCopy(t, Turn(t))})

SubData ==
  /\ \A t \in SubOutputs : Delivered(t, IF t \in Pending THEN before[t] ELSE data[t])
  /\ \/ \A t \in Pending : data[t] = NoBuffer
     \/ pc = "return" /\ \A t \in Pending : data[t] = Sub(t, run)
  /\ \A t \in SubOutputs : data[t] = NoBuffer \/ Live(data[t])

FormalInv ==
  /\ \A f \in DOMAIN fdata :
       fdata[f] # NoBuffer =>
         /\ fdata[f][2] = IF fdata[f][1] = "incopy" THEN f ELSE g.plan[f[1]].in[f[2]]
         /\ fdata[f][1] = "incopy" => fdata[f] \in copies
  /\ pc = "inner" =>
       \A f \in DOMAIN fdata : f[1] = i =>
         fdata[f] = NoBuffer \/ (Live(fdata[f]) /\ fdata[f][3] = run)

(* The last run whose result the device of t has made, and whose inputs     *)
(* layer l has been given.                                                  *)
Made(t)    == IF Producer(t) = i /\ pc = "return" THEN run ELSE Turn(t)
Entered(l) == IF l = i /\ InFlight THEN run ELSE LayerTurn(l)

InCopies(f)  == {InCopy(f[1], f[2], r) : r \in 1 .. Entered(f[1])}
OutCopies(t) == {OutCopy(t, r) : r \in 1 .. Turn(t)}

AllInCopies  == UNION {InCopies(f) : f \in {h \in DOMAIN fdata : Converts(h[1])}}
AllOutCopies == UNION {OutCopies(t) : t \in {u \in SubOutputs : Converts(sess[u])}}
CopiesOf     == AllInCopies \cup AllOutCopies

ReliableInv ==
  reliable =>
    /\ pc # "crashed"
    /\ \A t \in SubOutputs : Turn(t) > 0 => (IF t \in Pending THEN before[t] ELSE data[t]) # NoBuffer
    /\ pc = "return" => \A t \in Pending : data[t] = Sub(t, run)
    /\ \A b \in heap : b[1] = "sub" =>
         \E t \in SubOutputs : b = Sub(t, Made(t)) /\ Made(t) > 0
    /\ copies = CopiesOf

DeviceInv ==
  /\ CaseInv
  /\ PhaseInv
  /\ SetupInv
  /\ CpuData
  /\ SubData
  /\ FormalInv
  /\ ReliableInv
-----------------------------------------------------------------------------
(* The instance reads graphs and names buffers as this module does. *)
LEMMA SameGraphOK == \A x : Healthy!GraphOK(x, Tensor) <=> GraphOK(x, Tensor)
BY DEF GraphOK, GraphRecord, OpNode, Layer, BuildOK, PlanOK, LayerOK, Distinct, Elems,
       Uses, UsesOf, UsedTensor, OpLayers, LayerOf, SubGraph,
       Healthy!GraphOK, Healthy!GraphRecord, Healthy!OpNode, Healthy!Layer,
       Healthy!BuildOK, Healthy!PlanOK, Healthy!LayerOK, Healthy!Distinct, Healthy!Elems,
       Healthy!Uses, Healthy!UsesOf, Healthy!UsedTensor, Healthy!OpLayers,
       Healthy!LayerOf, Healthy!SubGraph

LEMMA SameElems == \A s : Healthy!Elems(s) = Elems(s)
BY DEF Elems, Healthy!Elems

LEMMA SameOps == /\ Healthy!OpLayers(g) = OpLayers(g)
                 /\ Healthy!OpTensors(g) = OpTensors(g)
BY DEF OpLayers, OpTensors, Elems, SubGraph,
       Healthy!OpLayers, Healthy!OpTensors, Healthy!Elems, Healthy!SubGraph

LEMMA SameBuffers ==
  /\ \A t, r : /\ Healthy!Own(t, r) = Own(t, r) /\ Healthy!User(t, r) = User(t, r)
               /\ Healthy!Sub(t, r) = Sub(t, r)
  /\ Healthy!NoBuffer = NoBuffer /\ Healthy!Buffer = Buffer
BY DEF Own, User, Sub, NoBuffer, Buffer,
       Healthy!Own, Healthy!User, Healthy!Sub, Healthy!NoBuffer, Healthy!Buffer

LEMMA GraphAssumed == \A x \in Graph : Healthy!GraphOK(x, Tensor)
BY GraphAssumption, SameGraphOK

(* What the proofs about the executor say of the mapped state. *)
LEMMA HealthyStep == Healthy!IInv /\ [Healthy!Next]_(Healthy!vars) => Healthy!IInv'
BY GraphAssumed, MaxRunsAssumption, Healthy!NextInv

LEMMA HealthyReads == Healthy!IInv => Healthy!NoUseAfterFree
BY GraphAssumed, MaxRunsAssumption, Healthy!SafeReads
-----------------------------------------------------------------------------
(* The plan: which layers are subgraphs, and what they produce. *)
LEMMA PlanTypes ==
  ASSUME GraphOK(g, Tensor)
  PROVE  /\ Len(g.plan) \in Nat
         /\ Elems(g.input) \subseteq Tensor
         /\ \A l \in Layers :
              /\ Elems(g.plan[l].in) \subseteq Tensor /\ Elems(g.plan[l].out) \subseteq Tensor
              /\ \A k \in DOMAIN g.plan[l].in : g.plan[l].in[k] \in Elems(g.plan[l].in)
<1>1. g.plan \in Seq(Layer(Tensor)) /\ g.input \in Seq(Tensor)
  BY DEF GraphOK, GraphRecord
<1>2. ASSUME NEW l \in Layers
      PROVE  g.plan[l].in \in Seq(Tensor) /\ g.plan[l].out \in Seq(Tensor)
  <2>1. g.plan[l] \in Layer(Tensor)
    BY <1>1 DEF Layers
  <2> QED
    BY <2>1 DEF Layer
<1> QED
  BY <1>1, <1>2 DEF Elems

LEMMA Plan ==
  ASSUME CaseInv
  PROVE  /\ GraphOK(g, Tensor) /\ g \in Graph
         /\ DOMAIN sub = SubLayers
         /\ SubLayers \subseteq Layers /\ OpLayers(g) = Layers \ SubLayers
         /\ Elems(g.input) \cap SubOutputs = {}
         /\ OpTensors(g) \cap SubOutputs = {}
         /\ \A l \in OpLayers(g) : Elems(g.plan[l].out) \cap SubOutputs = {}
         /\ SubOutputs \subseteq Tensor
<1>1. GraphOK(g, Tensor) /\ g \in Graph /\ DOMAIN sub = SubLayers
  BY CaseAssumption, GraphAssumption DEF CaseInv, SubLayers, Layers
<1>2. SubLayers \subseteq Layers /\ OpLayers(g) = Layers \ SubLayers
  BY DEF SubLayers, Layers, OpLayers
<1>3. SubOutputs \subseteq Tensor
  BY <1>1, <1>2, PlanTypes DEF SubOutputs
<1>4. ASSUME NEW l \in OpLayers(g) PROVE Elems(g.plan[l].out) \cap SubOutputs = {}
  <2>1. ASSUME NEW m \in SubLayers
        PROVE  Elems(g.plan[l].out) \cap Elems(g.plan[m].out) = {}
    <3>1. l \in 1 .. Len(g.plan) /\ m \in 1 .. Len(g.plan) /\ l # m
      BY <1>2 DEF Layers
    <3>2. PlanOK(g)
      BY <1>1 DEF GraphOK
    <3> QED
      BY <3>1, <3>2 DEF PlanOK
  <2> QED
    BY <2>1 DEF SubOutputs
<1>5. OpTensors(g) \cap SubOutputs = {}
  BY <1>4 DEF OpTensors
<1>6. Elems(g.input) \cap SubOutputs = {}
  <2>1. ASSUME NEW l \in SubLayers PROVE Elems(g.plan[l].out) \cap Elems(g.input) = {}
    <3>1. LayerOK(g, l) /\ g.plan[l].op = SubGraph
      BY <1>1 DEF SubLayers, Layers, GraphOK, PlanOK
    <3>2. Len(g.ops) \in Nat
      BY <1>1 DEF GraphOK, GraphRecord
    <3> QED
      BY <3>1, <3>2 DEF LayerOK, SubGraph
  <2> QED
    BY <2>1 DEF SubOutputs
<1> QED
  BY <1>1, <1>2, <1>3, <1>4, <1>5, <1>6

(* Every result has one producer. *)
LEMMA Producers ==
  ASSUME CaseInv
  PROVE  /\ \A l \in SubLayers : \A t \in Elems(g.plan[l].out) :
              t \in SubOutputs /\ Producer(t) = l
         /\ \A t \in SubOutputs :
              Producer(t) \in SubLayers /\ t \in Elems(g.plan[Producer(t)].out)
<1>1. ASSUME NEW l \in SubLayers, NEW m \in SubLayers, NEW t,
             t \in Elems(g.plan[l].out), t \in Elems(g.plan[m].out)
      PROVE  l = m
  BY <1>1, Plan DEF SubLayers, Layers, GraphOK, PlanOK
<1>2. ASSUME NEW l \in SubLayers, NEW t \in Elems(g.plan[l].out)
      PROVE  t \in SubOutputs /\ Producer(t) = l
  BY <1>1, <1>2 DEF SubOutputs, Producer
<1>3. ASSUME NEW t \in SubOutputs
      PROVE  Producer(t) \in SubLayers /\ t \in Elems(g.plan[Producer(t)].out)
  <2>1. PICK l \in SubLayers : t \in Elems(g.plan[l].out)
    BY DEF SubOutputs
  <2> QED
    BY <1>2, <2>1
<1> QED
  BY <1>2, <1>3
-----------------------------------------------------------------------------
LEMMA ProducerKept ==
  ASSUME g' = g
  PROVE  Layers' = Layers /\ SubLayers' = SubLayers /\ \A t : Producer(t)' = Producer(t)
BY DEF Layers, SubLayers, Producer

(* A step that gives no subgraph a turn changes the mapped state outside    *)
(* the results of subgraphs only.                                           *)
LEMMA ResultsKept ==
  ASSUME g' = g, \A t \in SubOutputs : Turn(t)' = Turn(t) \/ ~(Turn(t)' > 0 \/ Turn(t) > 0)
  PROVE  /\ SubOutputs' = SubOutputs /\ SubLayers' = SubLayers
         /\ Results' = Results
         /\ HealthyData' = [t \in Tensor |-> IF t \in SubOutputs THEN Result(t) ELSE data'[t]]
<1>1. SubLayers' = SubLayers /\ SubOutputs' = SubOutputs
  BY DEF SubLayers, SubOutputs, Layers
<1>2. ASSUME NEW t \in SubOutputs
      PROVE  Result(t)' = Result(t) /\ (Turn(t)' > 0 <=> Turn(t) > 0)
  BY DEF Result
<1>3. Results' = Results
  BY <1>1, <1>2 DEF Results
<1> QED
  BY <1>1, <1>2, <1>3 DEF HealthyData

(* Nothing that is read or freed by name is a result of a subgraph. *)
LEMMA NotAResult ==
  ASSUME CaseInv, CpuData, NEW t \in Tensor \ SubOutputs
  PROVE  /\ data[t][1] # "sub" /\ data[t] \notin Results
         /\ HealthyData[t] = data[t]
         /\ data[t] \in HealthyHeap <=> data[t] \in heap
<1>1. data[t] \in {NoBuffer} \cup {"own", "user"} \X {t} \X Nat
  BY DEF CpuData
<1>2. data[t][1] # "sub" /\ \A u, r : data[t] # Sub(u, r)
  BY <1>1 DEF NoBuffer, Sub
<1>3. HealthyData[t] = data[t]
  BY DEF HealthyData
<1>4. data[t] \notin Results
  BY <1>2 DEF Results, Result
<1> QED
  BY <1>2, <1>3, <1>4 DEF HealthyHeap
-----------------------------------------------------------------------------
(* Every step maps to the executor's step of the same name, or to none.     *)
LEMMA InitMaps == SSInit => Healthy!Init
<1> SUFFICES ASSUME SSInit PROVE Healthy!Init
  OBVIOUS
<1>1. run = 0 /\ pc = "count" /\ data = [t \in Tensor |-> NoBuffer] /\ heap = {}
  BY DEF SSInit, Init
<1>2. \A t \in SubOutputs : ~(Turn(t) > 0) /\ Result(t) = NoBuffer
  BY <1>1 DEF Turn, LayerTurn, Result
<1>3. HealthyPc = "count" /\ HealthyData = data /\ HealthyHeap = {}
  BY <1>1, <1>2 DEF HealthyPc, HealthyData, HealthyHeap, Results
<1> QED
  BY <1>1, <1>3, SameBuffers DEF SSInit, Init, Healthy!Init

LEMMA SetupMaps ==
  ASSUME DeviceInv, Count \/ ConvertGraph \/ SetupLayer \/ SetupReturn
  PROVE  [Healthy!Next]_(Healthy!vars)
<1>1. /\ g' = g /\ run' = run /\ data' = data /\ heap' = heap /\ rc' = rc /\ run = 0
      /\ HealthyPc = "count"
  BY DEF DeviceInv, PhaseInv, Count, CountIn, CountOut, CountGraphOutput, ConvertGraph,
         SetupLayer, SetupReturn, vars, HealthyPc
<1>2. \A t \in SubOutputs : ~(Turn(t)' > 0 \/ Turn(t) > 0)
  BY <1>1 DEF Turn, LayerTurn
<1>3. HealthyData' = HealthyData /\ HealthyHeap' = HealthyHeap
  BY <1>1, <1>2, ResultsKept DEF HealthyData, HealthyHeap
<1>4. CASE Count
  <2>1. HealthyPc' = "count"
    BY <1>4 DEF Count, CountIn, CountOut, CountGraphOutput, HealthyPc
  <2>2. Healthy!Setup
    BY <1>1, <1>3, <1>4, <2>1, SameElems
       DEF Count, CountIn, CountOut, CountGraphOutput,
           Healthy!Setup, Healthy!CountIn, Healthy!CountOut, Healthy!CountGraphOutput
  <2> QED
    BY <2>2 DEF Healthy!Next
<1>5. CASE ConvertGraph \/ SetupLayer
  <2>1. HealthyPc' = "count"
    BY <1>5 DEF ConvertGraph, SetupLayer, vars, HealthyPc
  <2> QED
    BY <1>1, <1>3, <1>5, <2>1 DEF ConvertGraph, SetupLayer, vars, Healthy!vars
<1>6. CASE SetupReturn
  <2>1. HealthyPc' = "idle"
    BY <1>6 DEF SetupReturn, HealthyPc
  <2>2. Healthy!SetupDone
    BY <1>1, <1>3, <1>6, <2>1 DEF DeviceInv, PhaseInv, SetupReturn, Healthy!SetupDone
  <2> QED
    BY <2>2 DEF Healthy!Setup, Healthy!Next
<1> QED
  BY <1>4, <1>5, <1>6

(* The application, and the loops of op_run_deinit, release and reuse only  *)
(* buffers that are not results of subgraphs.                               *)
LEMMA HeapDrops ==
  ASSUME CaseInv, CpuData, NEW T, T \subseteq Tensor \ SubOutputs,
         NEW new, new[1] # "sub", Results' = Results,
         heap' = (heap \ {data[t] : t \in T}) \cup {new}
  PROVE  HealthyHeap' = (HealthyHeap \ {HealthyData[t] : t \in T}) \cup {new}
<1>1. \A t \in T : data[t] \notin Results /\ HealthyData[t] = data[t]
  BY NotAResult
<1>2. {HealthyData[t] : t \in T} = {data[t] : t \in T}
  BY <1>1
<1>3. {data[t] : t \in T} \cap Results = {}
  BY <1>1
<1> QED
  BY <1>2, <1>3 DEF HealthyHeap

LEMMA HeapReleases ==
  ASSUME CaseInv, CpuData, NEW T, T \subseteq Tensor \ SubOutputs, Results' = Results,
         heap' = heap \ {data[t] : t \in T}
  PROVE  HealthyHeap' = HealthyHeap \ {HealthyData[t] : t \in T}
<1>1. \A t \in T : data[t] \notin Results /\ HealthyData[t] = data[t]
  BY NotAResult
<1>2. {HealthyData[t] : t \in T} = {data[t] : t \in T}
  BY <1>1
<1>3. {data[t] : t \in T} \cap Results = {}
  BY <1>1
<1> QED
  BY <1>2, <1>3 DEF HealthyHeap

LEMMA ApplicationMaps ==
  ASSUME DeviceInv, SSApplication
  PROVE  [Healthy!Next]_(Healthy!vars)
<1>1. /\ g' = g /\ run' = run /\ i' = i /\ j' = j /\ rc' = rc /\ rcInit' = rcInit
      /\ pc = "idle" /\ pc' = "idle" /\ HealthyPc = "idle" /\ HealthyPc' = "idle"
      /\ CaseInv /\ CpuData
  BY DEF DeviceInv, SSApplication, Application, UpdateInput, ReleaseOutputs, HealthyPc
<1>2. Results' = Results
      /\ HealthyData' = [t \in Tensor |-> IF t \in SubOutputs THEN Result(t) ELSE data'[t]]
  BY <1>1, ProducerKept, ResultsKept DEF Turn, LayerTurn
<1>3. CASE ReleaseOutputs
  <2> DEFINE T == Elems(g.output) \cap OpTensors(g)
  <2>1. T \subseteq Tensor \ SubOutputs
    <3>1. OpTensors(g) \subseteq Tensor
      BY <1>1, Plan, PlanTypes DEF OpTensors
    <3> QED
      BY <1>1, <3>1, Plan
  <2>2. HealthyHeap' = HealthyHeap \ {HealthyData[t] : t \in T}
    BY <1>1, <1>2, <1>3, <2>1, HeapReleases DEF ReleaseOutputs
  <2>3. HealthyData' = HealthyData
    BY <1>2, <1>3 DEF ReleaseOutputs, HealthyData
  <2>4. Healthy!ReleaseOutputs
    BY <1>1, <1>3, <2>2, <2>3, SameElems, SameOps DEF ReleaseOutputs, Healthy!ReleaseOutputs
  <2> QED
    BY <2>4 DEF Healthy!Application, Healthy!Next
<1>4. CASE \E t \in Elems(g.input) : UpdateInput(t)
  <2>1. PICK t \in Elems(g.input) : UpdateInput(t)
    BY <1>4
  <2>2. t \in Tensor \ SubOutputs
    BY <1>1, Plan, PlanTypes
  <2>3. HealthyHeap' = (HealthyHeap \ {HealthyData[t]}) \cup {User(t, run + 1)}
    <3>1. User(t, run + 1)[1] # "sub"
      BY DEF User
    <3>2. heap' = (heap \ {data[u] : u \in {t}}) \cup {User(t, run + 1)}
      BY <2>1 DEF UpdateInput
    <3>3. HealthyHeap' = (HealthyHeap \ {HealthyData[u] : u \in {t}}) \cup {User(t, run + 1)}
      BY <1>1, <1>2, <2>2, <3>1, <3>2, HeapDrops
    <3> QED
      BY <3>3
  <2>4. HealthyData' = [HealthyData EXCEPT ![t] = User(t, run + 1)]
    BY <1>1, <1>2, <2>1, <2>2 DEF UpdateInput, HealthyData, CpuData
  <2>5. Healthy!UpdateInput(t)
    BY <1>1, <2>1, <2>3, <2>4, SameBuffers DEF UpdateInput, Healthy!UpdateInput
  <2> QED
    BY <2>5, SameElems DEF Healthy!Application, Healthy!Next
<1> QED
  BY <1>3, <1>4 DEF SSApplication, Application

(* A new run gives every subgraph its next turn. *)
LEMMA SessionTurns ==
  ASSUME DeviceInv, Healthy!IInv, SessionRun, NEW l \in SubLayers
  PROVE  LayerTurn(l)' = LayerTurn(l) \/ ~(LayerTurn(l)' > 0 \/ LayerTurn(l) > 0)
<1>0. /\ g' = g /\ run' = run + 1 /\ i' = 1 /\ pc = "idle" /\ CaseInv /\ PhaseInv
  BY DEF DeviceInv, SessionRun
<1>1. l \in 1 .. Len(g.plan) /\ Len(g.plan) \in Nat
  BY <1>0, Plan, PlanTypes DEF Layers
<1>2. run \in Nat /\ LayerTurn(l)' = run
  <2>1. ~(l < 1)
    BY <1>1
  <2>2. run \in Nat
    BY <1>0 DEF PhaseInv
  <2> QED
    BY <1>0, <2>1, <2>2 DEF LayerTurn
<1>3. CASE run > 0
  <2>1. i > Len(g.plan) /\ i \in Nat
    BY <1>0, <1>3 DEF PhaseInv, Healthy!IInv, Healthy!TypeOK
  <2>2. l < i
    BY <1>1, <2>1
  <2> QED
    BY <1>2, <2>2 DEF LayerTurn
<1>4. CASE ~(run > 0)
  BY <1>0, <1>2, <1>4 DEF LayerTurn
<1> QED
  BY <1>3, <1>4

LEMMA SessionRunMaps ==
  ASSUME DeviceInv, Healthy!IInv, SessionRun
  PROVE  Healthy!SessionRun
<1>1. /\ g' = g /\ run' = run + 1 /\ i' = 1 /\ j' = 1 /\ data' = data /\ heap' = heap
      /\ pc = "idle" /\ pc' = "layer" /\ HealthyPc = "idle" /\ HealthyPc' = "layer"
      /\ CaseInv /\ CpuData /\ PhaseInv
  BY DEF DeviceInv, SessionRun, HealthyPc
<1>2. \A t \in SubOutputs : Turn(t)' = Turn(t) \/ ~(Turn(t)' > 0 \/ Turn(t) > 0)
  BY <1>1, SessionTurns, Producers, ProducerKept DEF Turn
<1>3. HealthyData' = HealthyData /\ HealthyHeap' = HealthyHeap
  BY <1>1, <1>2, ResultsKept DEF HealthyData, HealthyHeap
<1>4. Healthy!InputsReady
  <2>1. \A t \in Elems(g.input) : HealthyData[t] = data[t]
    BY <1>1, Plan, PlanTypes, NotAResult
  <2> QED
    BY <2>1, SameElems, SameBuffers DEF SessionRun, InputsReady, Healthy!InputsReady
<1> QED
  BY <1>1, <1>3, <1>4, SameOps DEF SessionRun, Healthy!SessionRun

LEMMA RunDoneMaps ==
  ASSUME DeviceInv, RunDone
  PROVE  Healthy!RunDone
<1>1. /\ g' = g /\ run' = run /\ i' = i /\ data' = data /\ heap' = heap
      /\ HealthyPc = "layer" /\ HealthyPc' = "idle"
  BY DEF DeviceInv, RunDone, HealthyPc
<1>2. HealthyData' = HealthyData /\ HealthyHeap' = HealthyHeap
  BY <1>1, ProducerKept, ResultsKept DEF HealthyData, HealthyHeap, Turn, LayerTurn
<1> QED
  BY <1>1, <1>2 DEF RunDone, Healthy!RunDone

(* Where op_run_deinit works, and what it may free. *)
LEMMA AtDeinit ==
  ASSUME DeviceInv, Healthy!IInv, pc = "deinit"
  PROVE  /\ i \in OpLayers(g)
         /\ \A t \in Tensor : rc[t] > 0 => t \notin SubOutputs
<1>1. HealthyPc = "deinit" /\ CaseInv
  BY DEF HealthyPc, DeviceInv
<1>2. Healthy!PositionInv /\ Healthy!RcZero
  BY DEF Healthy!IInv
<1>3. i \in OpLayers(g)
  BY <1>1, <1>2, SameOps DEF Healthy!PositionInv
<1>4. \A t \in Tensor \ OpTensors(g) : rc[t] = 0
  BY <1>2, SameOps DEF Healthy!RcZero
<1> QED
  BY <1>1, <1>3, <1>4, Plan

LEMMA DeinitReads ==
  ASSUME DeviceInv, Healthy!IInv, DeinitIn
  PROVE  g.plan[i].in[j] \in Tensor
<1>1. i \in Layers /\ GraphOK(g, Tensor)
  BY AtDeinit, Plan DEF DeviceInv, DeinitIn
<1>2. g.plan[i].in \in Seq(Tensor)
  <2>1. g.plan \in Seq(Layer(Tensor))
    BY <1>1 DEF GraphOK, GraphRecord
  <2>2. g.plan[i] \in Layer(Tensor)
    BY <1>1, <2>1 DEF Layers
  <2> QED
    BY <2>2 DEF Layer
<1>3. j \in Nat \ {0}
  BY DEF Healthy!IInv, Healthy!TypeOK
<1> QED
  BY <1>1, <1>2, <1>3 DEF DeinitIn

LEMMA DeinitInMaps ==
  ASSUME DeviceInv, Healthy!IInv, DeinitIn
  PROVE  Healthy!DeinitIn
<1> DEFINE t0 == g.plan[i].in[j]
<1>1. /\ g' = g /\ run' = run /\ i' = i /\ data' = data
      /\ pc = "deinit" /\ pc' = "deinit" /\ HealthyPc = "deinit" /\ HealthyPc' = "deinit"
      /\ CaseInv /\ CpuData
  BY DEF DeviceInv, DeinitIn, HealthyPc
<1>2. HealthyData' = HealthyData /\ Results' = Results
  BY <1>1, ProducerKept, ResultsKept DEF HealthyData, Turn, LayerTurn
<1>3. t0 \in Tensor
  BY DeinitReads
<1>4. HealthyHeap' = IF rc[t0] = 1 THEN HealthyHeap \ {HealthyData[t0]} ELSE HealthyHeap
  <2>1. CASE rc[t0] = 1
    <3>1. t0 \in Tensor \ SubOutputs
      BY <1>1, <1>3, <2>1, AtDeinit
    <3>2. heap' = heap \ {data[u] : u \in {t0}}
      BY <2>1 DEF DeinitIn
    <3>3. HealthyHeap' = HealthyHeap \ {HealthyData[u] : u \in {t0}}
      BY <1>1, <1>2, <3>1, <3>2, HeapReleases
    <3> QED
      BY <2>1, <3>3
  <2>2. CASE rc[t0] # 1
    <3>1. heap' = heap
      BY <2>2 DEF DeinitIn
    <3> QED
      BY <1>2, <2>2, <3>1 DEF HealthyHeap
  <2> QED
    BY <2>1, <2>2
<1> QED
  BY <1>1, <1>2, <1>4 DEF DeinitIn, Healthy!DeinitIn

LEMMA DeinitTurns ==
  ASSUME DeviceInv, Healthy!IInv, DeinitOut, NEW l \in SubLayers
  PROVE  LayerTurn(l)' = LayerTurn(l)
<1>0. g' = g /\ run' = run /\ i' = i + 1 /\ pc = "deinit" /\ CaseInv
  BY DEF DeviceInv, DeinitOut
<1>1. /\ i \in Layers \ SubLayers /\ l \in SubLayers /\ SubLayers \subseteq Layers
      /\ Layers \subseteq Nat
  BY <1>0, AtDeinit, Plan, PlanTypes DEF Layers
<1>2. l # i /\ i \in Nat /\ l \in Nat
  BY <1>1
<1>3. l < i + 1 <=> l < i
  BY <1>2
<1> QED
  BY <1>0, <1>3 DEF LayerTurn

LEMMA DeinitOutMaps ==
  ASSUME DeviceInv, Healthy!IInv, DeinitOut
  PROVE  Healthy!DeinitOut
<1>1. /\ g' = g /\ run' = run /\ i' = i + 1 /\ data' = data /\ heap' = heap
      /\ pc = "deinit" /\ HealthyPc = "deinit" /\ HealthyPc' = "layer" /\ CaseInv
  BY DEF DeviceInv, DeinitOut, HealthyPc
<1>2. \A t \in SubOutputs : Turn(t)' = Turn(t)
  BY <1>1, DeinitTurns, Producers, ProducerKept DEF Turn
<1>3. HealthyData' = HealthyData /\ HealthyHeap' = HealthyHeap
  BY <1>1, <1>2, ResultsKept DEF HealthyData, HealthyHeap
<1> QED
  BY <1>1, <1>3, SameElems DEF DeinitOut, Healthy!DeinitOut

LEMMA BeginMaps ==
  ASSUME DeviceInv, Healthy!IInv, Begin
  PROVE  [Healthy!Next]_(Healthy!vars)
BY SessionRunMaps, DeinitInMaps, DeinitOutMaps, RunDoneMaps
   DEF Begin, Healthy!Next, Healthy!Execute

LEMMA CpuRunMaps ==
  ASSUME DeviceInv, CpuRun
  PROVE  [Healthy!Next]_(Healthy!vars)
<1>1. /\ g' = g /\ run' = run /\ i' = i /\ rc' = rc /\ rcInit' = rcInit /\ CaseInv
      /\ i \in OpLayers(g) /\ pc = "layer" /\ HealthyPc = "layer"
  BY DEF DeviceInv, CpuRun, OpRun, HealthyPc
<1>2. Results' = Results
      /\ HealthyData' = [t \in Tensor |-> IF t \in SubOutputs THEN Result(t) ELSE data'[t]]
  BY <1>1, ProducerKept, ResultsKept DEF Turn, LayerTurn
<1>3. CASE pc' = "crashed"
  <2>1. data' = data /\ heap' = heap /\ j' = j /\ HealthyPc' = "layer"
    BY <1>3 DEF CpuRun, OpRun, HealthyPc
  <2>2. HealthyData' = HealthyData /\ HealthyHeap' = HealthyHeap
    BY <1>2, <2>1 DEF HealthyData, HealthyHeap
  <2> QED
    BY <1>1, <2>1, <2>2 DEF Healthy!vars
<1>4. CASE OpRun
  <2> DEFINE outs == Elems(g.plan[i].out)
  <2>1. outs \cap SubOutputs = {}
    BY <1>1, Plan
  <2>2. HealthyData' = [t \in Tensor |-> IF t \in outs THEN Own(t, run) ELSE HealthyData[t]]
    BY <1>2, <1>4, <2>1 DEF OpRun, HealthyData
  <2>3. HealthyHeap' = HealthyHeap \cup {Own(t, run) : t \in outs}
    <3>1. \A t : Own(t, run)[1] # "sub"
      BY DEF Own
    <3>2. heap' = heap \cup {Own(t, run) : t \in outs}
      BY <1>4 DEF OpRun
    <3> QED
      BY <1>2, <3>1, <3>2 DEF HealthyHeap
  <2>4. HealthyPc' = "deinit"
    BY <1>4 DEF OpRun, HealthyPc
  <2>5. Healthy!OpRun
    BY <1>1, <1>4, <2>2, <2>3, <2>4, SameElems, SameOps, SameBuffers DEF OpRun, Healthy!OpRun
  <2> QED
    BY <2>5 DEF Healthy!Next, Healthy!Execute
<1> QED
  BY <1>3, <1>4 DEF CpuRun

LEMMA EntryMaps ==
  ASSUME DeviceInv, SubEntry
  PROVE  UNCHANGED Healthy!vars
<1>1. /\ g' = g /\ run' = run /\ i' = i /\ j' = j /\ rc' = rc /\ rcInit' = rcInit /\ heap' = heap
      /\ CaseInv /\ i \in SubLayers /\ HealthyPc = "layer" /\ HealthyPc' = "layer"
  BY DEF DeviceInv, SubEntry, HealthyPc
<1>2. \A t \in Tensor \ SubOutputs : data'[t] = data[t]
  BY <1>1, Producers DEF SubEntry
<1>3. HealthyData' = HealthyData /\ HealthyHeap' = HealthyHeap
  BY <1>1, <1>2, ProducerKept, ResultsKept DEF HealthyData, HealthyHeap, Turn, LayerTurn
<1> QED
  BY <1>1, <1>3 DEF Healthy!vars

(* Where a session is at work. *)
LEMMA AtReturn ==
  ASSUME DeviceInv, InFlight
  PROVE  /\ CaseInv /\ i \in SubLayers /\ i \in Layers /\ i \in Nat /\ i <= Len(g.plan)
         /\ run \in Nat /\ run > 0
         /\ Pending = Elems(g.plan[i].out) /\ Pending \subseteq SubOutputs
         /\ \A t \in SubOutputs : t \in Pending <=> Producer(t) = i
<1>1. /\ CaseInv /\ i \in SubLayers /\ run \in Nat /\ run > 0
      /\ Pending = Elems(g.plan[i].out)
  BY DEF DeviceInv, PhaseInv, InFlight, Pending
<1>2. i \in Layers /\ Len(g.plan) \in Nat
  BY <1>1, Plan, PlanTypes
<1> QED
  BY <1>1, <1>2, Producers DEF Layers

LEMMA RunMaps ==
  ASSUME DeviceInv, NEW ok, InnerRun(ok)
  PROVE  UNCHANGED Healthy!vars
<1>1. /\ g' = g /\ run' = run /\ i' = i /\ j' = j /\ rc' = rc /\ rcInit' = rcInit
      /\ InFlight /\ HealthyPc = "layer" /\ HealthyPc' = "layer"
  BY DEF InnerRun, HealthyPc, InFlight
<1>2. \A t \in Tensor \ SubOutputs : data'[t] = data[t]
  BY <1>1, AtReturn DEF InnerRun, Pending
<1>3. {b \in heap' : b[1] # "sub"} = {b \in heap : b[1] # "sub"}
  <2>1. \A t, r : Sub(t, r)[1] = "sub"
    BY DEF Sub
  <2> QED
    BY <2>1 DEF InnerRun
<1>4. HealthyData' = HealthyData /\ HealthyHeap' = HealthyHeap
  BY <1>1, <1>2, <1>3, ProducerKept, ResultsKept DEF HealthyData, HealthyHeap, Turn, LayerTurn
<1> QED
  BY <1>1, <1>4 DEF Healthy!vars

(* The return of a session gives its layer the turn. *)
LEMMA TurnTaken ==
  ASSUME DeviceInv, pc = "return", g' = g, run' = run, i' = i + 1
  PROVE  /\ \A t \in Pending : Turn(t) = run - 1 /\ Turn(t)' = run
         /\ \A t \in SubOutputs \ Pending : Turn(t)' = Turn(t)
<1>1. InFlight
  BY DEF InFlight
<1>2. \A t \in SubOutputs : Producer(t) \in Nat /\ Producer(t)' = Producer(t)
  <2>1. SubLayers \subseteq Nat
    BY <1>1, AtReturn, Plan, PlanTypes DEF Layers
  <2> QED
    BY <1>1, <2>1, AtReturn, Producers, ProducerKept
<1>3. i \in Nat
  BY <1>1, AtReturn
<1>4. ASSUME NEW t \in Pending PROVE Turn(t) = run - 1 /\ Turn(t)' = run
  <2>1. Producer(t) = i /\ Producer(t)' = i
    BY <1>1, <1>2, AtReturn
  <2> QED
    BY <1>3, <2>1 DEF Turn, LayerTurn
<1>5. ASSUME NEW t \in SubOutputs \ Pending PROVE Turn(t)' = Turn(t)
  <2>1. Producer(t) # i /\ Producer(t)' = Producer(t) /\ Producer(t) \in Nat
    BY <1>1, <1>2, AtReturn
  <2>2. Producer(t) < i + 1 <=> Producer(t) < i
    BY <1>3, <2>1
  <2> QED
    BY <2>1, <2>2 DEF Turn, LayerTurn
<1> QED
  BY <1>4, <1>5

(* NULL is no buffer of the heap. *)
LEMMA HeapOfBuffers == Healthy!IInv => HealthyHeap \subseteq Buffer /\ NoBuffer \notin Buffer
BY SameBuffers DEF Healthy!IInv, Healthy!TypeOK, Buffer, NoBuffer

LEMMA ReturnMaps ==
  ASSUME DeviceInv, Healthy!IInv, SubReturn
  PROVE  [Healthy!Next]_(Healthy!vars)
<1>1. /\ g' = g /\ run' = run /\ j' = j /\ rc' = rc /\ rcInit' = rcInit /\ heap' = heap
      /\ pc = "return" /\ InFlight /\ HealthyPc = "layer" /\ HealthyPc' = "layer"
  BY DEF SubReturn, HealthyPc, InFlight
<1>2. \A t \in Tensor \ SubOutputs : data'[t] = data[t]
  BY <1>1, AtReturn DEF SubReturn, CpuData, DeviceInv
<1>3. CASE pc' = "crashed"
  <2>1. i' = i /\ data' = data
    BY <1>3 DEF SubReturn
  <2>2. HealthyData' = HealthyData /\ HealthyHeap' = HealthyHeap
    BY <1>1, <2>1, ProducerKept, ResultsKept DEF HealthyData, HealthyHeap, Turn, LayerTurn
  <2> QED
    BY <1>1, <2>1, <2>2 DEF Healthy!vars
<1>4. CASE i' = i + 1
  <2>1. /\ \A t \in Pending : Turn(t) = run - 1 /\ Turn(t)' = run
        /\ \A t \in SubOutputs \ Pending : Turn(t)' = Turn(t)
        /\ run \in Nat /\ run > 0 /\ Pending \subseteq SubOutputs
        /\ Pending = Elems(g.plan[i].out) /\ SubOutputs \subseteq Tensor
    BY <1>1, <1>4, TurnTaken, AtReturn, Plan
  <2>2. SubOutputs' = SubOutputs
    BY <1>1, ProducerKept DEF SubOutputs
  <2>3. /\ \A t \in Pending : Result(t)' = Sub(t, run)
        /\ \A t \in SubOutputs \ Pending : Result(t)' = Result(t)
    BY <1>1, <2>1 DEF Result, Sub
  <2>4. HealthyData' = [t \in Tensor |-> IF t \in Pending THEN Sub(t, run) ELSE HealthyData[t]]
    BY <1>2, <2>1, <2>2, <2>3 DEF HealthyData
  <2>5. HealthyHeap' = (HealthyHeap \ {HealthyData[t] : t \in Pending})
                         \cup {Sub(t, run) : t \in Pending}
    <3>1. Results' = {Result(t) : t \in {u \in SubOutputs \ Pending : Turn(u) > 0}}
                       \cup {Sub(t, run) : t \in Pending}
      BY <2>1, <2>2, <2>3 DEF Results
    <3>2. Results \ {HealthyData[t] : t \in Pending}
            = {Result(t) : t \in {u \in SubOutputs \ Pending : Turn(u) > 0}}
      <4>1. \A t \in Pending : HealthyData[t] = Result(t)
        BY <2>1 DEF HealthyData
      <4>2. \A t \in SubOutputs, u \in SubOutputs : Turn(u) > 0 /\ Result(t) = Result(u) => t = u
        BY DEF Result, Sub, NoBuffer
      <4> QED
        BY <2>1, <4>1, <4>2 DEF Results
    <3>3. {b \in heap : b[1] # "sub"} \cap {HealthyData[t] : t \in Pending}
            \subseteq {NoBuffer}
      <4>1. ASSUME NEW t \in Pending
            PROVE  HealthyData[t] = NoBuffer \/ HealthyData[t][1] = "sub"
        BY <2>1 DEF HealthyData, Result, Sub
      <4> QED
        BY <4>1
    <3>4. NoBuffer \notin HealthyHeap
      BY HeapOfBuffers
    <3> QED
      BY <1>1, <3>1, <3>2, <3>3, <3>4 DEF HealthyHeap
  <2>6. Healthy!SubRun
    BY <1>1, <1>4, <2>1, <2>4, <2>5, SameElems, SameOps, SameBuffers, AtReturn, Plan
       DEF Healthy!SubRun, Layers
  <2> QED
    BY <2>6 DEF Healthy!Next, Healthy!Execute
<1> QED
  BY <1>3, <1>4 DEF SubReturn

LEMMA StepMaps ==
  ASSUME DeviceInv, Healthy!IInv, [SSNext]_ssvars
  PROVE  [Healthy!Next]_(Healthy!vars)
<1>1. CASE SSNext
  BY <1>1, SetupMaps, ApplicationMaps, BeginMaps, CpuRunMaps, EntryMaps, RunMaps, ReturnMaps
     DEF SSNext
<1>2. CASE UNCHANGED ssvars
  <2>1. /\ g' = g /\ run' = run /\ i' = i /\ j' = j /\ rc' = rc /\ rcInit' = rcInit
        /\ heap' = heap /\ data' = data /\ pc' = pc
    BY <1>2 DEF ssvars, vars
  <2>2. HealthyPc' = HealthyPc /\ HealthyData' = HealthyData /\ HealthyHeap' = HealthyHeap
    BY <2>1, ProducerKept, ResultsKept DEF HealthyPc, HealthyData, HealthyHeap, Turn, LayerTurn
  <2> QED
    BY <2>1, <2>2 DEF Healthy!vars
<1> QED
  BY <1>1, <1>2
-----------------------------------------------------------------------------
(* What every step leaves alone. *)
LEMMA Fixed ==
  ASSUME [SSNext]_ssvars
  PROVE  /\ g' = g /\ sub' = sub /\ reliable' = reliable
         /\ SubLayers' = SubLayers /\ Layers' = Layers /\ SubOutputs' = SubOutputs
         /\ \A t : Producer(t)' = Producer(t)
         /\ \A l : Converts(l)' <=> Converts(l)
<1>1. g' = g /\ sub' = sub /\ reliable' = reliable
  <2>1. CASE Count \/ ConvertGraph \/ SetupLayer \/ SetupReturn
    BY <2>1 DEF sv, vars, Count, CountIn, CountOut, CountGraphOutput, ConvertGraph,
                SetupLayer, SetupReturn
  <2>2. CASE SSApplication \/ Begin
    BY <2>2 DEF sv, SSApplication, Application, UpdateInput, ReleaseOutputs,
                Begin, SessionRun, DeinitIn, DeinitOut, RunDone
  <2>3. CASE CpuRun \/ SubEntry \/ SubReturn \/ \E ok \in BOOLEAN : InnerRun(ok)
    BY <2>3 DEF sv, CpuRun, OpRun, SubEntry, SubReturn, InnerRun
  <2>4. CASE UNCHANGED ssvars
    BY <2>4 DEF ssvars, sv, vars
  <2> QED
    BY <2>1, <2>2, <2>3, <2>4 DEF SSNext
<1> QED
  BY <1>1, ProducerKept DEF SubOutputs, Converts

LEMMA CaseKept == DeviceInv /\ [SSNext]_ssvars => CaseInv'
BY Fixed DEF DeviceInv, CaseInv

LEMMA PhaseKept ==
  ASSUME DeviceInv, Healthy!IInv, [SSNext]_ssvars
  PROVE  PhaseInv'
<1>1. g' = g /\ SubLayers' = SubLayers /\ PhaseInv /\ CaseInv
  BY Fixed DEF DeviceInv
<1>2. CASE Count
  BY <1>1, <1>2 DEF PhaseInv, Count, CountIn, CountOut, CountGraphOutput, InFlight
<1>3. CASE ConvertGraph \/ SetupLayer \/ SetupReturn
  BY <1>1, <1>3 DEF PhaseInv, ConvertGraph, SetupLayer, SetupReturn, InFlight, vars
<1>4. CASE SSApplication
  BY <1>1, <1>4 DEF PhaseInv, SSApplication, Application, UpdateInput, ReleaseOutputs, InFlight
<1>5. CASE Begin
  BY <1>1, <1>5 DEF PhaseInv, Begin, SessionRun, DeinitIn, DeinitOut, RunDone, InFlight
<1>6. CASE CpuRun
  BY <1>1, <1>6 DEF PhaseInv, CpuRun, OpRun, InFlight
<1>7. CASE SubEntry \/ SubReturn \/ \E ok \in BOOLEAN : InnerRun(ok)
  BY <1>1, <1>7 DEF PhaseInv, SubEntry, SubReturn, InnerRun, InFlight
<1>8. CASE UNCHANGED ssvars
  BY <1>1, <1>8 DEF PhaseInv, ssvars, vars, InFlight
<1> QED
  BY <1>2, <1>3, <1>4, <1>5, <1>6, <1>7, <1>8 DEF SSNext

LEMMA SetupKept ==
  ASSUME DeviceInv, Healthy!IInv, [SSNext]_ssvars
  PROVE  SetupInv'
<1>1. /\ g' = g /\ SubLayers' = SubLayers /\ SetupInv /\ PhaseInv
      /\ Len(g.plan) \in Nat /\ SubLayers \subseteq Layers
  BY Fixed, Plan, PlanTypes DEF DeviceInv
<1>2. CASE ConvertGraph
  BY <1>1, <1>2 DEF SetupInv, ConvertGraph
<1>3. CASE SetupLayer
  <2>1. sess' \in [Tensor -> {0} \cup SubLayers] /\ settled' \subseteq SubLayers
    BY <1>1, <1>3 DEF SetupInv, SetupLayer
  <2>2. sl' \in 0 .. Len(g.plan) + 1 /\ sl' > 0 /\ fdata' = fdata
    BY <1>1, <1>3 DEF SetupInv, SetupLayer
  <2> QED
    BY <1>1, <2>1, <2>2 DEF SetupInv
<1>4. CASE SetupReturn
  BY <1>1, <1>4 DEF SetupInv, SetupReturn, sv
<1>5. CASE Count \/ SSApplication \/ Begin \/ CpuRun \/ SubReturn \/ \E ok \in BOOLEAN : InnerRun(ok)
  <2>1. sess' = sess /\ settled' = settled /\ sl' = sl /\ fdata' = fdata
    BY <1>5 DEF Count, SSApplication, Begin, CpuRun, SubReturn, InnerRun, sv
  <2>2. pc' = "setup" => pc = "setup"
    <3>1. Count \/ SSApplication => pc' = pc
      BY DEF Count, CountIn, CountOut, CountGraphOutput, SSApplication, Application,
             UpdateInput, ReleaseOutputs
    <3>2. Begin => pc' \in {pc, "idle", "layer", "deinit"}
      BY DEF Begin, SessionRun, DeinitIn, DeinitOut, RunDone
    <3>3. CpuRun => pc' # "setup"
      BY DEF CpuRun, OpRun
    <3>4. SubReturn \/ (\E ok \in BOOLEAN : InnerRun(ok)) => pc' # "setup"
      BY DEF SubReturn, InnerRun
    <3> QED
      BY <1>5, <3>1, <3>2, <3>3, <3>4
  <2> QED
    BY <1>1, <2>1, <2>2 DEF SetupInv
<1>6. CASE SubEntry
  BY <1>1, <1>6 DEF SetupInv, SubEntry
<1>7. CASE UNCHANGED ssvars
  BY <1>1, <1>7 DEF SetupInv, ssvars, vars, sv
<1> QED
  BY <1>2, <1>3, <1>4, <1>5, <1>6, <1>7 DEF SSNext
-----------------------------------------------------------------------------
(* Where the turns of the subgraphs change. *)
LEMMA LayerTurnsKept ==
  ASSUME DeviceInv, Healthy!IInv, [SSNext]_ssvars, ~SubReturn, NEW l \in SubLayers
  PROVE  LayerTurn(l)' = LayerTurn(l) \/ ~(LayerTurn(l)' > 0 \/ LayerTurn(l) > 0)
<1>2. CASE Count \/ ConvertGraph \/ SetupLayer \/ SetupReturn
  <2>1. run = 0 /\ run' = 0
    BY <1>2 DEF DeviceInv, PhaseInv, Count, CountIn, CountOut, CountGraphOutput, ConvertGraph,
                SetupLayer, SetupReturn, vars
  <2> QED
    BY <2>1 DEF LayerTurn
<1>3. CASE SSApplication \/ CpuRun \/ SubEntry \/ \E ok \in BOOLEAN : InnerRun(ok)
  <2>1. run' = run /\ i' = i
    BY <1>3 DEF SSApplication, Application, UpdateInput, ReleaseOutputs, CpuRun, OpRun,
                SubEntry, InnerRun
  <2> QED
    BY <2>1 DEF LayerTurn
<1>4. CASE Begin
  <2>1. CASE DeinitIn \/ RunDone
    BY <2>1 DEF DeinitIn, RunDone, LayerTurn
  <2> QED
    BY <1>4, <2>1, SessionTurns, DeinitTurns DEF Begin
<1>5. CASE UNCHANGED ssvars
  BY <1>5 DEF ssvars, vars, LayerTurn
<1> QED
  BY <1>2, <1>3, <1>4, <1>5 DEF SSNext

LEMMA TurnsKept ==
  ASSUME DeviceInv, Healthy!IInv, [SSNext]_ssvars, ~SubReturn, NEW t \in SubOutputs
  PROVE  Turn(t)' = Turn(t) \/ ~(Turn(t)' > 0 \/ Turn(t) > 0)
<1>1. Producer(t) \in SubLayers /\ Producer(t)' = Producer(t)
  BY Fixed, Producers DEF DeviceInv
<1> QED
  BY <1>1, LayerTurnsKept DEF Turn

LEMMA CopiesGrow == ASSUME [SSNext]_ssvars PROVE copies \subseteq copies'
<1>1. CASE SubEntry \/ SubReturn
  BY <1>1 DEF SubEntry, SubReturn
<1>2. CASE Count \/ ConvertGraph \/ SetupLayer \/ SetupReturn \/ SSApplication \/ Begin
           \/ CpuRun \/ \E ok \in BOOLEAN : InnerRun(ok)
  BY <1>2 DEF Count, ConvertGraph, SetupLayer, SetupReturn, SSApplication, Begin, CpuRun,
              InnerRun, sv
<1>3. CASE UNCHANGED ssvars
  BY <1>3 DEF ssvars, sv
<1> QED
  BY <1>1, <1>2, <1>3 DEF SSNext

(* A result that is not pending is not released by anyone else. *)
LEMMA Survives ==
  ASSUME DeviceInv, Healthy!IInv, [SSNext]_ssvars,
         NEW t \in SubOutputs \ Pending, data[t] # NoBuffer
  PROVE  data[t] \in heap' \cup copies'
<1>1. /\ data[t] \in heap \cup copies /\ CaseInv /\ CpuData
      /\ Turn(t) > 0 /\ data[t] \in {Sub(t, Turn(t)), OutCopy(t, Turn(t))}
  BY DEF DeviceInv, SubData, Delivered, Live
<1>2. copies \subseteq copies'
  BY CopiesGrow
<1>3. ASSUME NEW s \in Tensor \ SubOutputs PROVE data[s] # data[t]
  <2>1. data[s] \in {NoBuffer} \cup {"own", "user"} \X {s} \X Nat
    BY <1>1 DEF CpuData
  <2> QED
    BY <1>1, <2>1 DEF Sub, OutCopy, NoBuffer
<1>4. CASE Count \/ ConvertGraph \/ SetupLayer \/ SetupReturn \/ CpuRun \/ SubEntry \/ SubReturn
  <2>1. heap \subseteq heap'
    BY <1>4 DEF Count, CountIn, CountOut, CountGraphOutput, ConvertGraph, SetupLayer,
                SetupReturn, CpuRun, OpRun, SubEntry, SubReturn, vars
  <2> QED
    BY <1>1, <1>2, <2>1
<1>5. CASE SSApplication
  <2>1. CASE ReleaseOutputs
    <3>1. Elems(g.output) \cap OpTensors(g) \subseteq Tensor \ SubOutputs
      BY <1>1, Plan, PlanTypes DEF OpTensors
    <3>2. data[t] \notin {data[s] : s \in Elems(g.output) \cap OpTensors(g)}
      BY <1>3, <3>1
    <3> QED
      BY <1>1, <1>2, <2>1, <3>2 DEF ReleaseOutputs
  <2>2. ASSUME NEW s \in Elems(g.input), UpdateInput(s) PROVE data[t] \in heap' \cup copies'
    <3>1. s \in Tensor \ SubOutputs
      BY <1>1, Plan, PlanTypes
    <3> QED
      BY <1>1, <1>2, <1>3, <2>2, <3>1 DEF UpdateInput
  <2> QED
    BY <1>5, <2>1, <2>2 DEF SSApplication, Application
<1>6. CASE Begin
  <2>1. CASE SessionRun \/ DeinitOut \/ RunDone
    BY <1>1, <1>2, <2>1 DEF SessionRun, DeinitOut, RunDone
  <2>2. CASE DeinitIn
    <3> DEFINE s == g.plan[i].in[j]
    <3>1. heap' = heap \/ (rc[s] = 1 /\ heap' = heap \ {data[s]})
      BY <2>2 DEF DeinitIn
    <3>2. s \in Tensor
      BY <2>2, DeinitReads
    <3>3. rc[s] = 1 => s \in Tensor \ SubOutputs
      BY <2>2, <3>2, AtDeinit DEF DeinitIn
    <3> QED
      BY <1>1, <1>2, <1>3, <3>1, <3>3
  <2> QED
    BY <1>6, <2>1, <2>2 DEF Begin
<1>7. CASE \E ok \in BOOLEAN : InnerRun(ok)
  <2>1. t \notin Elems(g.plan[i].out)
    BY <1>7 DEF InnerRun, Pending, InFlight
  <2>2. ASSUME NEW u \in Elems(g.plan[i].out), NEW r PROVE Sub(u, r) # data[t]
    BY <1>1, <2>1 DEF Sub, OutCopy
  <2> QED
    BY <1>1, <1>2, <1>7, <2>2 DEF InnerRun
<1>8. CASE UNCHANGED ssvars
  BY <1>1, <1>2, <1>8 DEF ssvars, vars
<1> QED
  BY <1>4, <1>5, <1>6, <1>7, <1>8 DEF SSNext

LEMMA CpuDataKept ==
  ASSUME DeviceInv, Healthy!IInv, [SSNext]_ssvars
  PROVE  CpuData'
<1>1. /\ g' = g /\ SubOutputs' = SubOutputs /\ CpuData /\ CaseInv /\ run \in Nat
  BY Fixed DEF DeviceInv, PhaseInv
<1>2. CASE data' = data
  BY <1>1, <1>2 DEF CpuData
<1>3. CASE \E t \in Elems(g.input) : UpdateInput(t)
  BY <1>1, <1>3 DEF UpdateInput, CpuData, User
<1>4. CASE OpRun
  BY <1>1, <1>4 DEF OpRun, CpuData, Own
<1>5. CASE SubEntry
  <2>1. \A t \in Tensor \ SubOutputs : data'[t] = data[t]
    BY <1>1, <1>5, Producers DEF SubEntry
  <2> QED
    BY <1>1, <1>5, <2>1 DEF SubEntry, CpuData
<1>6. CASE \E ok \in BOOLEAN : InnerRun(ok)
  <2>1. \A t \in Tensor \ SubOutputs : data'[t] = data[t]
    BY <1>1, <1>6, AtReturn DEF InnerRun, InFlight, Pending
  <2> QED
    BY <1>1, <1>6, <2>1 DEF InnerRun, CpuData
<1>7. CASE SubReturn
  <2>1. \A t \in Tensor \ SubOutputs : data'[t] = data[t]
    BY <1>1, <1>7, AtReturn DEF SubReturn, InFlight, Pending
  <2> QED
    BY <1>1, <1>7, <2>1 DEF SubReturn, CpuData
<1>8. data' = data \/ (\E t \in Elems(g.input) : UpdateInput(t)) \/ OpRun \/ SubEntry
      \/ (\E ok \in BOOLEAN : InnerRun(ok)) \/ SubReturn
  BY DEF SSNext, ssvars, vars, Count, CountIn, CountOut, CountGraphOutput, ConvertGraph,
         SetupLayer, SetupReturn, SSApplication, Application, ReleaseOutputs, Begin,
         SessionRun, DeinitIn, DeinitOut, RunDone, CpuRun
<1> QED
  BY <1>2, <1>3, <1>4, <1>5, <1>6, <1>7, <1>8

(* Steps of the application and the CPU, and those of the setup.            *)
Elsewhere ==
  \/ Count \/ ConvertGraph \/ SetupLayer \/ SetupReturn
  \/ SSApplication \/ Begin \/ CpuRun

LEMMA ElsewhereSteps ==
  ASSUME DeviceInv, Elsewhere
  PROVE  /\ before' = before /\ copies' = copies /\ fdata' = fdata
         /\ ~InFlight /\ ~InFlight' /\ Pending = {} /\ Pending' = {}
         /\ \A t \in SubOutputs : data'[t] = data[t]
<1>1. before' = before /\ copies' = copies /\ fdata' = fdata
  BY DEF Elsewhere, sv, Count, ConvertGraph, SetupLayer, SetupReturn, SSApplication, Begin, CpuRun
<1>2. ~InFlight /\ ~InFlight'
  <2>1. CASE Count \/ ConvertGraph \/ SetupLayer \/ SetupReturn
    BY <2>1 DEF Count, CountIn, CountOut, CountGraphOutput, ConvertGraph, SetupLayer,
                SetupReturn, vars, InFlight
  <2>2. CASE SSApplication \/ Begin \/ CpuRun
    BY <2>2 DEF SSApplication, Application, UpdateInput, ReleaseOutputs, Begin, SessionRun,
                DeinitIn, DeinitOut, RunDone, CpuRun, OpRun, InFlight
  <2> QED
    BY <2>1, <2>2 DEF Elsewhere
<1>3. \A t \in SubOutputs : data'[t] = data[t]
  <2>1. CASE data' = data
    BY <2>1
  <2>2. CASE OpRun
    <3>1. Elems(g.plan[i].out) \cap SubOutputs = {} /\ SubOutputs \subseteq Tensor
      BY <2>2, Plan DEF OpRun, DeviceInv
    <3> QED
      BY <2>2, <3>1 DEF OpRun
  <2>3. ASSUME NEW u \in Elems(g.input), UpdateInput(u)
        PROVE  \A t \in SubOutputs : data'[t] = data[t]
    <3>1. u \notin SubOutputs /\ SubOutputs \subseteq Tensor
      BY Plan DEF DeviceInv
    <3> QED
      BY <2>3, <3>1 DEF UpdateInput, DeviceInv, CpuData
  <2> QED
    BY <2>1, <2>2, <2>3
       DEF Elsewhere, Count, CountIn, CountOut, CountGraphOutput, ConvertGraph, SetupLayer,
           SetupReturn, SSApplication, Application, ReleaseOutputs, Begin, SessionRun,
           DeinitIn, DeinitOut, RunDone, CpuRun, vars
<1> QED
  BY <1>1, <1>2, <1>3 DEF Pending

LEMMA SubDataKept ==
  ASSUME DeviceInv, Healthy!IInv, [SSNext]_ssvars
  PROVE  SubData'
<1>1. /\ g' = g /\ SubOutputs' = SubOutputs /\ SubData /\ CaseInv /\ SubOutputs \subseteq Tensor
  BY Fixed, Plan DEF DeviceInv
<1>2. CASE Elsewhere
  <2>1. /\ before' = before /\ Pending = {} /\ Pending' = {}
        /\ \A t \in SubOutputs : data'[t] = data[t]
    BY <1>2, ElsewhereSteps
  <2>2. ~SubReturn
    BY <1>2, ElsewhereSteps DEF SubReturn, InFlight
  <2>3. ASSUME NEW t \in SubOutputs PROVE Delivered(t, data[t])'
    <3>1. Delivered(t, data[t])
      BY <1>1, <2>1 DEF SubData
    <3>2. Turn(t)' = Turn(t) \/ ~(Turn(t)' > 0 \/ Turn(t) > 0)
      BY <2>2, TurnsKept
    <3> QED
      BY <2>1, <3>1, <3>2 DEF Delivered, Sub, OutCopy
  <2>4. \A t \in SubOutputs : data'[t] = NoBuffer \/ Live(data[t])'
    BY <2>1, Survives DEF Live
  <2> QED
    BY <1>1, <2>1, <2>3, <2>4 DEF SubData
<1>3. CASE SubEntry
  <2> DEFINE outs == Elems(g.plan[i].out)
  <2>1. /\ heap' = heap /\ copies \subseteq copies' /\ before' = data /\ i' = i /\ run' = run
        /\ \A t \in SubOutputs : data'[t] = IF t \in outs THEN NoBuffer ELSE data[t]
        /\ Pending = {} /\ Pending' \in {{}, outs}
        /\ i \in SubLayers /\ outs \subseteq SubOutputs
    BY <1>1, <1>3, Producers DEF SubEntry, Pending, InFlight
  <2>2. ASSUME NEW t \in SubOutputs
        PROVE  Delivered(t, data[t])' /\ Delivered(t, before[t])'
               /\ (data'[t] = NoBuffer \/ data'[t] \in heap' \cup copies')
    <3>1. Delivered(t, data[t]) /\ (data[t] = NoBuffer \/ Live(data[t]))
      BY <1>1, <2>1 DEF SubData
    <3>2. Turn(t)' = Turn(t)
      BY <2>1, Fixed DEF Turn, LayerTurn
    <3> QED
      BY <2>1, <3>1, <3>2 DEF Delivered, Live, Sub, OutCopy
  <2> QED
    BY <1>1, <2>1, <2>2 DEF SubData, Live
<1>4. CASE \E ok \in BOOLEAN : InnerRun(ok)
  <2>1. PICK ok \in BOOLEAN : InnerRun(ok)
    BY <1>4
  <2>2. /\ InFlight /\ i' = i /\ run' = run /\ before' = before /\ copies' = copies
        /\ pc = "inner"
    BY <1>1, <2>1 DEF InnerRun, InFlight, sv
  <2>3. \A t \in Pending : data[t] = NoBuffer
    BY <1>1, <2>2 DEF SubData
  <2>4. \A t \in SubOutputs : Turn(t)' = Turn(t)
    BY <2>2, Fixed DEF Turn, LayerTurn
  <2>5. CASE i \in settled
    <3>1. InFlight' /\ pc' = "return" /\ Pending' = Pending
      BY <1>1, <2>1, <2>2, <2>5 DEF InnerRun, InFlight, Pending
    <3>2. \/ data' = data
          \/ \A t \in SubOutputs : data'[t] = IF t \in Pending THEN Sub(t, run) ELSE data[t]
      BY <1>1, <2>1, <2>2, AtReturn DEF InnerRun
    <3>3. ASSUME NEW t \in SubOutputs
          PROVE  Delivered(t, IF t \in Pending THEN before[t] ELSE data[t])'
      BY <1>1, <2>2, <2>4, <3>1, <3>2 DEF SubData, Delivered, Sub, OutCopy
    <3>4. \/ \A t \in Pending : data'[t] = NoBuffer
          \/ \A t \in Pending : data'[t] = Sub(t, run)
      BY <2>2, <2>3, <3>2, AtReturn
    <3>5. ASSUME NEW t \in SubOutputs PROVE data'[t] = NoBuffer \/ Live(data[t])'
      <4>1. CASE t \in Pending
        <5>1. data' # data => Sub(t, run) \in heap'
          BY <2>1, <2>2, <4>1, AtReturn DEF InnerRun
        <5> QED
          BY <2>3, <3>2, <4>1, <5>1 DEF Live
      <4>2. CASE t \notin Pending
        BY <3>2, <4>2, Survives DEF Live
      <4> QED
        BY <4>1, <4>2
    <3> QED
      BY <1>1, <2>2, <3>1, <3>3, <3>4, <3>5 DEF SubData
  <2>6. CASE i \notin settled
    <3>1. data' = data /\ heap' = heap /\ Pending' = {}
      BY <2>1, <2>6 DEF InnerRun, Pending, InFlight
    <3>2. \A t \in SubOutputs : Delivered(t, data[t])'
      BY <1>1, <2>3, <2>4, <2>2, <3>1 DEF SubData, Delivered, Sub, OutCopy
    <3>3. \A t \in SubOutputs : data'[t] = NoBuffer \/ Live(data[t])'
      BY <1>1, <2>2, <3>1 DEF SubData, Live
    <3> QED
      BY <1>1, <3>1, <3>2, <3>3 DEF SubData
  <2> QED
    BY <2>5, <2>6
<1>5. CASE SubReturn
  <2>1. /\ InFlight /\ ~InFlight' /\ heap' = heap /\ copies \subseteq copies' /\ run' = run
        /\ before' = before /\ Pending' = {} /\ pc = "return"
    BY <1>5 DEF SubReturn, InFlight, Pending
  <2>2. CASE i' = i + 1
    <3>1. /\ \A t \in Pending : Turn(t)' = run
          /\ \A t \in SubOutputs \ Pending : Turn(t)' = Turn(t)
          /\ run > 0
      BY <1>1, <2>1, <2>2, TurnTaken, AtReturn
    <3>2. ASSUME NEW t \in SubOutputs
          PROVE  /\ t \notin Pending => data'[t] = data[t]
                 /\ t \in Pending => \/ data'[t] = data[t]
                                     \/ data'[t] = OutCopy(t, run) /\ OutCopy(t, run) \in copies'
      BY <1>1, <1>5, <2>1, AtReturn DEF SubReturn
    <3>3. ASSUME NEW t \in SubOutputs PROVE Delivered(t, data[t])'
      <4>1. CASE t \in Pending
        <5>1. data[t] \in {NoBuffer, Sub(t, run)}
          BY <1>1, <4>1 DEF SubData
        <5> QED
          BY <3>1, <3>2, <4>1, <5>1 DEF Delivered, Sub, OutCopy
      <4>2. CASE t \notin Pending
        BY <1>1, <3>1, <3>2, <4>2 DEF SubData, Delivered, Sub, OutCopy
      <4> QED
        BY <4>1, <4>2
    <3>4. ASSUME NEW t \in SubOutputs PROVE data'[t] = NoBuffer \/ Live(data[t])'
      BY <1>1, <2>1, <3>2 DEF SubData, Live
    <3> QED
      BY <1>1, <2>1, <3>3, <3>4 DEF SubData
  <2>3. CASE ~(i' = i + 1)
    <3>1. i' = i /\ data' = data /\ copies' = copies
          /\ \E t \in Pending : data[t] = NoBuffer
      BY <1>5, <2>1, <2>3, AtReturn DEF SubReturn
    <3>2. \A t \in Pending : data[t] = NoBuffer
      BY <1>1, <3>1 DEF SubData, Sub, NoBuffer
    <3>3. ASSUME NEW t \in SubOutputs PROVE Delivered(t, data[t])'
      <4>1. Delivered(t, data[t])
        BY <1>1, <3>2 DEF SubData, Delivered
      <4>2. Turn(t)' = Turn(t)
        BY <2>1, <3>1, Fixed DEF Turn, LayerTurn
      <4> QED
        BY <3>1, <4>1, <4>2 DEF Delivered, Sub, OutCopy
    <3> QED
      BY <1>1, <2>1, <3>1, <3>3 DEF SubData, Live
  <2> QED
    BY <2>2, <2>3
<1>6. CASE UNCHANGED ssvars
  <2>1. /\ data' = data /\ before' = before /\ Pending' = Pending /\ heap' = heap
        /\ copies' = copies /\ pc' = pc /\ run' = run /\ i' = i
    BY <1>6 DEF ssvars, vars, sv, Pending, InFlight
  <2>2. \A t \in SubOutputs : Turn(t)' = Turn(t)
    BY <2>1, Fixed DEF Turn, LayerTurn
  <2> QED
    BY <1>1, <2>1, <2>2 DEF SubData, Delivered, Live, Sub, OutCopy
<1> QED
  BY <1>2, <1>3, <1>4, <1>5, <1>6 DEF SSNext, Elsewhere
-----------------------------------------------------------------------------
(* A pointer names its tensor, and is no conversion copy of an input. *)
LEMMA DataNames ==
  ASSUME DeviceInv, NEW t \in Tensor, data[t] # NoBuffer
  PROVE  data[t][2] = t /\ data[t][1] # "incopy"
<1>1. CASE t \notin SubOutputs
  BY <1>1 DEF DeviceInv, CpuData
<1>2. CASE t \in Pending
  BY <1>2 DEF DeviceInv, SubData, Sub
<1>3. CASE t \in SubOutputs \ Pending
  BY <1>3 DEF DeviceInv, SubData, Delivered, Sub, OutCopy
<1> QED
  BY <1>1, <1>2, <1>3

(* What a layer reads is of this run, whoever produced it; and it is there  *)
(* if the devices are reliable.                                             *)
LEMMA InputsFresh ==
  ASSUME DeviceInv, Healthy!IInv, pc = "layer", i <= Len(g.plan),
         NEW t \in Elems(g.plan[i].in)
  PROVE  /\ data[t] = NoBuffer \/ (Live(data[t]) /\ data[t][3] = run)
         /\ reliable => data[t] # NoBuffer
<1>1. HealthyPc = "layer" /\ CaseInv /\ CpuData /\ SubData /\ Pending = {} /\ ReliableInv
  BY DEF HealthyPc, DeviceInv, Pending, InFlight
<1>2. HealthyData[t] \in HealthyHeap /\ HealthyData[t][3] = run
  BY <1>1, HealthyReads, SameElems DEF Healthy!NoUseAfterFree
<1>3. HealthyData[t] # NoBuffer
  BY <1>2, HeapOfBuffers
<1>4. t \in Tensor
  <2>1. i \in Nat \ {0}
    BY DEF Healthy!IInv, Healthy!TypeOK
  <2> QED
    BY <1>1, <2>1, Plan, PlanTypes DEF Layers
<1>5. CASE t \notin SubOutputs
  BY <1>1, <1>2, <1>3, <1>4, <1>5, NotAResult DEF Live
<1>6. CASE t \in SubOutputs
  <2>1. HealthyData[t] = Sub(t, Turn(t)) /\ Turn(t) > 0
    BY <1>3, <1>4, <1>6 DEF HealthyData, Result
  <2>2. Turn(t) = run
    BY <1>2, <2>1 DEF Sub
  <2>3. data[t] = NoBuffer \/ data[t][3] = run
    BY <1>1, <1>6, <2>2 DEF SubData, Delivered, Sub, OutCopy
  <2>4. data[t] = NoBuffer \/ Live(data[t])
    BY <1>1, <1>6 DEF SubData
  <2>5. reliable => data[t] # NoBuffer
    BY <1>1, <1>6, <2>1 DEF ReliableInv
  <2> QED
    BY <2>3, <2>4, <2>5
<1> QED
  BY <1>5, <1>6

LEMMA FormalKept ==
  ASSUME DeviceInv, Healthy!IInv, [SSNext]_ssvars
  PROVE  FormalInv'
<1>1. g' = g /\ SubLayers' = SubLayers /\ FormalInv /\ SetupInv /\ CaseInv
  BY Fixed DEF DeviceInv
<1>2. CASE Elsewhere \/ SubReturn \/ \E ok \in BOOLEAN : InnerRun(ok)
  <2>1. fdata' = fdata /\ pc' # "inner"
    <3>1. CASE Elsewhere
      BY <3>1, ElsewhereSteps DEF InFlight
    <3>2. CASE SubReturn \/ \E ok \in BOOLEAN : InnerRun(ok)
      BY <3>2 DEF SubReturn, InnerRun, sv
    <3> QED
      BY <1>2, <3>1, <3>2
  <2> QED
    BY <1>1, <2>1, CopiesGrow DEF FormalInv
<1>3. CASE SubEntry
  <2>1. /\ pc = "layer" /\ i \in SubLayers /\ i' = i /\ run' = run /\ heap' = heap
        /\ fdata' = [f \in DOMAIN fdata |-> FormalData(f)]
        /\ copies' = copies \cup {b \in {FormalData(f) : f \in DOMAIN fdata} : b[1] = "incopy"}
        /\ i <= Len(g.plan) /\ i \in Layers
    BY <1>1, <1>3, Plan, PlanTypes DEF SubEntry, Layers
  <2>2. ASSUME NEW f \in DOMAIN fdata
        PROVE  f = <<f[1], f[2]>> /\ f[1] \in SubLayers /\ f[2] \in DOMAIN g.plan[f[1]].in
    BY <1>1 DEF SetupInv
  <2>3. ASSUME NEW f \in DOMAIN fdata, f[1] = i
        PROVE  LET b == FormalData(f) IN
               \/ b = NoBuffer
               \/ /\ b[2] = IF b[1] = "incopy" THEN f ELSE g.plan[f[1]].in[f[2]]
                  /\ b[1] = "incopy" => b \in copies'
                  /\ b \in heap' \cup copies' /\ b[3] = run
    <3>1. CASE Converts(i)
      <4>1. FormalData(f) = InCopy(i, f[2], run)
        BY <2>3, <3>1 DEF FormalData
      <4>2. FormalData(f) \in copies'
        BY <2>1, <4>1 DEF InCopy
      <4> QED
        BY <2>2, <2>3, <4>1, <4>2 DEF InCopy
    <3>2. CASE ~Converts(i)
      <4> DEFINE t == g.plan[i].in[f[2]]
      <4>1. FormalData(f) = data[t]
        BY <2>3, <3>2 DEF FormalData
      <4>2. t \in Elems(g.plan[i].in) /\ t \in Tensor
        BY <1>1, <2>1, <2>2, <2>3, Plan, PlanTypes
      <4>3. data[t] = NoBuffer \/ (Live(data[t]) /\ data[t][3] = run)
        BY <2>1, <4>2, InputsFresh
      <4> QED
        BY <2>1, <2>3, <4>1, <4>2, <4>3, DataNames DEF Live
    <3> QED
      BY <3>1, <3>2
  <2>4. ASSUME NEW f \in DOMAIN fdata, f[1] # i
        PROVE  fdata'[f] = fdata[f]
    BY <2>1, <2>4 DEF FormalData
  <2>5. DOMAIN fdata' = DOMAIN fdata /\ \A f \in DOMAIN fdata : fdata'[f] = FormalData(f)
    BY <2>1
  <2> QED
    BY <1>1, <2>1, <2>3, <2>4, <2>5, CopiesGrow DEF FormalInv, Live
<1>4. CASE UNCHANGED ssvars
  BY <1>1, <1>4 DEF FormalInv, ssvars, vars, sv, Live
<1> QED
  BY <1>2, <1>3, <1>4 DEF SSNext, Elsewhere
-----------------------------------------------------------------------------
(* Reliable devices: nothing crashes, no result is missing, and the buffers *)
(* that subgraphs hold are those of the last turn of each.                  *)
LEMMA NoCrash ==
  ASSUME DeviceInv, Healthy!IInv, [SSNext]_ssvars, reliable
  PROVE  pc' # "crashed"
<1>1. pc # "crashed" /\ (pc = "return" => \A t \in Pending : data[t] = Sub(t, run))
  BY DEF DeviceInv, ReliableInv
<1>2. CASE CpuRun
  <2>1. i <= Len(g.plan)
    BY <1>2, Plan, PlanTypes DEF CpuRun, DeviceInv, Layers
  <2>2. \A t \in Elems(g.plan[i].in) : data[t] # NoBuffer
    BY <1>2, <2>1, InputsFresh DEF CpuRun
  <2> QED
    BY <1>2, <2>2 DEF CpuRun, OpRun
<1>3. CASE SubEntry
  <2>1. i <= Len(g.plan)
    BY <1>3, Plan, PlanTypes DEF SubEntry, DeviceInv, Layers
  <2>2. \A t \in Elems(g.plan[i].in) : data[t] # NoBuffer
    BY <1>3, <2>1, InputsFresh DEF SubEntry
  <2> QED
    BY <1>3, <2>2 DEF SubEntry
<1>4. CASE SubReturn
  <2>1. \A t \in Elems(g.plan[i].out) : data[t] # NoBuffer
    BY <1>1, <1>4 DEF SubReturn, Pending, InFlight, Sub, NoBuffer
  <2> QED
    BY <1>4, <2>1 DEF SubReturn
<1>5. CASE Count \/ ConvertGraph \/ SetupLayer \/ SetupReturn
  BY <1>1, <1>5 DEF Count, CountIn, CountOut, CountGraphOutput, ConvertGraph, SetupLayer,
                    SetupReturn, vars
<1>6. CASE SSApplication \/ Begin
  BY <1>1, <1>6 DEF SSApplication, Application, UpdateInput, ReleaseOutputs, Begin, SessionRun,
                    DeinitIn, DeinitOut, RunDone
<1>7. CASE \E ok \in BOOLEAN : InnerRun(ok)
  BY <1>7 DEF InnerRun
<1>8. CASE UNCHANGED ssvars
  BY <1>1, <1>8 DEF ssvars, vars
<1> QED
  BY <1>2, <1>3, <1>4, <1>5, <1>6, <1>7, <1>8 DEF SSNext

LEMMA TurnStays ==
  ASSUME [SSNext]_ssvars, i' = i, run' = run, NEW t
  PROVE  Turn(t)' = Turn(t)
BY Fixed DEF Turn, LayerTurn

(* The three ways a step treats the results of subgraphs, for the parts of  *)
(* ReliableInv below.                                                       *)
LEMMA EntryStep ==
  ASSUME DeviceInv, SubEntry, pc' # "crashed"
  PROVE  /\ pc = "layer" /\ pc' = "inner" /\ i' = i /\ run' = run /\ heap' = heap
         /\ before' = data /\ sess' = sess
         /\ Pending = {} /\ Pending' = Elems(g.plan[i].out) /\ ~InFlight /\ InFlight'
         /\ \A t \in SubOutputs : t \notin Pending' => data'[t] = data[t]
<1>1. /\ pc = "layer" /\ pc' = "inner" /\ i' = i /\ run' = run /\ heap' = heap
      /\ before' = data /\ sess' = sess /\ g' = g
  BY DEF SubEntry
<1>2. Pending = {} /\ Pending' = Elems(g.plan[i].out) /\ ~InFlight /\ InFlight'
  BY <1>1 DEF Pending, InFlight
<1>3. SubOutputs \subseteq Tensor
  BY Plan DEF DeviceInv
<1> QED
  BY <1>1, <1>2, <1>3 DEF SubEntry

LEMMA RunStep ==
  ASSUME DeviceInv, reliable, NEW ok \in BOOLEAN, InnerRun(ok)
  PROVE  /\ pc = "inner" /\ pc' = "return" /\ i' = i /\ run' = run /\ before' = before
         /\ InFlight /\ InFlight' /\ Pending' = Pending /\ copies' = copies /\ fdata' = fdata
         /\ sess' = sess
         /\ heap' = (heap \ {Sub(t, r) : t \in Pending, r \in 0 .. run})
                      \cup {Sub(t, run) : t \in Pending}
         /\ \A t \in SubOutputs : data'[t] = IF t \in Pending THEN Sub(t, run) ELSE data[t]
<1>1. /\ pc = "inner" /\ pc' = "return" /\ i' = i /\ run' = run /\ before' = before
      /\ copies' = copies /\ fdata' = fdata /\ sess' = sess /\ g' = g /\ ok
  BY DEF InnerRun, sv
<1>2. InFlight /\ InFlight' /\ Pending = Elems(g.plan[i].out) /\ Pending' = Pending
  BY <1>1 DEF InFlight, Pending
<1>3. SubOutputs \subseteq Tensor
  BY Plan DEF DeviceInv
<1> QED
  BY <1>1, <1>2, <1>3 DEF InnerRun

LEMMA ReturnStep ==
  ASSUME DeviceInv, SubReturn, pc' # "crashed"
  PROVE  /\ pc = "return" /\ pc' = "layer" /\ i' = i + 1 /\ run' = run /\ heap' = heap
         /\ InFlight /\ ~InFlight' /\ Pending' = {} /\ fdata' = fdata /\ sess' = sess
         /\ copies' = copies \cup {OutCopy(t, run) : t \in {u \in Pending : Converts(sess[u])}}
         /\ \A t \in SubOutputs : data'[t] = IF t \in Pending /\ Converts(sess[t])
                                             THEN OutCopy(t, run) ELSE data[t]
         /\ \A t \in Pending : Turn(t) = run - 1 /\ Turn(t)' = run
         /\ \A t \in SubOutputs \ Pending : Turn(t)' = Turn(t)
<1>1. /\ pc = "return" /\ pc' = "layer" /\ i' = i + 1 /\ run' = run /\ heap' = heap
      /\ fdata' = fdata /\ sess' = sess /\ g' = g
  BY DEF SubReturn
<1>2. InFlight /\ ~InFlight' /\ Pending = Elems(g.plan[i].out) /\ Pending' = {}
  BY <1>1 DEF InFlight, Pending
<1>3. SubOutputs \subseteq Tensor
  BY Plan DEF DeviceInv
<1>4. copies' = copies \cup {OutCopy(t, run) : t \in {u \in Pending : Converts(sess[u])}}
      /\ \A t \in SubOutputs : data'[t] = IF t \in Pending /\ Converts(sess[t])
                                          THEN OutCopy(t, run) ELSE data[t]
  BY <1>1, <1>2, <1>3 DEF SubReturn
<1> QED
  BY <1>1, <1>2, <1>4, TurnTaken

LEMMA ResultsThere ==
  ASSUME DeviceInv, Healthy!IInv, [SSNext]_ssvars, reliable, NEW t \in SubOutputs, Turn(t)' > 0
  PROVE  (IF t \in Pending' THEN before'[t] ELSE data'[t]) # NoBuffer
<1> DEFINE b == IF t \in Pending THEN before[t] ELSE data[t]
<1>1. Turn(t) > 0 => b # NoBuffer
  BY DEF DeviceInv, ReliableInv
<1>2. pc' # "crashed"
  BY NoCrash
<1>3. CASE Elsewhere
  <2>1. ~SubReturn
    BY <1>3, ElsewhereSteps DEF SubReturn, InFlight
  <2>2. Turn(t) > 0
    BY <2>1, TurnsKept
  <2> QED
    BY <1>1, <1>3, <2>2, ElsewhereSteps
<1>4. CASE SubEntry
  <2>1. Turn(t)' = Turn(t)
    BY <1>2, <1>4, EntryStep, TurnStays
  <2> QED
    BY <1>1, <1>2, <1>4, <2>1, EntryStep
<1>5. CASE \E ok \in BOOLEAN : InnerRun(ok)
  <2>1. Turn(t)' = Turn(t)
    BY <1>5, RunStep, TurnStays
  <2> QED
    BY <1>1, <1>5, <2>1, RunStep
<1>6. CASE SubReturn
  <2>1. CASE t \in Pending
    <3>1. data[t] = Sub(t, run)
      BY <1>6, <2>1 DEF DeviceInv, ReliableInv, SubReturn
    <3>2. data'[t] \in {OutCopy(t, run), data[t]} /\ Pending' = {}
      BY <1>2, <1>6, ReturnStep
    <3> QED
      BY <3>1, <3>2 DEF Sub, OutCopy, NoBuffer
  <2>2. CASE t \notin Pending
    BY <1>1, <1>2, <1>6, <2>2, ReturnStep
  <2> QED
    BY <2>1, <2>2
<1>7. CASE UNCHANGED ssvars
  <2>1. Turn(t)' = Turn(t)
    BY <1>7, Fixed DEF ssvars, vars, Turn, LayerTurn
  <2> QED
    BY <1>1, <1>7, <2>1 DEF ssvars, vars, sv, Pending, InFlight
<1> QED
  BY <1>3, <1>4, <1>5, <1>6, <1>7 DEF SSNext, Elsewhere

LEMMA ReturnsReady ==
  ASSUME DeviceInv, [SSNext]_ssvars, reliable, pc' = "return", NEW t \in Pending'
  PROVE  data'[t] = Sub(t, run')
<1>1. CASE \E ok \in BOOLEAN : InnerRun(ok)
  <2>1. Pending \subseteq SubOutputs
    BY <1>1, AtReturn DEF InnerRun, InFlight
  <2> QED
    BY <1>1, <2>1, RunStep
<1>2. CASE UNCHANGED ssvars
  BY <1>2 DEF ssvars, vars, sv, DeviceInv, ReliableInv, Pending, InFlight
<1>3. CASE Elsewhere
  BY <1>3, ElsewhereSteps DEF InFlight
<1>4. CASE SubEntry \/ SubReturn
  BY <1>4 DEF SubEntry, SubReturn
<1> QED
  BY <1>1, <1>2, <1>3, <1>4 DEF SSNext, Elsewhere

(* The buffers of sessions: one per output, of the last run it took part in. *)
SessionBuffers ==
  \A b \in heap : b[1] = "sub" => \E t \in SubOutputs : b = Sub(t, Made(t)) /\ Made(t) > 0

LEMMA BuffersReplaced ==
  ASSUME DeviceInv, Healthy!IInv, [SSNext]_ssvars, reliable
  PROVE  SessionBuffers'
<1>1. /\ SessionBuffers /\ SubOutputs' = SubOutputs /\ CaseInv /\ run \in Nat
  BY Fixed DEF DeviceInv, ReliableInv, SessionBuffers, PhaseInv
<1>2. pc' # "crashed"
  BY NoCrash
<1>3. CASE Elsewhere
  <2>1. ~SubReturn /\ pc # "return" /\ pc' # "return"
    BY <1>3, ElsewhereSteps DEF SubReturn, InFlight
  <2>2. \A t \in SubOutputs : Made(t) = Turn(t) /\ Made(t)' = Turn(t)'
    BY <2>1 DEF Made
  <2>3. \A t \in SubOutputs : Made(t) > 0 => Made(t)' = Made(t)
    BY <2>1, <2>2, TurnsKept
  <2>4. \A b \in heap' : b[1] = "sub" => b \in heap
    <3>1. CASE Count \/ ConvertGraph \/ SetupLayer \/ SetupReturn
      BY <3>1 DEF Count, CountIn, CountOut, CountGraphOutput, ConvertGraph, SetupLayer,
                  SetupReturn, vars
    <3>2. CASE SSApplication \/ Begin
      BY <3>2 DEF SSApplication, Application, UpdateInput, ReleaseOutputs, Begin, SessionRun,
                  DeinitIn, DeinitOut, RunDone, User
    <3>3. CASE CpuRun
      BY <3>3 DEF CpuRun, OpRun, Own
    <3> QED
      BY <1>3, <3>1, <3>2, <3>3 DEF Elsewhere
  <2>5. ASSUME NEW b \in heap', b[1] = "sub"
        PROVE  \E t \in SubOutputs : b = Sub(t, Made(t)') /\ Made(t)' > 0
    <3>1. PICK t \in SubOutputs : b = Sub(t, Made(t)) /\ Made(t) > 0
      BY <1>1, <2>4, <2>5 DEF SessionBuffers
    <3>2. Made(t)' = Made(t)
      BY <2>3, <3>1
    <3> QED
      BY <3>1, <3>2
  <2> QED
    BY <1>1, <2>5 DEF SessionBuffers, Sub
<1>4. CASE SubEntry
  <2>1. heap' = heap /\ pc = "layer" /\ pc' = "inner" /\ \A t \in SubOutputs : Turn(t)' = Turn(t)
    BY <1>2, <1>4, EntryStep, TurnStays
  <2>2. \A t \in SubOutputs : Made(t)' = Made(t)
    BY <2>1 DEF Made
  <2> QED
    BY <1>1, <2>1, <2>2 DEF SessionBuffers, Sub
<1>5. CASE \E ok \in BOOLEAN : InnerRun(ok)
  <2>1. /\ pc = "inner" /\ pc' = "return" /\ i' = i /\ run' = run /\ InFlight
        /\ heap' = (heap \ {Sub(t, r) : t \in Pending, r \in 0 .. run})
                     \cup {Sub(t, run) : t \in Pending}
        /\ \A t \in SubOutputs : Turn(t)' = Turn(t)
    BY <1>5, RunStep, TurnStays
  <2>2. /\ run > 0 /\ Pending \subseteq SubOutputs
        /\ \A t \in SubOutputs : t \in Pending <=> Producer(t) = i
    BY <2>1, AtReturn
  <2>3. ASSUME NEW t \in SubOutputs
        PROVE  /\ Made(t) = Turn(t)
               /\ Made(t)' = IF t \in Pending THEN run ELSE Turn(t)
    BY <2>1, <2>2, Fixed DEF Made
  <2>4. ASSUME NEW t \in Pending PROVE Turn(t) \in 0 .. run
    BY <1>1, <2>2, AtReturn DEF Turn, LayerTurn
  <2>5. ASSUME NEW b \in heap', b[1] = "sub"
        PROVE  \E t \in SubOutputs : b = Sub(t, Made(t)') /\ Made(t)' > 0
    <3>1. CASE b \in {Sub(t, run) : t \in Pending}
      BY <2>2, <2>3, <3>1
    <3>2. CASE b \in heap \ {Sub(t, r) : t \in Pending, r \in 0 .. run}
      <4>1. PICK t \in SubOutputs : b = Sub(t, Turn(t)) /\ Turn(t) > 0
        BY <1>1, <2>3, <2>5, <3>2 DEF SessionBuffers
      <4>2. t \notin Pending
        BY <2>4, <3>2, <4>1
      <4> QED
        BY <2>3, <4>1, <4>2
    <3> QED
      BY <2>1, <3>1, <3>2
  <2> QED
    BY <1>1, <2>5 DEF SessionBuffers, Sub
<1>6. CASE SubReturn
  <2>1. /\ pc = "return" /\ pc' = "layer" /\ InFlight /\ heap' = heap
        /\ \A t \in Pending : Turn(t)' = run
        /\ \A t \in SubOutputs \ Pending : Turn(t)' = Turn(t)
    BY <1>2, <1>6, ReturnStep
  <2>2. \A t \in SubOutputs : t \in Pending <=> Producer(t) = i
    BY <2>1, AtReturn
  <2>3. \A t \in SubOutputs : Made(t)' = Made(t)
    BY <2>1, <2>2 DEF Made
  <2> QED
    BY <1>1, <2>1, <2>3 DEF SessionBuffers, Sub
<1>7. CASE UNCHANGED ssvars
  <2>1. heap' = heap /\ pc' = pc /\ i' = i /\ run' = run
    BY <1>7 DEF ssvars, vars
  <2>2. ASSUME NEW t \in SubOutputs PROVE Made(t)' = Made(t)
    <3>1. Turn(t)' = Turn(t) /\ Producer(t)' = Producer(t)
      BY <2>1, Fixed, TurnStays
    <3> QED
      BY <2>1, <3>1 DEF Made
  <2> QED
    BY <1>1, <2>1, <2>2 DEF SessionBuffers, Sub
<1> QED
  BY <1>3, <1>4, <1>5, <1>6, <1>7 DEF SSNext, Elsewhere

(* Membership in CopiesOf. *)
CopyIn(b)  == \E f \in DOMAIN fdata : Converts(f[1]) /\ b \in InCopies(f)
CopyOut(b) == \E t \in SubOutputs : Converts(sess[t]) /\ b \in OutCopies(t)

LEMMA InCopiesOf == \A b : b \in CopiesOf <=> CopyIn(b) \/ CopyOut(b)
<1> SUFFICES ASSUME NEW b PROVE b \in CopiesOf <=> CopyIn(b) \/ CopyOut(b)
  OBVIOUS
<1>1. CopyIn(b) <=> b \in AllInCopies
  BY DEF CopyIn, AllInCopies
<1>2. CopyOut(b) <=> b \in AllOutCopies
  BY DEF CopyOut, AllOutCopies
<1> QED
  BY <1>1, <1>2 DEF CopiesOf

(* Every entry adds a copy per converted input, every return one per        *)
(* converted output, and nothing takes them away.                           *)
LEMMA EnteredKept ==
  ASSUME DeviceInv, Healthy!IInv, Elsewhere, NEW l \in SubLayers
  PROVE  1 .. Entered(l)' = 1 .. Entered(l)
<1>1. ~SubReturn /\ ~InFlight /\ ~InFlight' /\ SSNext
  BY ElsewhereSteps DEF SubReturn, InFlight, SSNext, Elsewhere
<1>2. LayerTurn(l)' = LayerTurn(l) \/ ~(LayerTurn(l)' > 0 \/ LayerTurn(l) > 0)
  BY <1>1, LayerTurnsKept
<1>3. Entered(l)' = LayerTurn(l)' /\ Entered(l) = LayerTurn(l)
  BY <1>1 DEF Entered
<1>4. LayerTurn(l) \in Int /\ LayerTurn(l)' \in Int
  <2>1. run \in Nat /\ run' \in Nat
    BY <1>1, PhaseKept DEF DeviceInv, PhaseInv
  <2> QED
    BY <2>1 DEF LayerTurn
<1> QED
  BY <1>2, <1>3, <1>4

LEMMA CopiesCounted ==
  ASSUME DeviceInv, Healthy!IInv, [SSNext]_ssvars, reliable
  PROVE  copies' = CopiesOf'
<1>0. (\A b : b \in CopiesOf <=> CopyIn(b) \/ CopyOut(b))'
  BY InCopiesOf, PTL
<1> SUFFICES ASSUME NEW b PROVE b \in copies' <=> CopyIn(b)' \/ CopyOut(b)'
  BY <1>0
<1>1. /\ b \in copies <=> CopyIn(b) \/ CopyOut(b)
      /\ SubOutputs' = SubOutputs /\ CaseInv /\ SetupInv /\ FormalInv /\ run \in Nat
  BY Fixed, InCopiesOf DEF DeviceInv, ReliableInv, PhaseInv
<1>2. \A f \in DOMAIN fdata : f = <<f[1], f[2]>> /\ f[1] \in SubLayers
  BY <1>1 DEF SetupInv
<1>3. pc' # "crashed"
  BY NoCrash
<1>4. ASSUME DOMAIN fdata' = DOMAIN fdata,
             \A f \in DOMAIN fdata : Converts(f[1]) => InCopies(f)' = InCopies(f)
      PROVE  CopyIn(b)' <=> CopyIn(b)
  BY <1>4, Fixed DEF CopyIn
<1>5. ASSUME sess' = sess, \A t \in SubOutputs : OutCopies(t)' = OutCopies(t)
      PROVE  CopyOut(b)' <=> CopyOut(b)
  BY <1>1, <1>5, Fixed DEF CopyOut
<1>6. CASE Elsewhere
  <2>1. copies' = copies /\ fdata' = fdata /\ ~SubReturn
    BY <1>6, ElsewhereSteps DEF SubReturn, InFlight
  <2>2. CopyIn(b)' <=> CopyIn(b)
    <3>1. \A f \in DOMAIN fdata : InCopies(f)' = InCopies(f)
      BY <1>2, <1>6, EnteredKept DEF InCopies
    <3> QED
      BY <1>4, <2>1, <3>1
  <2>3. ASSUME NEW t \in SubOutputs PROVE OutCopies(t)' = OutCopies(t)
    <3>1. Turn(t)' = Turn(t) \/ ~(Turn(t)' > 0 \/ Turn(t) > 0)
      BY <2>1, TurnsKept
    <3>2. Turn(t) \in Int /\ Turn(t)' \in Int
      <4>1. run' \in Nat
        BY PhaseKept DEF PhaseInv
      <4> QED
        BY <1>1, <4>1 DEF Turn, LayerTurn
    <3>3. 1 .. Turn(t)' = 1 .. Turn(t)
      BY <3>1, <3>2
    <3> QED
      BY <3>3 DEF OutCopies, OutCopy
  <2>4. CASE SetupLayer
    <3>1. ASSUME NEW t \in SubOutputs PROVE OutCopies(t) = {}
      <4>1. run = 0
        BY <2>4 DEF DeviceInv, PhaseInv, SetupLayer
      <4>2. Turn(t) \in {0, -1}
        BY <4>1 DEF Turn, LayerTurn
      <4> QED
        BY <4>2 DEF OutCopies
    <3>2. ~CopyOut(b) /\ ~CopyOut(b)'
      BY <1>1, <2>3, <3>1 DEF CopyOut
    <3> QED
      BY <1>1, <2>1, <2>2, <3>2
  <2>5. CASE ~SetupLayer
    <3>1. sess' = sess
      BY <1>6, <2>5 DEF Elsewhere, Count, ConvertGraph, SetupReturn, SSApplication, Begin,
                        CpuRun, sv
    <3> QED
      BY <1>1, <1>5, <2>1, <2>2, <2>3, <3>1
  <2> QED
    BY <2>4, <2>5
<1>7. CASE SubEntry
  <2>1. /\ pc = "layer" /\ i' = i /\ run' = run /\ sess' = sess /\ ~InFlight /\ InFlight'
        /\ \A t : Turn(t)' = Turn(t)
    BY <1>3, <1>7, EntryStep, TurnStays
  <2>2. i \in SubLayers /\ i \in Layers /\ i \in Nat /\ run > 0
    BY <1>1, <1>7, Plan, PlanTypes DEF SubEntry, Layers, DeviceInv, PhaseInv
  <2>3. /\ fdata' = [f \in DOMAIN fdata |-> FormalData(f)]
        /\ copies' = copies \cup {c \in {FormalData(f) : f \in DOMAIN fdata} : c[1] = "incopy"}
    BY <1>7 DEF SubEntry
  <2>4. ASSUME NEW f \in DOMAIN fdata
        PROVE  InCopies(f)' = IF f[1] = i THEN InCopies(f) \cup {InCopy(i, f[2], run)}
                                          ELSE InCopies(f)
    <3>1. CASE f[1] = i
      <4>1. Entered(f[1]) = run - 1 /\ Entered(f[1])' = run
        BY <2>1, <2>2, <3>1 DEF Entered, LayerTurn
      <4>2. 1 .. run = (1 .. run - 1) \cup {run}
        BY <1>1, <2>2
      <4> QED
        BY <3>1, <4>1, <4>2 DEF InCopies, InCopy
    <3>2. CASE f[1] # i
      <4>1. Entered(f[1])' = Entered(f[1])
        BY <2>1, <3>2 DEF Entered, LayerTurn
      <4> QED
        BY <3>2, <4>1 DEF InCopies, InCopy
    <3> QED
      BY <3>1, <3>2
  <2> DEFINE New == \E f \in DOMAIN fdata :
                      f[1] = i /\ Converts(i) /\ b = InCopy(i, f[2], run)
  <2>5. CopyIn(b)' <=> CopyIn(b) \/ New
    <3>1. DOMAIN fdata' = DOMAIN fdata
      BY <2>3
    <3>2. CopyIn(b)' <=> \E f \in DOMAIN fdata : Converts(f[1]) /\ b \in InCopies(f)'
      BY <3>1, Fixed DEF CopyIn
    <3> QED
      BY <2>4, <3>2 DEF CopyIn
  <2>6. CopyOut(b)' <=> CopyOut(b)
    BY <1>5, <2>1 DEF OutCopies, OutCopy
  <2>7. ASSUME NEW f \in DOMAIN fdata, FormalData(f)[1] = "incopy"
        PROVE  \/ FormalData(f) \in copies
               \/ f[1] = i /\ Converts(i) /\ FormalData(f) = InCopy(i, f[2], run)
    <3>1. CASE f[1] # i
      <4>1. FormalData(f) = fdata[f]
        BY <3>1 DEF FormalData
      <4> QED
        BY <1>1, <2>7, <4>1 DEF FormalInv, NoBuffer
    <3>2. CASE f[1] = i /\ Converts(i)
      BY <3>2 DEF FormalData
    <3>3. CASE f[1] = i /\ ~Converts(i)
      <4>1. FormalData(f) = data[g.plan[i].in[f[2]]]
        BY <3>3 DEF FormalData
      <4>2. g.plan[i].in[f[2]] \in Tensor
        BY <1>1, <2>2, <3>3, Plan, PlanTypes DEF SetupInv
      <4> QED
        BY <2>7, <4>1, <4>2, DataNames DEF NoBuffer
    <3> QED
      BY <3>1, <3>2, <3>3
  <2>8. ASSUME NEW f \in DOMAIN fdata, f[1] = i, Converts(i)
        PROVE  FormalData(f) = InCopy(i, f[2], run) /\ FormalData(f)[1] = "incopy"
    BY <2>8 DEF FormalData, InCopy
  <2>9. b \in copies' <=> b \in copies \/ New
    BY <2>3, <2>7, <2>8
  <2> QED
    BY <1>1, <2>5, <2>6, <2>9
<1>8. CASE \E ok \in BOOLEAN : InnerRun(ok)
  <2>1. /\ copies' = copies /\ fdata' = fdata /\ sess' = sess /\ i' = i /\ run' = run
        /\ InFlight /\ InFlight' /\ \A t : Turn(t)' = Turn(t)
    BY <1>8, RunStep, TurnStays
  <2>2. CopyIn(b)' <=> CopyIn(b)
    BY <1>4, <2>1 DEF InCopies, InCopy, Entered, LayerTurn
  <2>3. CopyOut(b)' <=> CopyOut(b)
    BY <1>5, <2>1 DEF OutCopies, OutCopy
  <2> QED
    BY <1>1, <2>1, <2>2, <2>3
<1>9. CASE SubReturn
  <2>1. /\ i' = i + 1 /\ run' = run /\ fdata' = fdata /\ sess' = sess /\ InFlight /\ ~InFlight'
        /\ copies' = copies \cup {OutCopy(t, run) : t \in {u \in Pending : Converts(sess[u])}}
        /\ \A t \in Pending : Turn(t) = run - 1 /\ Turn(t)' = run
        /\ \A t \in SubOutputs \ Pending : Turn(t)' = Turn(t)
    BY <1>3, <1>9, ReturnStep
  <2>2. i \in Nat /\ run > 0 /\ Pending \subseteq SubOutputs
    BY <2>1, AtReturn
  <2>3. CopyIn(b)' <=> CopyIn(b)
    <3>1. ASSUME NEW f \in DOMAIN fdata PROVE InCopies(f)' = InCopies(f)
      <4>1. f[1] \in Nat
        BY <1>1, <1>2, Plan, PlanTypes DEF Layers
      <4>2. Entered(f[1])' = Entered(f[1])
        BY <2>1, <2>2, <4>1 DEF Entered, LayerTurn
      <4> QED
        BY <4>2 DEF InCopies, InCopy
    <3> QED
      BY <1>4, <2>1, <3>1
  <2>4. ASSUME NEW t \in SubOutputs
        PROVE  OutCopies(t)' = IF t \in Pending THEN OutCopies(t) \cup {OutCopy(t, run)}
                                                ELSE OutCopies(t)
    <3>1. 1 .. run = (1 .. run - 1) \cup {run}
      BY <1>1, <2>2
    <3> QED
      BY <2>1, <3>1 DEF OutCopies, OutCopy
  <2> DEFINE New == \E t \in SubOutputs : t \in Pending /\ Converts(sess[t]) /\ b = OutCopy(t, run)
  <2>5. CopyOut(b)' <=> CopyOut(b) \/ New
    <3>1. CopyOut(b)' <=> \E t \in SubOutputs : Converts(sess[t]) /\ b \in OutCopies(t)'
      BY <1>1, <2>1, Fixed DEF CopyOut
    <3> QED
      BY <2>4, <3>1 DEF CopyOut
  <2>6. b \in copies' <=> b \in copies \/ New
    BY <2>1, <2>2
  <2> QED
    BY <1>1, <2>3, <2>5, <2>6
<1>10. CASE UNCHANGED ssvars
  <2>1. /\ copies' = copies /\ fdata' = fdata /\ sess' = sess /\ i' = i /\ run' = run
        /\ (InFlight' <=> InFlight) /\ \A t : Turn(t)' = Turn(t)
    BY <1>10, TurnStays DEF ssvars, vars, sv, InFlight
  <2>2. CopyIn(b)' <=> CopyIn(b)
    BY <1>4, <2>1 DEF InCopies, InCopy, Entered, LayerTurn
  <2>3. CopyOut(b)' <=> CopyOut(b)
    BY <1>5, <2>1 DEF OutCopies, OutCopy
  <2> QED
    BY <1>1, <2>1, <2>2, <2>3
<1> QED
  BY <1>6, <1>7, <1>8, <1>9, <1>10 DEF SSNext, Elsewhere

LEMMA ReliableKept ==
  ASSUME DeviceInv, Healthy!IInv, [SSNext]_ssvars
  PROVE  ReliableInv'
<1> SUFFICES ASSUME reliable PROVE ReliableInv'
  BY Fixed DEF ReliableInv
<1>1. SubOutputs' = SubOutputs
  BY Fixed
<1>2. (\A t \in SubOutputs : Turn(t) > 0 => (IF t \in Pending THEN before[t] ELSE data[t]) # NoBuffer)'
  BY <1>1, ResultsThere
<1>3. (pc = "return" => \A t \in Pending : data[t] = Sub(t, run))'
  <2>1. pc' = "return" => \A t \in Pending' : data'[t] = Sub(t, run')
    BY ReturnsReady
  <2> QED
    BY <2>1 DEF Sub
<1> QED
  BY <1>2, <1>3, NoCrash, BuffersReplaced, CopiesCounted DEF ReliableInv, SessionBuffers
-----------------------------------------------------------------------------
LEMMA InitDevices == SSInit => DeviceInv
<1> SUFFICES ASSUME SSInit PROVE DeviceInv
  OBVIOUS
<1>1. /\ CaseInv /\ pc = "count" /\ run = 0 /\ data = [t \in Tensor |-> NoBuffer] /\ heap = {}
      /\ copies = {} /\ before = [t \in Tensor |-> NoBuffer]
  BY DEF SSInit, Init, CaseInv
<1>2. PhaseInv
  BY <1>1 DEF PhaseInv, InFlight
<1>3. /\ DOMAIN sub = SubLayers /\ SubOutputs \subseteq Tensor
      /\ GraphOK(g, Tensor) /\ Len(g.plan) \in Nat
  BY <1>1, Plan, PlanTypes
<1>4. DOMAIN fdata = UNION {{<<l, k>> : k \in DOMAIN g.plan[l].in} : l \in SubLayers}
      /\ \A f \in DOMAIN fdata : fdata[f] = NoBuffer
  BY <1>3 DEF SSInit
<1>5. SetupInv
  BY <1>1, <1>3, <1>4 DEF SetupInv, SSInit
<1>6. CpuData
  BY <1>1 DEF CpuData
<1>7. SubData
  BY <1>1, <1>3 DEF SubData, Delivered, Pending, InFlight
<1>8. FormalInv
  BY <1>1, <1>4 DEF FormalInv
<1>9. ReliableInv
  <2>1. \A t \in SubOutputs : ~(Turn(t) > 0)
    BY <1>1 DEF Turn, LayerTurn
  <2>2. CopiesOf = {}
    <3>1. ASSUME NEW b PROVE ~CopyIn(b) /\ ~CopyOut(b)
      <4>1. \A t : Turn(t) \in {0, -1}
        BY <1>1 DEF Turn, LayerTurn
      <4>2. \A l : Entered(l) \in {0, -1}
        BY <1>1 DEF Entered, LayerTurn, InFlight
      <4> QED
        BY <4>1, <4>2 DEF CopyIn, CopyOut, InCopies, OutCopies
    <3> QED
      BY <3>1, InCopiesOf
  <2> QED
    BY <1>1, <2>1, <2>2 DEF ReliableInv
<1> QED
  BY <1>1, <1>2, <1>5, <1>6, <1>7, <1>8, <1>9 DEF DeviceInv

(* The invariant of the devices, and that of the executor as if the devices *)
(* never failed, hold in every reachable state of SubSession.               *)
THEOREM DevicesInvariant == SSSpec => [](DeviceInv /\ Healthy!IInv)
<1>1. SSInit => DeviceInv /\ Healthy!IInv
  <2>1. Healthy!Init => Healthy!IInv
    BY GraphAssumed, MaxRunsAssumption, Healthy!InitInv
  <2> QED
    BY <2>1, InitMaps, InitDevices
<1>2. DeviceInv /\ Healthy!IInv /\ [SSNext]_ssvars => (DeviceInv /\ Healthy!IInv)'
  BY CaseKept, PhaseKept, SetupKept, CpuDataKept, SubDataKept, FormalKept, ReliableKept,
     StepMaps, HealthyStep DEF DeviceInv
<1> QED
  BY <1>1, <1>2, PTL DEF SSSpec

(* The mapped state is a behaviour of the executor in every session,        *)
(* whatever its devices do.                                                 *)
THEOREM AsIfHealthy == SSSpec => Healthy!Spec
<1>1. SSInit => Healthy!Init
  BY InitMaps
<1>2. DeviceInv /\ Healthy!IInv /\ [SSNext]_ssvars => [Healthy!Next]_(Healthy!vars)
  BY StepMaps
<1> QED
  BY <1>1, <1>2, DevicesInvariant, PTL DEF SSSpec, Healthy!Spec

(* Every variable keeps its type, and a formal input keeps pointing to the  *)
(* buffer of its own tensor or to its own conversion copy.                  *)
THEOREM SubSessionTypes == SSSpec => []SSTypeOK
<1>1. DeviceInv => SSTypeOK
  <2> SUFFICES ASSUME DeviceInv PROVE SSTypeOK
    OBVIOUS
  <2>1. \A t \in Tensor : data[t] = NoBuffer \/ data[t][2] = t
    BY DataNames
  <2> QED
    BY <2>1 DEF DeviceInv, PhaseInv, SetupInv, FormalInv, SSTypeOK
<1> QED
  BY <1>1, DevicesInvariant, PTL

(* No layer and no sub-session computes on data of an earlier run or on     *)
(* freed memory, whichever devices fail, in whatever order.                 *)
THEOREM NothingStale == SSSpec => []NeverStale
<1>1. DeviceInv /\ Healthy!IInv => NeverStale
  BY InputsFresh DEF NeverStale, DeviceInv, FormalInv
<1> QED
  BY <1>1, DevicesInvariant, PTL

(* A conversion costs a buffer per formal input and per output in every     *)
(* run; between two runs nothing else of a sub-session is alive but the     *)
(* results of the last run.                                                 *)
THEOREM ConversionsCounted == SSSpec => []ConversionsAccumulate
<1>1. DeviceInv /\ Healthy!IInv => ConversionsAccumulate
  <2> SUFFICES ASSUME DeviceInv, Healthy!IInv, pc = "idle", reliable
               PROVE  /\ copies =
                           {InCopy(f[1], f[2], r) : f \in {h \in DOMAIN fdata : Converts(h[1])}, r \in 1 .. run}
                           \cup {OutCopy(t, r) : t \in {u \in SubOutputs : Converts(sess[u])}, r \in 1 .. run}
                      /\ \A b \in heap : b[1] = "sub" => b[3] = run
    BY DEF ConversionsAccumulate
  <2>1. /\ CaseInv /\ run \in Nat /\ ~InFlight /\ (run > 0 => i > Len(g.plan))
        /\ i \in Nat /\ SessionBuffers /\ copies = CopiesOf
    BY DEF DeviceInv, PhaseInv, InFlight, ReliableInv, SessionBuffers,
           Healthy!IInv, Healthy!TypeOK
  <2>2. ASSUME NEW l \in SubLayers
        PROVE  /\ run > 0 => LayerTurn(l) = run
               /\ 1 .. LayerTurn(l) = 1 .. run
               /\ LayerTurn(l) > 0 => LayerTurn(l) = run
    <3>1. l \in Nat /\ l <= Len(g.plan) /\ Len(g.plan) \in Nat
      BY <2>1, Plan, PlanTypes DEF Layers
    <3>2. CASE run > 0
      BY <2>1, <3>1, <3>2 DEF LayerTurn
    <3>3. CASE run = 0
      <4>1. LayerTurn(l) \in {0, -1}
        BY <3>3 DEF LayerTurn
      <4> QED
        BY <3>3, <4>1
    <3> QED
      BY <2>1, <3>2, <3>3
  <2>3. \A b \in heap : b[1] = "sub" => b[3] = run
    <3>1. \A t \in SubOutputs : Made(t) > 0 => Made(t) = run
      BY <2>1, <2>2, Producers DEF Made, Turn
    <3> QED
      BY <2>1, <3>1 DEF SessionBuffers, Sub
  <2>4. ASSUME NEW b
        PROVE  b \in copies <=>
                 \/ b \in {InCopy(f[1], f[2], r) : f \in {h \in DOMAIN fdata : Converts(h[1])}, r \in 1 .. run}
                 \/ b \in {OutCopy(t, r) : t \in {u \in SubOutputs : Converts(sess[u])}, r \in 1 .. run}
    <3>1. \A f \in DOMAIN fdata : 1 .. Entered(f[1]) = 1 .. run
      BY <2>1, <2>2 DEF Entered, DeviceInv, SetupInv
    <3>2. \A t \in SubOutputs : 1 .. Turn(t) = 1 .. run
      BY <2>1, <2>2, Producers DEF Turn
    <3>3. CopyIn(b) <=>
            b \in {InCopy(f[1], f[2], r) : f \in {h \in DOMAIN fdata : Converts(h[1])}, r \in 1 .. run}
      <4>1. \A f \in DOMAIN fdata : b \in InCopies(f) <=> \E r \in 1 .. run : b = InCopy(f[1], f[2], r)
        BY <3>1 DEF InCopies
      <4> QED
        BY <4>1 DEF CopyIn
    <3>4. CopyOut(b) <=>
            b \in {OutCopy(t, r) : t \in {u \in SubOutputs : Converts(sess[u])}, r \in 1 .. run}
      <4>1. \A t \in SubOutputs : b \in OutCopies(t) <=> \E r \in 1 .. run : b = OutCopy(t, r)
        BY <3>2 DEF OutCopies
      <4> QED
        BY <4>1 DEF CopyOut
    <3> QED
      BY <2>1, <3>3, <3>4, InCopiesOf
  <2> QED
    BY <2>3, <2>4
<1> QED
  BY <1>1, DevicesInvariant, PTL
-----------------------------------------------------------------------------
(* What the executor sees while its devices are reliable is the mapped      *)
(* state, so that its steps are those of the instance Executor.             *)
LEMMA ResultSeen ==
  ASSUME DeviceInv, Healthy!IInv, reliable, NEW t \in SubOutputs
  PROVE  Seen(IF t \in Pending THEN before[t] ELSE data[t]) = Result(t)
<1> DEFINE b == IF t \in Pending THEN before[t] ELSE data[t]
<1>1. Delivered(t, b) /\ (Turn(t) > 0 => b # NoBuffer)
  BY DEF DeviceInv, SubData, ReliableInv
<1>2. CASE Turn(t) > 0
  <2>1. b \in {Sub(t, Turn(t)), OutCopy(t, Turn(t))}
    BY <1>1, <1>2 DEF Delivered
  <2>2. Seen(b) = Sub(t, Turn(t))
    BY <2>1 DEF Seen, Sub, OutCopy
  <2> QED
    BY <1>2, <2>2 DEF Result
<1>3. CASE ~(Turn(t) > 0)
  <2>1. b = NoBuffer
    BY <1>1, <1>3 DEF Delivered
  <2> QED
    BY <1>3, <2>1 DEF Seen, NoBuffer, Result
<1> QED
  BY <1>2, <1>3

LEMMA SeenHealthy ==
  DeviceInv /\ Healthy!IInv /\ reliable =>
    SeenPc = HealthyPc /\ SeenData = HealthyData /\ SeenHeap = HealthyHeap
<1> SUFFICES ASSUME DeviceInv, Healthy!IInv, reliable
             PROVE  SeenPc = HealthyPc /\ SeenData = HealthyData /\ SeenHeap = HealthyHeap
  OBVIOUS
<1>1. SeenPc = HealthyPc
  BY DEF DeviceInv, ReliableInv, SeenPc, HealthyPc, InFlight
<1>2. ASSUME NEW t \in Tensor PROVE SeenData[t] = HealthyData[t]
  <2>1. (InFlight /\ t \in Elems(g.plan[i].out)) <=> t \in Pending
    BY DEF Pending
  <2>2. SeenData[t] = Seen(IF t \in Pending THEN before[t] ELSE data[t])
    BY <2>1 DEF SeenData
  <2>3. CASE t \in SubOutputs
    BY <2>2, <2>3, ResultSeen DEF HealthyData
  <2>4. CASE t \notin SubOutputs
    <3>1. t \notin Pending
      BY <2>4, AtReturn DEF Pending
    <3>2. data[t] \in {NoBuffer} \cup {"own", "user"} \X {t} \X Nat
      BY <2>4 DEF DeviceInv, CpuData
    <3>3. Seen(data[t]) = data[t]
      BY <3>2 DEF Seen, NoBuffer
    <3> QED
      BY <2>2, <2>4, <3>1, <3>3 DEF HealthyData
  <2> QED
    BY <2>3, <2>4
<1>3. SeenData = HealthyData
  BY <1>2 DEF SeenData, HealthyData
<1>4. SeenHeap = HealthyHeap
  <2>1. SubOutputs \subseteq Tensor
    BY Plan DEF DeviceInv
  <2>2. ASSUME NEW t \in Tensor
        PROVE  HealthyData[t][1] = "sub" <=> t \in SubOutputs /\ Turn(t) > 0
    <3>1. CASE t \in SubOutputs
      BY <3>1 DEF HealthyData, Result, Sub, NoBuffer
    <3>2. CASE t \notin SubOutputs
      BY <3>2, NotAResult DEF DeviceInv
    <3> QED
      BY <3>1, <3>2
  <2>3. \A t \in SubOutputs : HealthyData[t] = Result(t)
    BY <2>1 DEF HealthyData
  <2>4. {HealthyData[t] : t \in {u \in Tensor : HealthyData[u][1] = "sub"}} = Results
    BY <2>1, <2>2, <2>3 DEF Results
  <2> QED
    BY <1>3, <2>4 DEF SeenHeap, HealthyHeap
<1> QED
  BY <1>1, <1>3, <1>4

LEMMA SeenHealthyNext ==
  (DeviceInv /\ Healthy!IInv /\ reliable)' =>
    SeenPc' = HealthyPc' /\ SeenData' = HealthyData' /\ SeenHeap' = HealthyHeap'
<1>1. (DeviceInv /\ Healthy!IInv /\ reliable =>
         SeenPc = HealthyPc /\ SeenData = HealthyData /\ SeenHeap = HealthyHeap)'
  BY SeenHealthy, PTL
<1> QED
  BY <1>1

LEMMA SameStep ==
  ASSUME reliable, reliable', SeenPc = HealthyPc, SeenData = HealthyData, SeenHeap = HealthyHeap,
         SeenPc' = HealthyPc', SeenData' = HealthyData', SeenHeap' = HealthyHeap',
         [Healthy!Next]_(Healthy!vars)
  PROVE  [Executor!Next]_(Executor!vars)
<1> USE DEF Unless
<1>1. \A s : Executor!Elems(s) = Healthy!Elems(s)
  BY DEF Executor!Elems, Healthy!Elems
<1>2. Executor!OpLayers(g) = Healthy!OpLayers(g) /\ Executor!OpTensors(g) = Healthy!OpTensors(g)
  BY <1>1 DEF Executor!OpLayers, Healthy!OpLayers, Executor!OpTensors, Healthy!OpTensors,
              Executor!SubGraph, Healthy!SubGraph
<1>3. \A t, r : /\ Executor!Own(t, r) = Healthy!Own(t, r)
                /\ Executor!User(t, r) = Healthy!User(t, r)
                /\ Executor!Sub(t, r) = Healthy!Sub(t, r)
  BY DEF Executor!Own, Healthy!Own, Executor!User, Healthy!User, Executor!Sub, Healthy!Sub
<1>4. CASE Healthy!Setup
  <2>1. Healthy!CountIn => Executor!CountIn
    BY DEF Healthy!CountIn, Executor!CountIn
  <2>2. Healthy!CountOut => Executor!CountOut
    BY <1>1 DEF Healthy!CountOut, Executor!CountOut
  <2>3. Healthy!CountGraphOutput => Executor!CountGraphOutput
    BY DEF Healthy!CountGraphOutput, Executor!CountGraphOutput
  <2>4. Healthy!SetupDone => Executor!SetupDone
    BY DEF Healthy!SetupDone, Executor!SetupDone
  <2> QED
    BY <1>4, <2>1, <2>2, <2>3, <2>4 DEF Healthy!Setup, Executor!Setup, Executor!Next
<1>5. CASE Healthy!Application
  <2>1. Healthy!ReleaseOutputs => Executor!ReleaseOutputs
    BY <1>1, <1>2 DEF Healthy!ReleaseOutputs, Executor!ReleaseOutputs
  <2>2. \A t : Healthy!UpdateInput(t) => Executor!UpdateInput(t)
    BY <1>3 DEF Healthy!UpdateInput, Executor!UpdateInput
  <2> QED
    BY <1>1, <1>5, <2>1, <2>2 DEF Healthy!Application, Executor!Application, Executor!Next
<1>6. CASE Healthy!Execute
  <2>1. Healthy!SessionRun => Executor!SessionRun
    BY <1>1, <1>2, <1>3 DEF Healthy!SessionRun, Executor!SessionRun,
                            Healthy!InputsReady, Executor!InputsReady
  <2>2. Healthy!OpRun => Executor!OpRun
    BY <1>1, <1>2, <1>3 DEF Healthy!OpRun, Executor!OpRun
  <2>3. Healthy!DeinitIn => Executor!DeinitIn
    BY DEF Healthy!DeinitIn, Executor!DeinitIn
  <2>4. Healthy!DeinitOut => Executor!DeinitOut
    BY <1>1 DEF Healthy!DeinitOut, Executor!DeinitOut
  <2>5. Healthy!SubRun => Executor!SubRun
    BY <1>1, <1>2, <1>3 DEF Healthy!SubRun, Executor!SubRun
  <2>6. Healthy!RunDone => Executor!RunDone
    BY DEF Healthy!RunDone, Executor!RunDone
  <2> QED
    BY <1>6, <2>1, <2>2, <2>3, <2>4, <2>5, <2>6 DEF Healthy!Execute, Executor!Execute, Executor!Next
<1>7. CASE UNCHANGED Healthy!vars
  BY <1>7 DEF Healthy!vars, Executor!vars
<1> QED
  BY <1>4, <1>5, <1>6, <1>7 DEF Healthy!Next

(* The executor cannot tell the sub-sessions of devices that do not fail    *)
(* from the single step SubRun: SubSession implements GrefRun.              *)
THEOREM ExecutorImplemented == SSSpec => ImplementsExecutor
<1>1. SSInit => Executor!Init
  <2> SUFFICES ASSUME SSInit PROVE Executor!Init
    OBVIOUS
  <2>1. /\ g \in Graph /\ pc = "count" /\ i = 1 /\ j = 1 /\ run = 0 /\ heap = {}
        /\ rcInit = [t \in Tensor |-> 0] /\ rc = [t \in Tensor |-> 0]
        /\ data = [t \in Tensor |-> NoBuffer]
    BY DEF SSInit, Init
  <2>2. SeenPc = "count" /\ SeenData = [t \in Tensor |-> NoBuffer] /\ SeenHeap = {}
    BY <2>1 DEF SeenPc, SeenData, SeenHeap, Seen, InFlight, NoBuffer
  <2> QED
    BY <2>1, <2>2 DEF Executor!Init, Executor!NoBuffer, NoBuffer, Unless
<1>2. DeviceInv /\ Healthy!IInv /\ [SSNext]_ssvars /\ (DeviceInv /\ Healthy!IInv)'
        => [Executor!Next]_(Executor!vars)
  <2> SUFFICES ASSUME DeviceInv, Healthy!IInv, [SSNext]_ssvars, (DeviceInv /\ Healthy!IInv)'
               PROVE  [Executor!Next]_(Executor!vars)
    OBVIOUS
  <2>1. g' = g /\ reliable' = reliable
    BY Fixed
  <2>2. CASE reliable
    BY <2>1, <2>2, StepMaps, SeenHealthy, SeenHealthyNext, SameStep
  <2>3. CASE ~reliable
    BY <2>1, <2>3 DEF Executor!vars, Unless
  <2> QED
    BY <2>2, <2>3
<1> QED
  BY <1>1, <1>2, DevicesInvariant, PTL DEF SSSpec, ImplementsExecutor, Executor!Spec
-----------------------------------------------------------------------------
(* How a subgraph comes to its formal inputs. *)
SubOp == [in : Seq(Tensor), out : Seq(Tensor), known : BOOLEAN]
ReadBy(ops) == UNION {Elems(ops[o].in) : o \in DOMAIN ops}

LEMMA OpsOf ==
  ASSUME NEW ops \in Seq(SubOp)
  PROVE  /\ Len(ops) \in Nat /\ DOMAIN ops = 1 .. Len(ops)
         /\ \A k \in 1 .. Len(ops) : /\ ops[k].in \in Seq(Tensor) /\ ops[k].out \in Seq(Tensor)
                                     /\ ops[k].known \in BOOLEAN
<1>1. Len(ops) \in Nat /\ DOMAIN ops = 1 .. Len(ops) /\ \A k \in 1 .. Len(ops) : ops[k] \in SubOp
  OBVIOUS
<1> QED
  BY <1>1 DEF SubOp

LEMMA ElemsJoined ==
  ASSUME NEW a \in Seq(Tensor), NEW c \in Seq(Tensor)
  PROVE  a \o c \in Seq(Tensor) /\ Elems(a \o c) = Elems(a) \cup Elems(c)
<1>1. /\ DOMAIN (a \o c) = 1 .. Len(a) + Len(c) /\ Len(a) \in Nat /\ Len(c) \in Nat
      /\ DOMAIN a = 1 .. Len(a) /\ DOMAIN c = 1 .. Len(c)
      /\ \A k \in 1 .. Len(a) : (a \o c)[k] = a[k]
      /\ \A k \in 1 .. Len(c) : (a \o c)[Len(a) + k] = c[k]
  OBVIOUS
<1>2. \A k \in 1 .. Len(a) : k \in DOMAIN (a \o c)
  BY <1>1
<1>3. \A k \in 1 .. Len(c) : Len(a) + k \in DOMAIN (a \o c)
  BY <1>1
<1>4. \A k \in DOMAIN (a \o c) :
        k \in 1 .. Len(a) \/ (k - Len(a) \in 1 .. Len(c) /\ Len(a) + (k - Len(a)) = k)
  BY <1>1
<1>5. \A k \in DOMAIN (a \o c) : (a \o c)[k] \in Elems(a) \cup Elems(c)
  BY <1>1, <1>4 DEF Elems
<1>6. Elems(a) \subseteq Elems(a \o c)
  BY <1>1, <1>2 DEF Elems
<1>7. Elems(c) \subseteq Elems(a \o c)
  BY <1>1, <1>3 DEF Elems
<1>8. Elems(a \o c) \subseteq Elems(a) \cup Elems(c)
  BY <1>5 DEF Elems
<1>9. a \o c \in Seq(Tensor)
  OBVIOUS
<1> QED
  BY <1>6, <1>7, <1>8, <1>9

LEMMA ElemsAppended ==
  ASSUME NEW a \in Seq(Tensor), NEW t \in Tensor
  PROVE  /\ Append(a, t) \in Seq(Tensor) /\ Elems(Append(a, t)) = Elems(a) \cup {t}
         /\ t \notin Elems(a) /\ Distinct(a) => Distinct(Append(a, t))
<1>1. /\ Append(a, t) \in Seq(Tensor) /\ Len(a) \in Nat
      /\ DOMAIN Append(a, t) = 1 .. Len(a) + 1 /\ DOMAIN a = 1 .. Len(a)
      /\ \A k \in 1 .. Len(a) : Append(a, t)[k] = a[k]
      /\ Append(a, t)[Len(a) + 1] = t
  OBVIOUS
<1>2. 1 .. Len(a) + 1 = (1 .. Len(a)) \cup {Len(a) + 1} /\ Len(a) + 1 \notin 1 .. Len(a)
  BY <1>1
<1>3. Elems(Append(a, t)) = Elems(a) \cup {t}
  BY <1>1, <1>2 DEF Elems
<1>4. t \notin Elems(a) /\ Distinct(a) => Distinct(Append(a, t))
  BY <1>1, <1>2 DEF Elems, Distinct
<1> QED
  BY <1>1, <1>3, <1>4

(* The inputs of all ops, one after the other. *)
LEMMA FlatInputs ==
  ASSUME NEW ops \in Seq(SubOp)
  PROVE  LET flat == FoldLeft(LAMBDA s, op : s \o op.in, <<>>, ops) IN
         flat \in Seq(Tensor) /\ Elems(flat) = ReadBy(ops)
<1> DEFINE n == Len(ops)
           V == Seq(Tensor)
           it == CHOOSE f : f = [s \in SUBSET (1 .. n) |->
                                   IF s = {} THEN <<>> ELSE f[s \ {Max(s)}] \o ops[Max(s)].in]
           F == [x \in (1 .. n) \X V |-> x[2] \o ops[x[1]].in]
           Good(s, k) == s \in V /\ Elems(s) = UNION {Elems(ops[o].in) : o \in 1 .. k}
<1>1. n \in Nat /\ DOMAIN ops = 1 .. n /\ \A k \in 1 .. n : ops[k].in \in Seq(Tensor)
  BY OpsOf
<1>2. FoldLeft(LAMBDA s, op : s \o op.in, <<>>, ops) = it[1 .. n]
  BY <1>1, Zenon DEF FoldLeft, MapThenFoldSet
<1>3. <<>> \in V /\ \A v \in V, k \in 1 .. n : v \o ops[k].in \in V
  BY <1>1
<1>4. F \in [(1 .. n) \X V -> V] /\ \A v \in V, k \in 1 .. n : F[<<k, v>>] = v \o ops[k].in
  BY <1>3
<1> HIDE DEF F, n, V
<1>5. PICK h : IsFold(h, V, <<>>, n, F)
  <2>1. n \in Nat /\ <<>> \in V /\ F \in Steps(V, n)
    BY <1>1, <1>3, <1>4 DEF Steps
  <2> HIDE DEF it
  <2> QED
    BY <2>1, FoldExists
<1>6. h = [s \in SUBSET (1 .. n) |-> IF s = {} THEN <<>> ELSE h[s \ {Max(s)}] \o ops[Max(s)].in]
  <2>1. ASSUME NEW s \in SUBSET (1 .. n), s # {}
        PROVE  h[s] = h[s \ {Max(s)}] \o ops[Max(s)].in
    <3>1. Max(s) \in 1 .. n /\ s \ {Max(s)} \in SUBSET (1 .. n)
      BY <1>1, <2>1, MaxFacts
    <3> QED
      BY <1>4, <1>5, <2>1, <3>1 DEF IsFold
  <2>2. h[{}] = <<>>
    BY <1>5 DEF IsFold
  <2> QED
    BY <1>5, <2>1, <2>2 DEF IsFold
<1>7. it = [s \in SUBSET (1 .. n) |-> IF s = {} THEN <<>> ELSE it[s \ {Max(s)}] \o ops[Max(s)].in]
  BY <1>6
<1> HIDE DEF it
<1>8. it[{}] = <<>> /\ \A k \in 1 .. n : it[1 .. k] = it[1 .. k - 1] \o ops[k].in
  <2>1. it[{}] = <<>>
    BY <1>7
  <2>2. ASSUME NEW k \in 1 .. n PROVE it[1 .. k] = it[1 .. k - 1] \o ops[k].in
    <3>1. /\ 1 .. k \in SUBSET (1 .. n) /\ 1 .. k # {}
          /\ Max(1 .. k) = k /\ (1 .. k) \ {k} = 1 .. k - 1
      BY <1>1, Prefix
    <3> DEFINE P == 1 .. k
    <3>2. it[P] = it[P \ {Max(P)}] \o ops[Max(P)].in
      <4> HIDE DEF P
      <4>1. P \in SUBSET (1 .. n) /\ P # {}
        BY <3>1 DEF P
      <4> QED
        BY <1>7, <4>1
    <3> QED
      BY <3>1, <3>2
  <2> QED
    BY <2>1, <2>2
<1> DEFINE S == {k \in 0 .. n : Good(it[1 .. k], k)}
<1>9. 0 \in S
  <2>1. 1 .. 0 = {} /\ 0 \in 0 .. n
    BY <1>1
  <2>2. Elems(<<>>) = {}
    BY DEF Elems
  <2> QED
    BY <1>3, <1>8, <2>1, <2>2
<1>10. ASSUME NEW k \in 0 .. n - 1, k \in S PROVE k + 1 \in S
  <2>1. k + 1 \in 1 .. n /\ k + 1 \in 0 .. n /\ (k + 1) - 1 = k /\ k \in Nat
    BY <1>1
  <2>2. Good(it[1 .. k], k)
    BY <1>10
  <2>3. it[1 .. k + 1] = it[1 .. k] \o ops[k + 1].in
    BY <1>8, <2>1
  <2>4. it[1 .. k] \in Seq(Tensor) /\ ops[k + 1].in \in Seq(Tensor)
    BY <1>1, <2>1, <2>2 DEF V
  <2>5. Elems(it[1 .. k + 1]) = Elems(it[1 .. k]) \cup Elems(ops[k + 1].in)
    BY <2>3, <2>4, ElemsJoined
  <2>6. 1 .. k + 1 = (1 .. k) \cup {k + 1}
    BY <2>1
  <2>7. Good(it[1 .. k + 1], k + 1)
    <3>1. it[1 .. k + 1] \in V
      BY <2>3, <2>4 DEF V
    <3>2. UNION {Elems(ops[o].in) : o \in 1 .. k + 1} = (UNION {Elems(ops[o].in) : o \in 1 .. k}) \cup Elems(ops[k + 1].in)
      BY <2>6
    <3> QED
      BY <2>2, <2>5, <3>1, <3>2
  <2> QED
    BY <2>1, <2>7
<1>11. \A k \in 0 .. n : k \in S
  <2> HIDE DEF S
  <2> QED
    BY <1>1, <1>9, <1>10, Counting
<1>12. Good(it[1 .. n], n)
  <2>1. n \in 0 .. n
    BY <1>1
  <2> QED
    BY <1>11, <2>1
<1> QED
  BY <1>1, <1>2, <1>12 DEF ReadBy, V
(* shl_gref_update_input_output: the formal inputs of a subgraph are the    *)
(* tensors it reads and does not make, each once.                           *)
LEMMA SubInputsAre ==
  ASSUME NEW ops \in Seq(SubOp)
  PROVE  /\ SubInputs(ops) \in Seq(Tensor) /\ Distinct(SubInputs(ops))
         /\ Elems(SubInputs(ops)) = ReadBy(ops) \ Inside(ops)
<1> DEFINE flat == FoldLeft(LAMBDA s, op : s \o op.in, <<>>, ops)
           n == Len(flat)
           V == Seq(Tensor)
           in == Inside(ops)
           it == CHOOSE f : f = [s \in SUBSET (1 .. n) |->
                   IF s = {} THEN <<>>
                   ELSE IF flat[Max(s)] \in in \cup Elems(f[s \ {Max(s)}])
                     THEN f[s \ {Max(s)}] ELSE Append(f[s \ {Max(s)}], flat[Max(s)])]
           Step(v, k) == IF flat[k] \in in \cup Elems(v) THEN v ELSE Append(v, flat[k])
           F == [x \in (1 .. n) \X V |-> Step(x[2], x[1])]
           Good(s, k) == s \in V /\ Distinct(s) /\ Elems(s) = {flat[q] : q \in 1 .. k} \ in
<1>1. /\ flat \in Seq(Tensor) /\ Elems(flat) = ReadBy(ops)
      /\ n \in Nat /\ DOMAIN flat = 1 .. n /\ \A k \in 1 .. n : flat[k] \in Tensor
  <2>1. flat \in Seq(Tensor) /\ Elems(flat) = ReadBy(ops)
    BY FlatInputs
  <2> HIDE DEF flat
  <2> QED
    BY <2>1
<1>2. SubInputs(ops) = it[1 .. n]
  <2>1. SubInputs(ops) = FoldLeft(LAMBDA s, t : IF t \in in \cup Elems(s) THEN s ELSE Append(s, t),
                                  <<>>, flat)
    BY DEF SubInputs
  <2> HIDE DEF flat, in, n
  <2> QED
    BY <1>1, <2>1, Zenon DEF FoldLeft, MapThenFoldSet
<1> HIDE DEF flat, in, n
<1>3. <<>> \in V /\ \A v \in V, k \in 1 .. n : Step(v, k) \in V
  BY <1>1
<1>4. F \in [(1 .. n) \X V -> V] /\ \A v \in V, k \in 1 .. n : F[<<k, v>>] = Step(v, k)
  <2> HIDE DEF Step
  <2> QED
    BY <1>3
<1> HIDE DEF F, V
<1>5. PICK h : IsFold(h, V, <<>>, n, F)
  <2>1. n \in Nat /\ <<>> \in V /\ F \in Steps(V, n)
    BY <1>1, <1>3, <1>4 DEF Steps
  <2> HIDE DEF it
  <2> QED
    BY <2>1, FoldExists
<1>6. h = [s \in SUBSET (1 .. n) |-> IF s = {} THEN <<>> ELSE Step(h[s \ {Max(s)}], Max(s))]
  <2> HIDE DEF Step
  <2>1. ASSUME NEW s \in SUBSET (1 .. n), s # {}
        PROVE  h[s] = Step(h[s \ {Max(s)}], Max(s))
    <3>1. Max(s) \in 1 .. n /\ s \ {Max(s)} \in SUBSET (1 .. n)
      BY <1>1, <2>1, MaxFacts
    <3> QED
      BY <1>4, <1>5, <2>1, <3>1 DEF IsFold
  <2>2. h[{}] = <<>>
    BY <1>5 DEF IsFold
  <2> QED
    BY <1>5, <2>1, <2>2 DEF IsFold
<1>7. it = [s \in SUBSET (1 .. n) |-> IF s = {} THEN <<>> ELSE Step(it[s \ {Max(s)}], Max(s))]
  BY <1>6
<1> HIDE DEF it
<1>8. it[{}] = <<>> /\ \A k \in 1 .. n : it[1 .. k] = Step(it[1 .. k - 1], k)
  <2> HIDE DEF Step
  <2>1. it[{}] = <<>>
    BY <1>7
  <2>2. ASSUME NEW k \in 1 .. n PROVE it[1 .. k] = Step(it[1 .. k - 1], k)
    <3>1. /\ 1 .. k \in SUBSET (1 .. n) /\ 1 .. k # {}
          /\ Max(1 .. k) = k /\ (1 .. k) \ {k} = 1 .. k - 1
      BY <1>1, Prefix
    <3> DEFINE P == 1 .. k
    <3>2. it[P] = Step(it[P \ {Max(P)}], Max(P))
      <4> HIDE DEF P
      <4>1. P \in SUBSET (1 .. n) /\ P # {}
        BY <3>1 DEF P
      <4> QED
        BY <1>7, <4>1
    <3> QED
      BY <3>1, <3>2
  <2> QED
    BY <2>1, <2>2
<1> DEFINE S == {k \in 0 .. n : Good(it[1 .. k], k)}
<1>9. 0 \in S
  <2>1. 1 .. 0 = {} /\ 0 \in 0 .. n
    BY <1>1
  <2>2. Elems(<<>>) = {} /\ Distinct(<<>>)
    BY DEF Elems, Distinct
  <2> QED
    BY <1>3, <1>8, <2>1, <2>2
<1>10. ASSUME NEW k \in 0 .. n - 1, k \in S PROVE k + 1 \in S
  <2>1. k + 1 \in 1 .. n /\ k + 1 \in 0 .. n /\ (k + 1) - 1 = k /\ k \in Nat
    BY <1>1
  <2>2. Good(it[1 .. k], k)
    BY <1>10
  <2>3. it[1 .. k + 1] = Step(it[1 .. k], k + 1)
    BY <1>8, <2>1
  <2>4. 1 .. k + 1 = (1 .. k) \cup {k + 1}
    BY <2>1
  <2>5. {flat[q] : q \in 1 .. k + 1} = {flat[q] : q \in 1 .. k} \cup {flat[k + 1]}
    BY <2>4
  <2>6. Good(it[1 .. k + 1], k + 1)
    <3> DEFINE v == it[1 .. k]
               t == flat[k + 1]
    <3>1. v \in Seq(Tensor) /\ t \in Tensor /\ Distinct(v) /\ Elems(v) = {flat[q] : q \in 1 .. k} \ in
      BY <1>1, <2>1, <2>2 DEF V
    <3>2. it[1 .. k + 1] = IF t \in in \cup Elems(v) THEN v ELSE Append(v, t)
      BY <2>3
    <3> HIDE DEF v, t
    <3>3. CASE t \in in \cup Elems(v)
      <4>1. {flat[q] : q \in 1 .. k + 1} \ in = {flat[q] : q \in 1 .. k} \ in
        BY <2>5, <3>1, <3>3 DEF t
      <4> QED
        BY <3>1, <3>2, <3>3, <4>1 DEF V
    <3>4. CASE t \notin in \cup Elems(v)
      <4>1. Append(v, t) \in Seq(Tensor) /\ Distinct(Append(v, t)) /\ Elems(Append(v, t)) = Elems(v) \cup {t}
        BY <3>1, <3>4, ElemsAppended
      <4>2. {flat[q] : q \in 1 .. k + 1} \ in = ({flat[q] : q \in 1 .. k} \ in) \cup {t}
        BY <2>5, <3>4 DEF t
      <4> QED
        BY <3>1, <3>2, <3>4, <4>1, <4>2 DEF V
    <3> QED
      BY <3>3, <3>4
  <2> QED
    BY <2>1, <2>6
<1>11. \A k \in 0 .. n : k \in S
  <2> HIDE DEF S
  <2> QED
    BY <1>1, <1>9, <1>10, Counting
<1>12. Good(it[1 .. n], n)
  <2>1. n \in 0 .. n
    BY <1>1
  <2> QED
    BY <1>11, <2>1
<1>13. {flat[q] : q \in 1 .. n} = ReadBy(ops)
  BY <1>1 DEF Elems
<1> QED
  BY <1>2, <1>12, <1>13 DEF V, in

(* The tensors of an op whose place a formal input takes: a tensor from     *)
(* outside, where the op reads it first.                                    *)
Taken(ops, ins, p) == ins[p] \notin Inside(ops) /\ \A q \in 1 .. p - 1 : ins[q] # ins[p]

IsFormal(x) == \E l, k : x = Formal(l, k)

(* shl_node_find. *)
LEMMA FoundFirst ==
  ASSUME NEW s, NEW n \in Nat, DOMAIN s = 1 .. n, NEW t
  PROVE  IF t \in Elems(s)
           THEN /\ NodeFind(s, t) \in 1 .. n /\ s[NodeFind(s, t)] = t
                /\ \A q \in 1 .. NodeFind(s, t) - 1 : s[q] # t
           ELSE NodeFind(s, t) = 0
<1>1. ASSUME t \in Elems(s) PROVE \E p \in 1 .. n : s[p] = t /\ \A q \in 1 .. p - 1 : s[q] # t
  <2> DEFINE P == {p \in 1 .. n : s[p] = t}
  <2>1. P \in SUBSET Nat /\ P # {}
    BY <1>1 DEF Elems
  <2>2. PICK p \in P : \A q \in P : p <= q
    BY <2>1, Least
  <2>3. \A q \in 1 .. p - 1 : q \in 1 .. n /\ ~(p <= q)
    OBVIOUS
  <2> QED
    BY <2>2, <2>3
<1> QED
  BY <1>1 DEF NodeFind

IsRow(s, n) == n \in Nat /\ s = [p \in 1 .. n |-> s[p]]

(* One formal input f is put in the place of a tensor t.                    *)
LEMMA Replaced ==
  ASSUME NEW s, NEW n, IsRow(s, n), NEW t, NEW f
  PROVE  /\ IsRow(Replace(s, t, f), n)
         /\ \A p \in 1 .. n :
              Replace(s, t, f)[p] =
                IF s[p] = t /\ \A q \in 1 .. p - 1 : s[q] # t THEN f ELSE s[p]
<1>1. DOMAIN s = 1 .. n /\ n \in Nat
  BY DEF IsRow
<1>2. CASE t \in Elems(s)
  <2> DEFINE p0 == NodeFind(s, t)
  <2>1. p0 \in 1 .. n /\ s[p0] = t /\ \A q \in 1 .. p0 - 1 : s[q] # t
    BY <1>1, <1>2, FoundFirst
  <2>2. Replace(s, t, f) = [s EXCEPT ![p0] = f]
    BY <2>1 DEF Replace
  <2> HIDE DEF p0
  <2>3. ASSUME NEW p \in 1 .. n PROVE (s[p] = t /\ \A q \in 1 .. p - 1 : s[q] # t) <=> p = p0
    <3>1. CASE p < p0
      <4>1. p \in 1 .. p0 - 1
        BY <2>1, <3>1
      <4> QED
        BY <2>1, <3>1, <4>1
    <3>2. CASE p0 < p
      <4>1. p0 \in 1 .. p - 1
        BY <2>1, <3>2
      <4> QED
        BY <2>1, <3>2, <4>1
    <3>3. CASE p = p0
      BY <2>1, <3>3
    <3>4. p < p0 \/ p0 < p \/ p = p0
      BY <2>1
    <3> QED
      BY <3>1, <3>2, <3>3, <3>4
  <2> QED
    BY <1>1, <2>1, <2>2, <2>3 DEF IsRow
<1>3. CASE t \notin Elems(s)
  <2>1. Replace(s, t, f) = s
    BY <1>1, <1>3, FoundFirst DEF Replace
  <2>2. \A p \in 1 .. n : s[p] # t
    BY <1>1, <1>3 DEF Elems
  <2> QED
    BY <2>1, <2>2
<1> QED
  BY <1>2, <1>3

LEMMA NamesApart ==
  /\ \A t, u : Outer(t) = Outer(u) => t = u
  /\ \A t, l, k : Outer(t) # Formal(l, k)
BY DEF Outer, Formal

(* shl_subgraph_rebuild: after all inputs of a layer, an op reads a formal  *)
(* input where it first reads a tensor from outside, and the tensors it was *)
(* built on in every other place.                                           *)
LEMMA Rebuilt ==
  ASSUME NEW l, NEW ops \in Seq(SubOp), NEW o \in DOMAIN ops
  PROVE  /\ DOMAIN Rebuild(l, ops) = DOMAIN ops
         /\ DOMAIN Rebuild(l, ops)[o] = DOMAIN ops[o].in
         /\ \A p \in DOMAIN ops[o].in :
              IF Taken(ops, ops[o].in, p) THEN IsFormal(Rebuild(l, ops)[o][p])
              ELSE Rebuild(l, ops)[o][p] = Outer(ops[o].in[p])
<1> DEFINE inputs == SubInputs(ops)
           n == Len(inputs)
           ins == ops[o].in
           len == Len(ins)
           Names == {Outer(t) : t \in Tensor} \cup {Formal(l, k) : k \in 1 .. n}
           V == [1 .. len -> Names]
           base == Outers(ins)
           Step(v, k) == Replace(v, Outer(inputs[k]), Formal(l, k))
           it == CHOOSE f : f = [s \in SUBSET (1 .. n) |->
                   IF s = {} THEN base ELSE Step(f[s \ {Max(s)}], Max(s))]
           F == [x \in (1 .. n) \X V |-> Step(x[2], x[1])]
           Done(p, k) == ins[p] \in {inputs[q] : q \in 1 .. k} /\ \A q \in 1 .. p - 1 : ins[q] # ins[p]
           Good(v, k) == /\ v \in V
                         /\ \A p \in 1 .. len : IF Done(p, k) THEN IsFormal(v[p])
                                                ELSE v[p] = Outer(ins[p])
<1>1. /\ n \in Nat /\ DOMAIN inputs = 1 .. n /\ \A k \in 1 .. n : inputs[k] \in Tensor
      /\ len \in Nat /\ DOMAIN ins = 1 .. len /\ \A p \in 1 .. len : ins[p] \in Tensor
      /\ Distinct(inputs) /\ Elems(inputs) = ReadBy(ops) \ Inside(ops)
  <2>1. inputs \in Seq(Tensor) /\ Distinct(inputs) /\ Elems(inputs) = ReadBy(ops) \ Inside(ops)
    BY SubInputsAre
  <2>2. ins \in Seq(Tensor)
    BY OpsOf
  <2> HIDE DEF inputs, ins
  <2> QED
    BY <2>1, <2>2
<1>2. /\ DOMAIN Rebuild(l, ops) = DOMAIN ops
      /\ Rebuild(l, ops)[o] = it[1 .. n]
  <2> DEFINE K == [k \in 1 .. n |-> k]
             Fold == FoldLeft(LAMBDA v, k : Step(v, k), base, K)
  <2>1. DOMAIN Rebuild(l, ops) = DOMAIN ops /\ Rebuild(l, ops)[o] = Fold
    BY <1>1 DEF Rebuild
  <2>2. Fold = it[1 .. n]
    <3> HIDE DEF inputs, n, base, Step, ins
    <3> DEFINE raw == CHOOSE f : f = [s \in SUBSET DOMAIN K |->
                        IF s = {} THEN base ELSE Step(f[s \ {Max(s)}], K[Max(s)])]
    <3>1. Fold = raw[DOMAIN K]
      BY Zenon DEF FoldLeft, MapThenFoldSet
    <3>2. DOMAIN K = 1 .. n
      OBVIOUS
    <3>3. \A s \in SUBSET (1 .. n) : s # {} => K[Max(s)] = Max(s)
      BY <1>1, MaxFacts
    <3>4. \A f : [s \in SUBSET DOMAIN K |->
                   IF s = {} THEN base ELSE Step(f[s \ {Max(s)}], K[Max(s)])]
                = [s \in SUBSET (1 .. n) |->
                   IF s = {} THEN base ELSE Step(f[s \ {Max(s)}], Max(s))]
      <4> HIDE DEF K
      <4> QED
        BY <3>2, <3>3
    <3>5. raw = it
      BY <3>4, ZenonT(30)
    <3> QED
      BY <3>1, <3>2, <3>5
  <2> QED
    BY <2>1, <2>2
<1>3. base \in V /\ \A v \in V, k \in 1 .. n : Step(v, k) \in V
  <2>1. base \in V
    BY <1>1 DEF Outers
  <2>2. ASSUME NEW v \in V, NEW k \in 1 .. n PROVE Step(v, k) \in V
    <3>1. /\ IsRow(Step(v, k), len)
          /\ \A p \in 1 .. len : Step(v, k)[p] \in {Formal(l, k), v[p]}
      <4>1. IsRow(v, len)
        BY <1>1, <2>2 DEF IsRow
      <4> QED
        BY <4>1, Replaced
    <3>2. \A p \in 1 .. len : Step(v, k)[p] \in Names
      BY <2>2, <3>1
    <3> HIDE DEF Step, Names
    <3> QED
      BY <3>1, <3>2 DEF IsRow
  <2> QED
    BY <2>1, <2>2
<1> HIDE DEF inputs, n, len, V, base
<1>4. F \in [(1 .. n) \X V -> V] /\ \A v \in V, k \in 1 .. n : F[<<k, v>>] = Step(v, k)
  <2> HIDE DEF Step
  <2> QED
    BY <1>3
<1> HIDE DEF F
<1>5. PICK h : IsFold(h, V, base, n, F)
  <2>1. n \in Nat /\ base \in V /\ F \in Steps(V, n)
    BY <1>1, <1>3, <1>4 DEF Steps
  <2> HIDE DEF it
  <2> QED
    BY <2>1, FoldExists
<1>6. h = [s \in SUBSET (1 .. n) |-> IF s = {} THEN base ELSE Step(h[s \ {Max(s)}], Max(s))]
  <2> HIDE DEF Step
  <2>1. ASSUME NEW s \in SUBSET (1 .. n), s # {}
        PROVE  h[s] = Step(h[s \ {Max(s)}], Max(s))
    <3>1. Max(s) \in 1 .. n /\ s \ {Max(s)} \in SUBSET (1 .. n)
      BY <1>1, <2>1, MaxFacts
    <3> QED
      BY <1>4, <1>5, <2>1, <3>1 DEF IsFold
  <2>2. h[{}] = base
    BY <1>5 DEF IsFold
  <2> QED
    BY <1>5, <2>1, <2>2 DEF IsFold
<1>7. it = [s \in SUBSET (1 .. n) |-> IF s = {} THEN base ELSE Step(it[s \ {Max(s)}], Max(s))]
  <2> HIDE DEF Step
  <2> QED
    BY <1>6
<1> HIDE DEF it
<1>8. it[{}] = base /\ \A k \in 1 .. n : it[1 .. k] = Step(it[1 .. k - 1], k)
  <2> HIDE DEF Step
  <2>1. it[{}] = base
    BY <1>7
  <2>2. ASSUME NEW k \in 1 .. n PROVE it[1 .. k] = Step(it[1 .. k - 1], k)
    <3>1. /\ 1 .. k \in SUBSET (1 .. n) /\ 1 .. k # {}
          /\ Max(1 .. k) = k /\ (1 .. k) \ {k} = 1 .. k - 1
      BY <1>1, Prefix
    <3> DEFINE P == 1 .. k
    <3>2. it[P] = Step(it[P \ {Max(P)}], Max(P))
      <4> HIDE DEF P
      <4>1. P \in SUBSET (1 .. n) /\ P # {}
        BY <3>1 DEF P
      <4> QED
        BY <1>7, <4>1
    <3> QED
      BY <3>1, <3>2
  <2> QED
    BY <2>1, <2>2
<1> DEFINE S == {k \in 0 .. n : Good(it[1 .. k], k)}
<1>9. 0 \in S
  <2>1. 1 .. 0 = {} /\ 0 \in 0 .. n
    BY <1>1
  <2>2. \A p \in 1 .. len : base[p] = Outer(ins[p])
    BY <1>1 DEF base, Outers
  <2>3. it[1 .. 0] = base
    BY <1>8, <2>1
  <2> QED
    BY <1>3, <2>1, <2>2, <2>3
<1>10. ASSUME NEW k \in 0 .. n - 1, k \in S PROVE k + 1 \in S
  <2> DEFINE t == inputs[k + 1]
             v == it[1 .. k]
             w == it[1 .. k + 1]
  <2>1. k + 1 \in 1 .. n /\ k + 1 \in 0 .. n /\ (k + 1) - 1 = k /\ k \in Nat
    BY <1>1
  <2>2. Good(v, k)
    BY <1>10
  <2>3. w = Step(v, k + 1) /\ w \in V
    BY <1>3, <1>8, <2>1, <2>2
  <2>4. \A q \in 1 .. k : inputs[q] # t
    <3> SUFFICES ASSUME NEW q \in 1 .. k PROVE inputs[q] # inputs[k + 1]
      OBVIOUS
    <3>1. q \in DOMAIN inputs /\ k + 1 \in DOMAIN inputs /\ q # k + 1
      BY <1>1, <2>1
    <3> QED
      BY <1>1, <3>1 DEF Distinct
  <2>5. \A p \in 1 .. len : w[p] = IF v[p] = Outer(t) /\ \A q \in 1 .. p - 1 : v[q] # Outer(t)
                                     THEN Formal(l, k + 1) ELSE v[p]
    <3>1. IsRow(v, len)
      BY <1>1, <2>2 DEF V, IsRow
    <3>2. w = Replace(v, Outer(t), Formal(l, k + 1))
      BY <2>3
    <3> HIDE DEF v, w, t
    <3> QED
      BY <3>1, <3>2, Replaced
  <2>6. \A p \in 1 .. len : v[p] = Outer(t) <=> ins[p] = t
    <3> SUFFICES ASSUME NEW p \in 1 .. len PROVE v[p] = Outer(t) <=> ins[p] = t
      OBVIOUS
    <3> HIDE DEF v, t
    <3>1. CASE Done(p, k)
      <4>1. IsFormal(v[p]) /\ ins[p] # t
        BY <2>2, <2>4, <3>1
      <4> QED
        BY <4>1, NamesApart DEF IsFormal
    <3>2. CASE ~Done(p, k)
      BY <2>2, <3>2, NamesApart
    <3> QED
      BY <3>1, <3>2
  <2>7. \A p \in 1 .. len : Done(p, k + 1) <=>
                              Done(p, k) \/ (ins[p] = t /\ \A q \in 1 .. p - 1 : ins[q] # t)
    <3>1. 1 .. k + 1 = (1 .. k) \cup {k + 1}
      BY <2>1
    <3>2. {inputs[q] : q \in 1 .. k + 1} = {inputs[q] : q \in 1 .. k} \cup {t}
      BY <3>1
    <3> HIDE DEF t
    <3> QED
      BY <3>2
  <2>8. ASSUME NEW p \in 1 .. len
        PROVE  IF Done(p, k + 1) THEN IsFormal(w[p]) ELSE w[p] = Outer(ins[p])
    <3> HIDE DEF v, w, t
    <3>1. \A q \in 1 .. p - 1 : q \in 1 .. len
      BY <1>1
    <3>2. CASE ins[p] = t /\ \A q \in 1 .. p - 1 : ins[q] # t
      <4>1. w[p] = Formal(l, k + 1)
        BY <2>5, <2>6, <3>1, <3>2
      <4> QED
        BY <2>7, <3>2, <4>1 DEF IsFormal
    <3>3. CASE ~(ins[p] = t /\ \A q \in 1 .. p - 1 : ins[q] # t)
      <4>1. w[p] = v[p]
        BY <2>5, <2>6, <3>1, <3>3
      <4>2. Done(p, k + 1) <=> Done(p, k)
        BY <2>7, <3>3
      <4> HIDE DEF Done
      <4> QED
        BY <2>2, <4>1, <4>2
    <3> QED
      BY <3>2, <3>3
  <2>9. Good(w, k + 1)
    <3> HIDE DEF Done, w
    <3> QED
      BY <2>3, <2>8
  <2> QED
    BY <2>1, <2>9
<1>11. \A k \in 0 .. n : k \in S
  <2> HIDE DEF S
  <2> QED
    BY <1>1, <1>9, <1>10, Counting
<1>12. Good(it[1 .. n], n)
  <2>1. n \in 0 .. n
    BY <1>1
  <2> HIDE DEF Good
  <2> QED
    BY <1>11, <2>1
<1>13. \A p \in 1 .. len : Done(p, n) <=> Taken(ops, ins, p)
  <2>1. {inputs[q] : q \in 1 .. n} = Elems(inputs)
    BY <1>1 DEF Elems
  <2>2. \A p \in 1 .. len : ins[p] \in ReadBy(ops)
    BY <1>1 DEF ReadBy, Elems
  <2> HIDE DEF ins
  <2> QED
    BY <1>1, <2>1, <2>2 DEF Taken
<1>14. DOMAIN it[1 .. n] = 1 .. len
  BY <1>12 DEF V
<1> HIDE DEF Done
<1> QED
  BY <1>1, <1>2, <1>12, <1>13, <1>14
-----------------------------------------------------------------------------
(* How far the setup of the sub-sessions has got: a tensor belongs to the   *)
(* last layer that was built on it, and every op of a settled layer was.    *)
ApartInv ==
  /\ pc = "count" => sl = 0
  /\ pc = "setup" => sl > 0
  /\ pc \notin {"count", "setup"} => sl = Len(g.plan) + 1
  /\ pc # "count" => \A l \in SubLayers : wired[l] = Rebuild(l, sub[l].ops)
  /\ \A l \in SubLayers : \A t \in Tensor : sess[t] = l => l < sl /\ t \in Touched(l)
  /\ \A l \in SubLayers : l < sl => \A t \in Touched(l) : l <= sess[t]
  /\ \A l \in settled : l < sl /\ Known(l) = DOMAIN sub[l].ops
  /\ DOMAIN backend = SubLayers
  /\ \A l \in SubLayers : \A o \in DOMAIN backend[l] :
       o \in Nat /\ o > 0 /\ backend[l][o] = Backend(l, o)

LEMMA CaseOps ==
  ASSUME CaseInv, NEW l \in SubLayers
  PROVE  /\ sub[l].ops \in Seq(SubOp)
         /\ Elems(g.plan[l].out) \subseteq Inside(sub[l].ops)
         /\ \A m \in SubLayers \ {l} : Inside(sub[l].ops) \cap Inside(sub[m].ops) = {}
<1>1. PICK c \in Case : g = c.g /\ sub = c.sub
  BY DEF CaseInv
<1>2. l \in DOMAIN c.sub /\ DOMAIN c.sub = SubLayers
  BY <1>1, Plan
<1> QED
  BY <1>1, <1>2, CaseAssumption DEF SubOp

LEMMA ReachedCount ==
  ASSUME CaseInv, NEW l \in SubLayers
  PROVE  Cardinality(Reached(l)) \in Nat
<1>1. Reached(l) \subseteq 1 .. Len(sub[l].ops) /\ Len(sub[l].ops) \in Nat
  BY CaseOps, OpsOf DEF Reached
<1>2. IsFiniteSet(1 .. Len(sub[l].ops))
  BY <1>1, FS_Interval
<1> QED
  BY <1>1, <1>2, FS_Subset, FS_CardinalityType

(* What no step of the executor or of a device touches. *)
LEMMA SetupUntouched ==
  ASSUME [SSNext]_ssvars, ~ConvertGraph, ~SetupLayer
  PROVE  wired' = wired /\ sess' = sess /\ settled' = settled /\ sl' = sl /\ backend' = backend
<1>1. CASE Count \/ SetupReturn \/ SSApplication
  BY <1>1 DEF Count, SetupReturn, SSApplication, sv
<1>2. CASE Begin \/ CpuRun
  BY <1>2 DEF Begin, CpuRun, sv
<1>3. CASE SubEntry \/ SubReturn \/ \E ok \in BOOLEAN : InnerRun(ok)
  BY <1>3 DEF SubEntry, SubReturn, InnerRun, sv
<1>4. CASE UNCHANGED ssvars
  BY <1>4 DEF ssvars, sv
<1> QED
  BY <1>1, <1>2, <1>3, <1>4 DEF SSNext

(* A session never goes back to its setup. *)
LEMMA SetupPhases ==
  ASSUME PhaseInv, [SSNext]_ssvars, ~ConvertGraph, ~SetupLayer
  PROVE  \/ pc' = pc
         \/ pc = "setup" /\ sl > Len(g.plan) /\ pc' = "idle"
         \/ pc \notin {"count", "setup"} /\ pc' \notin {"count", "setup"}
<1>1. CASE Count \/ SSApplication
  BY <1>1 DEF Count, CountIn, CountOut, CountGraphOutput, SSApplication, Application,
              UpdateInput, ReleaseOutputs
<1>2. CASE SetupReturn
  BY <1>2 DEF SetupReturn
<1>3. CASE Begin
  BY <1>3 DEF Begin, SessionRun, DeinitIn, DeinitOut, RunDone
<1>4. CASE CpuRun
  BY <1>4 DEF CpuRun, OpRun
<1>5. CASE SubEntry \/ SubReturn \/ \E ok \in BOOLEAN : InnerRun(ok)
  BY <1>5 DEF SubEntry, SubReturn, InnerRun
<1>6. CASE UNCHANGED ssvars
  BY <1>6 DEF ssvars, vars
<1> QED
  BY <1>1, <1>2, <1>3, <1>4, <1>5, <1>6 DEF SSNext

LEMMA ApartKept ==
  ASSUME CaseInv, PhaseInv, SetupInv, ApartInv, [SSNext]_ssvars
  PROVE  ApartInv'
<1>1. /\ g' = g /\ sub' = sub /\ SubLayers' = SubLayers /\ Len(g.plan) \in Nat
      /\ SubLayers \subseteq 1 .. Len(g.plan) /\ DOMAIN sub = SubLayers
  BY Fixed, Plan, PlanTypes DEF Layers
<1>2. /\ \A l : Known(l)' = Known(l) /\ Reached(l)' = Reached(l)
      /\ \A l, o : Backend(l, o)' = Backend(l, o)
      /\ \A l, ops : Rebuild(l, ops)' = Rebuild(l, ops)
  BY <1>1 DEF Known, Reached, Backend
<1>3. CASE ConvertGraph
  <2>1. /\ pc' = "setup" /\ sl' = 1 /\ sess' = sess /\ settled' = settled /\ backend' = backend
        /\ wired' = [l \in SubLayers |-> Rebuild(l, sub[l].ops)] /\ sl = 0
    BY <1>1, <1>3 DEF ConvertGraph, ApartInv
  <2>2. \A t \in Tensor : sess[t] = 0
    BY <1>1, <2>1 DEF ApartInv, SetupInv
  <2>3. settled = {}
    BY <1>1, <2>1 DEF ApartInv, SetupInv
  <2>4. \A l \in SubLayers : ~(l < 1)
    BY <1>1
  <2> QED
    BY <1>1, <1>2, <2>1, <2>2, <2>3, <2>4 DEF ApartInv
<1>4. CASE SetupLayer
  <2>1. /\ pc = "setup" /\ pc' = pc /\ wired' = wired /\ sl' = sl + 1 /\ sl \in 1 .. Len(g.plan)
    BY <1>1, <1>4 DEF SetupLayer, vars, SetupInv
  <2>2. \A l : Touched(l)' = Touched(l)
    BY <1>1, <1>2, <2>1 DEF Touched
  <2>3. CASE sl \in SubLayers
    <3>1. /\ sess' = [t \in Tensor |-> IF t \in Touched(sl) THEN sl ELSE sess[t]]
          /\ backend' = [backend EXCEPT ![sl] = [o \in 1 .. Cardinality(Reached(sl)) |-> Backend(sl, o)]]
          /\ settled' = IF Known(sl) = DOMAIN sub[sl].ops THEN settled \cup {sl} ELSE settled
      BY <1>4, <2>3 DEF SetupLayer
    <3>2. ASSUME NEW l \in SubLayers, NEW t \in Tensor, sess'[t] = l
          PROVE  l < sl' /\ t \in Touched(l)
      <4>1. CASE t \in Touched(sl)
        <5>1. l = sl
          BY <3>1, <3>2, <4>1
        <5> QED
          BY <1>1, <2>1, <4>1, <5>1
      <4>2. CASE t \notin Touched(sl)
        <5>1. sess[t] = l
          BY <3>1, <3>2, <4>2
        <5>2. l < sl /\ t \in Touched(l)
          BY <5>1 DEF ApartInv
        <5> QED
          BY <1>1, <2>1, <5>2
      <4> QED
        BY <4>1, <4>2
    <3>3. ASSUME NEW l \in SubLayers, l < sl', NEW t \in Touched(l) PROVE l <= sess'[t]
      <4>1. t \in Tensor /\ l \in Nat /\ sl \in Nat /\ (l < sl \/ l = sl)
        BY <1>1, <2>1, <3>3 DEF Touched
      <4>2. CASE l = sl
        BY <3>1, <3>3, <4>1, <4>2
      <4>3. CASE l < sl
        <5>1. l <= sess[t]
          BY <3>3, <4>3 DEF ApartInv
        <5> QED
          BY <3>1, <4>1, <4>3, <5>1
      <4> QED
        BY <4>1, <4>2, <4>3
    <3>4. \A l \in settled' : l < sl' /\ Known(l) = DOMAIN sub[l].ops
      <4>1. \A l \in settled : l \in SubLayers /\ l < sl /\ Known(l) = DOMAIN sub[l].ops
        BY DEF ApartInv, SetupInv
      <4>2. \A l \in SubLayers : l < sl \/ l = sl => l < sl'
        BY <1>1, <2>1
      <4> QED
        BY <2>3, <3>1, <4>1, <4>2
    <3>5. /\ DOMAIN backend' = SubLayers
          /\ \A l \in SubLayers : \A o \in DOMAIN backend'[l] :
               o \in Nat /\ o > 0 /\ backend'[l][o] = Backend(l, o)
      <4>1. DOMAIN backend = SubLayers /\ Cardinality(Reached(sl)) \in Nat
        BY <2>3, ReachedCount DEF ApartInv
      <4>2. \A l \in SubLayers \ {sl} : backend'[l] = backend[l]
        BY <3>1, <4>1
      <4>3. backend'[sl] = [o \in 1 .. Cardinality(Reached(sl)) |-> Backend(sl, o)]
        BY <2>3, <3>1, <4>1
      <4>4. \A o \in DOMAIN backend'[sl] : o \in Nat /\ o > 0 /\ backend'[sl][o] = Backend(sl, o)
        BY <4>1, <4>3
      <4>5. DOMAIN backend' = SubLayers
        BY <3>1, <4>1
      <4> QED
        BY <4>2, <4>4, <4>5 DEF ApartInv
    <3>6. \A l \in SubLayers : wired'[l] = Rebuild(l, sub[l].ops)
      BY <2>1 DEF ApartInv
    <3> QED
      <4>1. sl' > 0
        BY <1>1, <2>1
      <4>2. \A l \in settled' : l < sl' /\ Known(l)' = DOMAIN sub'[l].ops
        BY <1>1, <1>2, <3>4
      <4>3. \A l \in SubLayers' : l < sl' => \A t \in Touched(l)' : l <= sess'[t]
        BY <1>1, <2>2, <3>3
      <4>4. \A l \in SubLayers' : wired'[l] = Rebuild(l, sub'[l].ops)
        BY <1>1, <3>6
      <4>5. \A l \in SubLayers' : \A o \in DOMAIN backend'[l] :
              o \in Nat /\ o > 0 /\ backend'[l][o] = Backend(l, o)'
        BY <1>1, <1>2, <3>5
      <4>6. \A l \in SubLayers' : \A t \in Tensor : sess'[t] = l => l < sl' /\ t \in Touched(l)'
        BY <1>1, <2>2, <3>2
      <4> QED
        BY <1>1, <2>1, <3>5, <4>6, <4>1, <4>2, <4>3, <4>4, <4>5 DEF ApartInv
  <2>4. CASE sl \notin SubLayers
    <3>1. sess' = sess /\ backend' = backend /\ settled' = settled
      BY <1>4, <2>4 DEF SetupLayer
    <3>2. \A l \in SubLayers : l < sl' <=> l < sl
      BY <1>1, <2>1, <2>4
    <3>4. \A l \in settled : l < sl' <=> l < sl
      BY <3>2 DEF SetupInv
    <3> QED
      BY <1>1, <1>2, <2>1, <2>2, <3>1, <3>2, <3>4 DEF ApartInv
  <2> QED
    BY <2>3, <2>4
<1>5. ASSUME ~ConvertGraph, ~SetupLayer PROVE ApartInv'
  <2>1. wired' = wired /\ sess' = sess /\ settled' = settled /\ sl' = sl /\ backend' = backend
    BY <1>5, SetupUntouched
  <2>2. \A l : Touched(l)' = Touched(l)
    BY <1>1, <1>2, <2>1 DEF Touched
  <2>3. /\ pc' = "count" => sl' = 0
        /\ pc' = "setup" => sl' > 0
        /\ pc' \notin {"count", "setup"} => sl' = Len(g.plan) + 1
        /\ pc' # "count" => pc # "count"
    BY <1>1, <1>5, <2>1, SetupPhases DEF ApartInv, SetupInv
  <2> QED
    BY <1>1, <1>2, <2>1, <2>2, <2>3 DEF ApartInv
<1> QED
  BY <1>3, <1>4, <1>5

(* What a sub-session was built on, by the tensors its ops read again. *)
LEMMA BuiltOn ==
  ASSUME CaseInv, NEW l \in SubLayers, wired[l] = Rebuild(l, sub[l].ops),
         NEW o \in DOMAIN sub[l].ops
  PROVE  /\ DOMAIN wired[l][o] = DOMAIN sub[l].ops[o].in
         /\ \A p \in DOMAIN sub[l].ops[o].in :
              /\ sub[l].ops[o].in[p] \in Tensor
              /\ IF sub[l].ops[o].in[p] \in Inside(sub[l].ops) \/ p \in Again(l, o)
                   THEN wired[l][o][p] = Outer(sub[l].ops[o].in[p])
                   ELSE IsFormal(wired[l][o][p])
<1> DEFINE ops == sub[l].ops
           ins == ops[o].in
<1>1. ops \in Seq(SubOp) /\ o \in DOMAIN ops
  BY CaseOps
<1>2. ins \in Seq(Tensor)
  <2>1. \A k \in DOMAIN ops : ops[k].in \in Seq(Tensor)
    <3> HIDE DEF ops
    <3> QED
      BY <1>1, OpsOf
  <2> QED
    BY <1>1, <2>1
<1>3. \A p \in DOMAIN ins : ins[p] \in Tensor
  <2> HIDE DEF ins
  <2> QED
    BY <1>2
<1>4. \A p \in DOMAIN ins : ins[p] \in Inside(ops) \/ p \in Again(l, o) <=> ~Taken(ops, ins, p)
  BY DEF Again, Taken
<1>5. /\ DOMAIN Rebuild(l, ops)[o] = DOMAIN ins
      /\ \A p \in DOMAIN ins : IF Taken(ops, ins, p) THEN IsFormal(Rebuild(l, ops)[o][p])
                               ELSE Rebuild(l, ops)[o][p] = Outer(ins[p])
  <2> HIDE DEF ops
  <2> QED
    BY <1>1, Rebuilt
<1> QED
  BY <1>3, <1>4, <1>5

LEMMA TouchedAgain ==
  ASSUME CaseInv, NEW l \in SubLayers, wired[l] = Rebuild(l, sub[l].ops),
         NEW t \in Tensor, t \notin Inside(sub[l].ops)
  PROVE  t \in Touched(l) <=> ReadsAgain(l, t)
<1>1. \A o \in Known(l) : o \in DOMAIN sub[l].ops
  BY DEF Known, Reached
<1>2. ASSUME NEW o \in Known(l)
      PROVE  /\ t \notin Elems(sub[l].ops[o].out)
             /\ Outer(t) \in Elems(wired[l][o]) <=>
                  \E p \in Again(l, o) : sub[l].ops[o].in[p] = t
  <2>1. o \in DOMAIN sub[l].ops
    BY <1>1
  <2>2. t \notin Elems(sub[l].ops[o].out)
    BY <2>1 DEF Inside
  <2>3. \A p \in DOMAIN sub[l].ops[o].in : wired[l][o][p] = Outer(t) <=>
             p \in Again(l, o) /\ sub[l].ops[o].in[p] = t
    <3> SUFFICES ASSUME NEW p \in DOMAIN sub[l].ops[o].in
                 PROVE  wired[l][o][p] = Outer(t) <=> p \in Again(l, o) /\ sub[l].ops[o].in[p] = t
      OBVIOUS
    <3>1. CASE sub[l].ops[o].in[p] \in Inside(sub[l].ops) \/ p \in Again(l, o)
      <4>1. wired[l][o][p] = Outer(sub[l].ops[o].in[p])
        BY <2>1, <3>1, BuiltOn
      <4> QED
        BY <3>1, <4>1, NamesApart
    <3>2. CASE ~(sub[l].ops[o].in[p] \in Inside(sub[l].ops) \/ p \in Again(l, o))
      <4>1. IsFormal(wired[l][o][p])
        BY <2>1, <3>2, BuiltOn
      <4> QED
        BY <3>2, <4>1, NamesApart DEF IsFormal
    <3> QED
      BY <3>1, <3>2
  <2>4. DOMAIN wired[l][o] = DOMAIN sub[l].ops[o].in /\ Again(l, o) \subseteq DOMAIN sub[l].ops[o].in
    BY <2>1, BuiltOn DEF Again
  <2>5. Outer(t) \in Elems(wired[l][o]) <=> \E p \in DOMAIN sub[l].ops[o].in : wired[l][o][p] = Outer(t)
    BY <2>4 DEF Elems
  <2> QED
    BY <2>2, <2>3, <2>4, <2>5
<1> QED
  BY <1>2 DEF Touched, ReadsAgain

LEMMA ApartFollows ==
  ASSUME CaseInv, SetupInv, ApartInv
  PROVE  SessionsApart
<1> SUFFICES ASSUME pc \in {"idle", "layer"}, NEW l \in SubLayers
             PROVE  /\ \A o \in DOMAIN sub[l].ops : \A p \in DOMAIN sub[l].ops[o].in :
                         wired[l][o][p] \in {Outer(t) : t \in Tensor \ Inside(sub[l].ops)} <=>
                           p \in Again(l, o)
                    /\ \A t \in Elems(g.plan[l].out) : l \in settled =>
                         (sess[t] = l <=> \A m \in SubLayers : m > l => ~ReadsAgain(m, t))
                    /\ \A o \in DOMAIN backend[l] :
                         backend[l][o] = sub[l].dev <=> (o > 1 \/ sub[l].dev \in {"light", "asp"})
  BY DEF SessionsApart
<1>1. /\ sl = Len(g.plan) + 1 /\ Len(g.plan) \in Nat /\ SubLayers \subseteq 1 .. Len(g.plan)
      /\ \A m \in SubLayers : wired[m] = Rebuild(m, sub[m].ops)
  BY Plan, PlanTypes DEF ApartInv, Layers
<1>2. ASSUME NEW o \in DOMAIN sub[l].ops, NEW p \in DOMAIN sub[l].ops[o].in
      PROVE  wired[l][o][p] \in {Outer(t) : t \in Tensor \ Inside(sub[l].ops)} <=> p \in Again(l, o)
  <2> DEFINE x == sub[l].ops[o].in[p]
  <2>1. p \in Again(l, o) => x \notin Inside(sub[l].ops)
    BY DEF Again
  <2>2. x \in Tensor
    BY <1>1, BuiltOn
  <2>3. CASE x \in Inside(sub[l].ops) \/ p \in Again(l, o)
    <3>1. wired[l][o][p] = Outer(x)
      BY <1>1, <2>3, BuiltOn
    <3> HIDE DEF x
    <3> QED
      BY <2>1, <2>2, <2>3, <3>1, NamesApart
  <2>4. CASE ~(x \in Inside(sub[l].ops) \/ p \in Again(l, o))
    <3>1. IsFormal(wired[l][o][p])
      BY <1>1, <2>4, BuiltOn
    <3> HIDE DEF x
    <3> QED
      BY <2>4, <3>1, NamesApart DEF IsFormal
  <2> QED
    BY <2>3, <2>4
<1>3. ASSUME NEW t \in Elems(g.plan[l].out), l \in settled
      PROVE  sess[t] = l <=> \A m \in SubLayers : m > l => ~ReadsAgain(m, t)
  <2>1. t \in Inside(sub[l].ops) /\ t \in Tensor
    BY CaseOps, Plan, PlanTypes
  <2>2. \A m \in SubLayers : m > l => (t \in Touched(m) <=> ReadsAgain(m, t))
    <3>1. \A m \in SubLayers : m > l => m # l
      BY <1>1
    <3>2. \A m \in SubLayers : m # l => t \notin Inside(sub[m].ops)
      BY <2>1, CaseOps
    <3> QED
      BY <1>1, <2>1, <3>1, <3>2, TouchedAgain
  <2>3. t \in Touched(l)
    <3>1. Known(l) = DOMAIN sub[l].ops
      BY <1>3 DEF ApartInv
    <3> QED
      BY <2>1, <3>1 DEF Touched, Inside
  <2>4. \A m \in SubLayers : t \in Touched(m) => m <= sess[t]
    <3>1. \A m \in SubLayers : m < sl
      BY <1>1
    <3> QED
      BY <3>1 DEF ApartInv
  <2>5. sess[t] \in SubLayers /\ sess[t] \in Nat /\ l \in Nat /\ l > 0 /\ l <= sess[t]
    <3>1. l <= sess[t] /\ l \in Nat /\ l > 0
      BY <1>1, <2>3, <2>4
    <3>2. sess[t] \in {0} \cup SubLayers
      BY <2>1 DEF SetupInv
    <3>3. sess[t] # 0
      <4>1. sess[t] = 0 => FALSE
        BY <3>1
      <4> QED
        BY <4>1
    <3>4. sess[t] \in SubLayers
      BY <3>2, <3>3, Zenon
    <3>5. SubLayers \subseteq Nat
      BY <1>1
    <3>6. sess[t] \in Nat
      BY <3>4, <3>5, Zenon
    <3> QED
      BY <3>1, <3>4, <3>6, Zenon
  <2>6. t \in Touched(sess[t])
    BY <2>1, <2>5 DEF ApartInv
  <2>7. ASSUME sess[t] = l, NEW m \in SubLayers, m > l PROVE ~ReadsAgain(m, t)
    <3>1. ASSUME ReadsAgain(m, t) PROVE m <= l
      BY <2>2, <2>4, <2>7, <3>1
    <3>2. m \in Nat /\ l \in Nat /\ ~(m <= l)
      BY <1>1, <2>7
    <3> QED
      BY <3>1, <3>2
  <2>8. ASSUME sess[t] # l PROVE sess[t] > l /\ ReadsAgain(sess[t], t)
    BY <2>2, <2>5, <2>6, <2>8
  <2> QED
    BY <2>5, <2>7, <2>8
<1>4. ASSUME NEW o \in DOMAIN backend[l]
      PROVE  backend[l][o] = sub[l].dev <=> (o > 1 \/ sub[l].dev \in {"light", "asp"})
  <2>1. o \in Nat /\ o > 0 /\ backend[l][o] = Backend(l, o)
    BY DEF ApartInv
  <2>2. o > 1 <=> o # 1
    BY <2>1
  <2> QED
    BY <2>1, <2>2 DEF Backend
<1> QED
  BY <1>2, <1>3, <1>4

(* The builders of a sub-session work on its own tensors and callbacks, for *)
(* every graph and every set of subgraphs, with the exceptions that follow  *)
(* from shl_node_find and set_sub_session.                                  *)
THEOREM BuiltApart == SSSpec => []SessionsApart
<1>1. SSInit => ApartInv
  <2> SUFFICES ASSUME SSInit PROVE ApartInv
    OBVIOUS
  <2>1. CaseInv /\ DOMAIN sub = SubLayers /\ SubLayers \subseteq 1 .. Len(g.plan) /\ Len(g.plan) \in Nat
    BY Plan, PlanTypes DEF SSInit, CaseInv, Layers
  <2> QED
    BY <2>1 DEF SSInit, Init, ApartInv
<1>2. CaseInv /\ PhaseInv /\ SetupInv /\ ApartInv /\ [SSNext]_ssvars => ApartInv'
  BY ApartKept
<1>3. DeviceInv => CaseInv /\ PhaseInv /\ SetupInv
  BY DEF DeviceInv
<1>4. CaseInv /\ SetupInv /\ ApartInv => SessionsApart
  BY ApartFollows
<1>5. SSSpec => []DeviceInv
  BY DevicesInvariant, PTL
<1>6. SSSpec => []ApartInv
  BY <1>1, <1>2, <1>3, <1>5, PTL DEF SSSpec
<1> QED
  BY <1>3, <1>4, <1>5, <1>6, PTL
=============================================================================
