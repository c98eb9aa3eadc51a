--------------------------- MODULE GrefRunProofs ---------------------------
(***************************************************************************)
(* Proofs about GrefRun for every set of tensors, every set of well-formed *)
(* graphs and every number of runs.  The inductive invariant says what the *)
(* counting loops have counted so far, that the counts a run works on are  *)
(* those of the uses still to come, and what tensor->data points to.       *)
(***************************************************************************)
EXTENDS GrefRun, FiniteSetTheorems, TLAPS

Produced == UNION {Elems(g.ops[k].out) : k \in 1 .. Len(g.ops)}

(* The part of the graph the loops of shl_gref_session_setup have walked. *)
ProducedBefore(t) ==
  \E k \in 1 .. Len(g.ops) : k < i /\ t \in Elems(g.ops[k].out)

CountedUses(t) == {u \in UsesOf(g, t) : u[1] < i \/ (u[1] = i /\ u[2] < j)}

CountedEntries(t) == {k \in OutEntries(g, t) : i > Len(g.ops) /\ k < j}

CountInv ==
  pc = "count" =>
    /\ i <= Len(g.ops) + 1
    /\ \A t \in Produced :
         rcInit[t] = Cardinality(CountedUses(t)) + Cardinality(CountedEntries(t))
                     + (IF ProducedBefore(t) THEN 1 ELSE 0)

SetupInv ==
  pc # "count" =>
    \A t \in Produced :
      rcInit[t] = Cardinality(UsesOf(g, t)) + Cardinality(OutEntries(g, t)) + 1

PositionInv == pc = "deinit" => i \in OpLayers(g)

(* Tensors that no op layer produces are not counted in a run. *)
RcZero == \A t \in Tensor \ OpTensors(g) : rc[t] = 0

DataOf ==
  \A t \in Tensor :
    data[t] = NoBuffer \/ \E w \in {"own", "user", "sub"}, r \in Nat : data[t] = <<w, t, r>>

InputHeld == \A t \in Elems(g.input) : data[t] = NoBuffer \/ data[t] \in heap

Past(k) == k < i \/ (k = i /\ pc = "deinit")

OpMemory(k) ==
  \A t \in Elems(g.plan[k].out) :
    data[t] = Own(t, run) /\ (data[t] \in heap <=> rc[t] > 0 \/ UsesOf(g, t) = {})

SubMemory(k) ==
  \A t \in Elems(g.plan[k].out) : data[t] = Sub(t, run) /\ data[t] \in heap

RunMemory ==
  Running =>
    /\ \A t \in Elems(g.input) : data[t] = User(t, run) /\ data[t] \in heap
    /\ \A k \in 1 .. Len(g.plan) :
         Past(k) => IF k \in OpLayers(g) THEN OpMemory(k) ELSE SubMemory(k)

IInv ==
  /\ TypeOK
  /\ CountInv
  /\ SetupInv
  /\ PositionInv
  /\ RefCountExact
  /\ RcZero
  /\ DataOf
  /\ InputHeld
  /\ RunMemory
-----------------------------------------------------------------------------
LEMMA IntervalFinite == \A n \in Nat : IsFiniteSet(1 .. n)
<1> SUFFICES ASSUME NEW n \in Nat PROVE IsFiniteSet(1 .. n)
  OBVIOUS
<1>1. 1 \in Int /\ n \in Int
  OBVIOUS
<1> QED
  BY ONLY <1>1, FS_Interval

(* The uses of a tensor and its entries in the output list are finite sets. *)
LEMMA UsesFinite ==
  ASSUME NEW x \in GraphRecord(Tensor), NEW t
  PROVE  IsFiniteSet(UsesOf(x, t)) /\ IsFiniteSet(OutEntries(x, t))
<1> DEFINE N == Len(x.ops)
           Row(k) == {<<k, l>> : l \in 1 .. Len(x.ops[k].in)}
           Rows == {Row(k) : k \in 1 .. N}
<1>1. N \in Nat /\ x.ops \in Seq(OpNode(Tensor)) /\ Len(x.output) \in Nat
  BY DEF GraphRecord
<1>2. ASSUME NEW k \in 1 .. N PROVE IsFiniteSet(Row(k))
  <2>1. Len(x.ops[k].in) \in Nat
    <3>1. x.ops[k] \in OpNode(Tensor)
      BY <1>1
    <3>2. x.ops[k].in \in Seq(Tensor)
      BY <3>1 DEF OpNode
    <3> QED
      BY <3>2
  <2> DEFINE I == 1 .. Len(x.ops[k].in)
             f == [l \in I |-> <<k, l>>]
  <2>2. IsFiniteSet(I)
    BY <2>1, IntervalFinite
  <2>3. f \in [I -> Row(k)] /\ \A r \in Row(k) : \E l \in I : f[l] = r
    <3> HIDE DEF I
    <3>1. Row(k) = {<<k, l>> : l \in I}
      BY DEF I
    <3> HIDE DEF Row
    <3> QED
      BY <3>1
  <2>4. f \in Surjection(I, Row(k))
    BY <2>3, Zenon DEF Surjection
  <2> QED
    BY <2>2, <2>4, FS_Surjection
<1>3. IsFiniteSet(Rows)
  <2> DEFINE f == [k \in 1 .. N |-> Row(k)]
  <2>1. IsFiniteSet(1 .. N)
    BY <1>1, IntervalFinite
  <2>2. f \in Surjection(1 .. N, Rows)
    BY DEF Surjection
  <2> QED
    BY <2>1, <2>2, FS_Surjection
<1>4. IsFiniteSet(UNION Rows)
  BY <1>2, <1>3, FS_UNION
<1>5. Uses(x) = UNION Rows
  BY DEF Uses
<1>6. IsFiniteSet(1 .. Len(x.output))
  BY <1>1, IntervalFinite
<1>7. IsFiniteSet(UsesOf(x, t))
  BY <1>4, <1>5, FS_Subset DEF UsesOf
<1> QED
  BY <1>6, <1>7, FS_Subset DEF OutEntries

(* Adding or removing one member changes the number of members by one. *)
LEMMA OneMore ==
  ASSUME NEW S, NEW T, NEW e, IsFiniteSet(S), e \notin S, T = S \cup {e}
  PROVE  Cardinality(T) = Cardinality(S) + 1 /\ Cardinality(S) \in Nat
BY FS_AddElement, FS_CardinalityType

LEMMA OneLess ==
  ASSUME NEW S, NEW T, NEW e, IsFiniteSet(S), e \in S, T = S \ {e}
  PROVE  Cardinality(S) = Cardinality(T) + 1 /\ Cardinality(T) \in Nat
<1>1. IsFiniteSet(T) /\ e \notin T /\ S = T \cup {e}
  BY FS_RemoveElement
<1> QED
  BY <1>1, OneMore
-----------------------------------------------------------------------------
(* Well-formedness of the session's graph in the form the steps use it. *)
LEMMA GraphTypes ==
  ASSUME GraphOK(g, Tensor)
  PROVE  /\ Len(g.ops) \in Nat /\ Len(g.plan) \in Nat /\ Len(g.output) \in Nat
         /\ Elems(g.input) \subseteq Tensor /\ Elems(g.output) \subseteq Tensor
         /\ \A k \in 1 .. Len(g.output) : g.output[k] \in Elems(g.output)
         /\ \A k \in 1 .. Len(g.ops) :
              /\ Len(g.ops[k].in) \in Nat
              /\ \A l \in 1 .. Len(g.ops[k].in) : g.ops[k].in[l] \in Elems(g.ops[k].in)
              /\ Elems(g.ops[k].in) \subseteq Tensor /\ Elems(g.ops[k].out) \subseteq Tensor
         /\ \A k \in 1 .. Len(g.plan) :
              /\ Len(g.plan[k].in) \in Nat
              /\ \A l \in 1 .. Len(g.plan[k].in) : g.plan[k].in[l] \in Elems(g.plan[k].in)
              /\ Elems(g.plan[k].in) \subseteq Tensor /\ Elems(g.plan[k].out) \subseteq Tensor
<1>1. g \in GraphRecord(Tensor)
  BY DEF GraphOK
<1>2. /\ g.ops \in Seq(OpNode(Tensor)) /\ g.input \in Seq(Tensor)
      /\ g.output \in Seq(Tensor) /\ g.plan \in Seq(Layer(Tensor))
  BY <1>1 DEF GraphRecord
<1>3. ASSUME NEW q \in Seq(Tensor)
      PROVE  /\ Len(q) \in Nat /\ Elems(q) \subseteq Tensor
             /\ \A l \in 1 .. Len(q) : q[l] \in Elems(q)
  BY DEF Elems
<1>4. ASSUME NEW k \in 1 .. Len(g.ops)
      PROVE  g.ops[k].in \in Seq(Tensor) /\ g.ops[k].out \in Seq(Tensor)
  <2>1. g.ops[k] \in OpNode(Tensor)
    BY <1>2
  <2> QED
    BY <2>1 DEF OpNode
<1>5. ASSUME NEW k \in 1 .. Len(g.plan)
      PROVE  g.plan[k].in \in Seq(Tensor) /\ g.plan[k].out \in Seq(Tensor)
  <2>1. g.plan[k] \in Layer(Tensor)
    BY <1>2
  <2> QED
    BY <2>1 DEF Layer
<1>6. Len(g.ops) \in Nat /\ Len(g.plan) \in Nat
  BY <1>2
<1>7. \A k \in 1 .. Len(g.ops) :
        /\ Len(g.ops[k].in) \in Nat
        /\ \A l \in 1 .. Len(g.ops[k].in) : g.ops[k].in[l] \in Elems(g.ops[k].in)
        /\ Elems(g.ops[k].in) \subseteq Tensor /\ Elems(g.ops[k].out) \subseteq Tensor
  BY <1>3, <1>4
<1>8. \A k \in 1 .. Len(g.plan) :
        /\ Len(g.plan[k].in) \in Nat
        /\ \A l \in 1 .. Len(g.plan[k].in) : g.plan[k].in[l] \in Elems(g.plan[k].in)
        /\ Elems(g.plan[k].in) \subseteq Tensor /\ Elems(g.plan[k].out) \subseteq Tensor
  BY <1>3, <1>5
<1>9. /\ Len(g.output) \in Nat
      /\ Elems(g.input) \subseteq Tensor /\ Elems(g.output) \subseteq Tensor
      /\ \A k \in 1 .. Len(g.output) : g.output[k] \in Elems(g.output)
  BY <1>2, <1>3
<1> QED
  BY <1>6, <1>7, <1>8, <1>9

LEMMA OpLayerFacts ==
  ASSUME GraphOK(g, Tensor), NEW k \in OpLayers(g)
  PROVE  /\ k \in 1 .. Len(g.plan)
         /\ g.plan[k].op \in 1 .. Len(g.ops)
         /\ g.plan[k].in = g.ops[g.plan[k].op].in
         /\ g.plan[k].out = g.ops[g.plan[k].op].out
         /\ LayerOf(g, g.plan[k].op) = {k}
<1>1. k \in 1 .. Len(g.plan) /\ g.plan[k].op # SubGraph
  BY DEF OpLayers
<1>2. LayerOK(g, k)
  BY <1>1 DEF GraphOK, PlanOK
<1> QED
  BY <1>1, <1>2 DEF LayerOK

LEMMA OpTensorFacts ==
  ASSUME GraphOK(g, Tensor)
  PROVE  /\ OpTensors(g) \subseteq Produced
         /\ OpTensors(g) \subseteq Tensor
         /\ OpTensors(g) \cap Elems(g.input) = {}
         /\ Produced \subseteq Tensor
         /\ Produced \cap Elems(g.input) = {}
<1>1. \A k \in OpLayers(g) :
         g.plan[k].op \in 1 .. Len(g.ops) /\ g.plan[k].out = g.ops[g.plan[k].op].out
  BY OpLayerFacts
<1>2. OpTensors(g) \subseteq Produced
  BY <1>1 DEF OpTensors, Produced
<1>3. Produced \subseteq Tensor
  BY GraphTypes DEF Produced
<1>4. Produced \cap Elems(g.input) = {}
  BY DEF GraphOK, BuildOK, Produced
<1> QED
  BY <1>2, <1>3, <1>4

(* The inputs of an op layer are uses of the built op it stands for. *)
LEMMA UseOfLayer ==
  ASSUME GraphOK(g, Tensor), NEW k \in OpLayers(g), NEW l \in 1 .. Len(g.plan[k].in)
  PROVE  <<g.plan[k].op, l>> \in UsesOf(g, g.plan[k].in[l])
<1>1. <<g.plan[k].op, l>> \in Uses(g)
  BY OpLayerFacts DEF Uses
<1> QED
  BY <1>1, OpLayerFacts DEF UsesOf, UsedTensor

(* The uses of a tensor, as pairs. *)
LEMMA UseShape ==
  ASSUME GraphOK(g, Tensor), NEW t, NEW u \in UsesOf(g, t)
  PROVE  /\ u = <<u[1], u[2]>>
         /\ u[1] \in 1 .. Len(g.ops) /\ u[2] \in 1 .. Len(g.ops[u[1]].in)
         /\ t = g.ops[u[1]].in[u[2]]
BY DEF UsesOf, Uses, UsedTensor

-----------------------------------------------------------------------------
LEMMA InitInv == Init => IInv
<1> SUFFICES ASSUME Init PROVE IInv
  OBVIOUS
<1> USE DEF Init
<1>1. GraphOK(g, Tensor)
  BY GraphAssumption
<1>2. TypeOK
  BY <1>1, MaxRunsAssumption DEF TypeOK, Buffer
<1>3. CountInv
  <2>1. ASSUME NEW t \in Produced
        PROVE  rcInit[t] = Cardinality(CountedUses(t)) + Cardinality(CountedEntries(t))
                           + (IF ProducedBefore(t) THEN 1 ELSE 0)
    <3>1. CountedUses(t) = {}
      BY <1>1, UseShape DEF CountedUses
    <3>2. CountedEntries(t) = {}
      BY DEF CountedEntries, OutEntries
    <3>3. ~ProducedBefore(t) /\ rcInit[t] = 0
      BY <1>1, OpTensorFacts DEF ProducedBefore
    <3> QED
      BY <3>1, <3>2, <3>3, FS_EmptySet
  <2>2. i <= Len(g.ops) + 1
    BY <1>1, GraphTypes
  <2> QED
    BY <2>1, <2>2 DEF CountInv
<1>4. SetupInv /\ PositionInv /\ RefCountExact /\ RunMemory
  BY DEF SetupInv, PositionInv, RefCountExact, RunMemory, Running
<1>5. RcZero /\ DataOf /\ InputHeld
  BY <1>1, GraphTypes DEF RcZero, DataOf, InputHeld
<1> QED
  BY <1>2, <1>3, <1>4, <1>5 DEF IInv

-----------------------------------------------------------------------------
(* The counting loops. *)
LEMMA CountedFinite ==
  ASSUME TypeOK, NEW t
  PROVE  /\ IsFiniteSet(CountedUses(t)) /\ Cardinality(CountedUses(t)) \in Nat
         /\ IsFiniteSet(CountedEntries(t)) /\ Cardinality(CountedEntries(t)) \in Nat
<1>1. IsFiniteSet(UsesOf(g, t)) /\ IsFiniteSet(OutEntries(g, t))
  BY UsesFinite DEF TypeOK, GraphOK
<1>2. IsFiniteSet(CountedUses(t)) /\ IsFiniteSet(CountedEntries(t))
  BY <1>1, FS_Subset DEF CountedUses, CountedEntries
<1> QED
  BY <1>2, FS_CardinalityType

LEMMA CountInInv == IInv /\ CountIn => IInv'
<1> SUFFICES ASSUME IInv, CountIn PROVE IInv'
  OBVIOUS
<1> DEFINE u0 == <<i, j>>
           t0 == g.ops[i].in[j]
<1>1. TypeOK /\ GraphOK(g, Tensor) /\ pc = "count"
  BY DEF IInv, TypeOK, CountIn
<1>2. /\ i \in 1 .. Len(g.ops) /\ j \in 1 .. Len(g.ops[i].in)
      /\ t0 \in Elems(g.ops[i].in) /\ t0 \in Tensor
  BY <1>1, GraphTypes DEF CountIn, TypeOK
<1>3. TypeOK'
  <2>1. j' \in Nat \ {0} /\ rcInit' \in [Tensor -> Nat]
    <3> HIDE DEF t0
    <3>1. /\ j \in Nat \ {0} /\ rcInit \in [Tensor -> Nat] /\ j' = j + 1
          /\ rcInit' = [rcInit EXCEPT ![t0] = IF @ > 0 THEN @ + 1 ELSE @]
      BY <1>1 DEF TypeOK, CountIn, t0
    <3> QED
      BY <1>2, <3>1
  <2> QED
    BY <1>1, <2>1 DEF TypeOK, CountIn
<1>4. Produced' = Produced
  BY DEF Produced, CountIn
<1>5. ASSUME NEW t \in Produced
      PROVE  rcInit'[t] = Cardinality(CountedUses(t)') + Cardinality(CountedEntries(t)')
                          + (IF ProducedBefore(t)' THEN 1 ELSE 0)
  <2>1. /\ rcInit[t] = Cardinality(CountedUses(t)) + Cardinality(CountedEntries(t))
                        + (IF ProducedBefore(t) THEN 1 ELSE 0)
        /\ t \in Tensor /\ rcInit[t] \in Nat
    BY <1>1, OpTensorFacts DEF IInv, CountInv, TypeOK
  <2>2. CountedEntries(t)' = CountedEntries(t)
    BY <1>2 DEF CountedEntries, CountIn
  <2>3. ProducedBefore(t)' <=> ProducedBefore(t)
    BY DEF ProducedBefore, CountIn
  <2>4. CASE t = t0
    <3>1. u0 \in UsesOf(g, t)
      BY <1>2, <2>4 DEF UsesOf, Uses, UsedTensor
    <3>2. CountedUses(t)' = CountedUses(t) \cup {u0}
      <4>1. ASSUME NEW u \in UsesOf(g, t)
            PROVE  (u[1] < i \/ (u[1] = i /\ u[2] < j + 1))
                   <=> (u[1] < i \/ (u[1] = i /\ u[2] < j) \/ u = u0)
        BY <1>1, <1>2, UseShape
      <4> QED
        BY <3>1, <4>1 DEF CountedUses, CountIn
    <3>3. u0 \notin CountedUses(t)
      BY <1>2 DEF CountedUses
    <3>4. ProducedBefore(t)
      <4>1. t \notin Elems(g.input)
        BY <1>1, OpTensorFacts
      <4>2. PICK k \in 1 .. i - 1 : t \in Elems(g.ops[k].out)
        BY <1>1, <1>2, <2>4, <4>1 DEF GraphOK, BuildOK
      <4> QED
        BY <1>1, <1>2, <4>2, GraphTypes DEF ProducedBefore
    <3>5. rcInit[t] > 0
      BY <1>1, <2>1, <3>4, CountedFinite
    <3>6. rcInit'[t] = rcInit[t] + 1
      BY <1>1, <2>1, <2>4, <3>5 DEF CountIn, TypeOK
    <3> QED
      BY <1>1, <2>1, <2>2, <2>3, <3>2, <3>3, <3>6, CountedFinite, OneMore
  <2>5. CASE t # t0
    <3>1. CountedUses(t)' = CountedUses(t)
      <4>1. ASSUME NEW u \in UsesOf(g, t)
            PROVE  (u[1] < i \/ (u[1] = i /\ u[2] < j + 1))
                   <=> (u[1] < i \/ (u[1] = i /\ u[2] < j))
        BY <1>1, <1>2, <2>5, UseShape
      <4> QED
        BY <4>1 DEF CountedUses, CountIn
    <3>2. rcInit'[t] = rcInit[t]
      BY <1>1, <2>1, <2>5 DEF CountIn, TypeOK
    <3> QED
      BY <2>1, <2>2, <2>3, <3>1, <3>2
  <2> QED
    BY <2>4, <2>5
<1>6. CountInv'
  BY <1>2, <1>4, <1>5 DEF CountInv, CountIn
<1>7. SetupInv' /\ PositionInv' /\ RefCountExact' /\ RunMemory'
  BY <1>1 DEF SetupInv, PositionInv, RefCountExact, RunMemory, Running, CountIn
<1>8. RcZero' /\ DataOf' /\ InputHeld'
  BY DEF IInv, RcZero, DataOf, InputHeld, CountIn
<1> QED
  BY <1>3, <1>6, <1>7, <1>8 DEF IInv

LEMMA CountOutInv == IInv /\ CountOut => IInv'
<1> SUFFICES ASSUME IInv, CountOut PROVE IInv'
  OBVIOUS
<1>1. TypeOK /\ GraphOK(g, Tensor) /\ pc = "count"
  BY DEF IInv, TypeOK, CountOut
<1>2. /\ i \in 1 .. Len(g.ops) /\ Len(g.ops) \in Nat
      /\ j > Len(g.ops[i].in) /\ j \in Nat /\ Len(g.ops[i].in) \in Nat
  BY <1>1, GraphTypes DEF CountOut, TypeOK
<1>3. TypeOK'
  BY <1>1, <1>2 DEF TypeOK, CountOut
<1>4. Produced' = Produced
  BY DEF Produced, CountOut
<1>5. ASSUME NEW t \in Produced
      PROVE  rcInit'[t] = Cardinality(CountedUses(t)') + Cardinality(CountedEntries(t)')
                          + (IF ProducedBefore(t)' THEN 1 ELSE 0)
  <2>1. /\ rcInit[t] = Cardinality(CountedUses(t)) + Cardinality(CountedEntries(t))
                        + (IF ProducedBefore(t) THEN 1 ELSE 0)
        /\ t \in Tensor /\ rcInit[t] \in Nat
    BY <1>1, OpTensorFacts DEF IInv, CountInv, TypeOK
  <2>2. CountedEntries(t)' = {} /\ CountedEntries(t) = {}
    BY <1>2 DEF CountedEntries, OutEntries, CountOut
  <2>3. CountedUses(t)' = CountedUses(t)
    <3>1. ASSUME NEW u \in UsesOf(g, t)
          PROVE  (u[1] < i + 1 \/ (u[1] = i + 1 /\ u[2] < 1))
                 <=> (u[1] < i \/ (u[1] = i /\ u[2] < j))
      BY <1>1, <1>2, UseShape
    <3> QED
      BY <3>1 DEF CountedUses, CountOut
  <2>4. t \in Elems(g.ops[i].out) => ~ProducedBefore(t)
    <3>1. ASSUME NEW k \in 1 .. Len(g.ops), k # i
          PROVE  Elems(g.ops[k].out) \cap Elems(g.ops[i].out) = {}
      BY <1>1, <1>2, <3>1 DEF GraphOK, BuildOK
    <3> QED
      BY <1>2, <3>1 DEF ProducedBefore
  <2>5. ProducedBefore(t)' <=> ProducedBefore(t) \/ t \in Elems(g.ops[i].out)
    BY <1>2 DEF ProducedBefore, CountOut
  <2>6. rcInit'[t] = IF t \in Elems(g.ops[i].out) THEN rcInit[t] + 1 ELSE rcInit[t]
    BY <2>1 DEF CountOut
  <2>7. CASE t \in Elems(g.ops[i].out)
    <3>1. rcInit'[t] = rcInit[t] + 1 /\ ~ProducedBefore(t) /\ ProducedBefore(t)'
      BY <2>4, <2>5, <2>6, <2>7
    <3>2. rcInit[t] = Cardinality(CountedUses(t)) + Cardinality(CountedEntries(t))
      BY <1>1, <2>1, <3>1, CountedFinite
    <3>3. /\ Cardinality(CountedUses(t)') = Cardinality(CountedUses(t))
          /\ Cardinality(CountedEntries(t)') = Cardinality(CountedEntries(t))
      BY <2>2, <2>3
    <3> QED
      BY <3>1, <3>2, <3>3
  <2>8. CASE t \notin Elems(g.ops[i].out)
    <3>1. rcInit'[t] = rcInit[t] /\ (ProducedBefore(t)' <=> ProducedBefore(t))
      BY <2>5, <2>6, <2>8
    <3> QED
      BY <2>1, <2>2, <2>3, <3>1
  <2> QED
    BY <2>7, <2>8
<1>6. CountInv'
  <2>1. i' <= Len(g.ops') + 1
    BY <1>2 DEF CountOut
  <2> QED
    BY <1>4, <1>5, <2>1 DEF CountInv
<1>7. SetupInv' /\ PositionInv' /\ RefCountExact' /\ RunMemory'
  BY <1>1 DEF SetupInv, PositionInv, RefCountExact, RunMemory, Running, CountOut
<1>8. RcZero' /\ DataOf' /\ InputHeld'
  BY DEF IInv, RcZero, DataOf, InputHeld, CountOut
<1> QED
  BY <1>3, <1>6, <1>7, <1>8 DEF IInv

LEMMA CountGraphOutputInv == IInv /\ CountGraphOutput => IInv'
<1> SUFFICES ASSUME IInv, CountGraphOutput PROVE IInv'
  OBVIOUS
<1> DEFINE t0 == g.output[j]
<1>1. TypeOK /\ GraphOK(g, Tensor) /\ pc = "count"
  BY DEF IInv, TypeOK, CountGraphOutput
<1>2. /\ i \in Nat /\ Len(g.ops) \in Nat /\ i > Len(g.ops)
      /\ j \in 1 .. Len(g.output) /\ t0 \in Tensor
  BY <1>1, GraphTypes DEF CountGraphOutput, TypeOK
<1>3. TypeOK'
  BY <1>1, <1>2 DEF TypeOK, CountGraphOutput
<1>4. Produced' = Produced
  BY DEF Produced, CountGraphOutput
<1>5. ASSUME NEW t \in Produced
      PROVE  rcInit'[t] = Cardinality(CountedUses(t)') + Cardinality(CountedEntries(t)')
                          + (IF ProducedBefore(t)' THEN 1 ELSE 0)
  <2>1. /\ rcInit[t] = Cardinality(CountedUses(t)) + Cardinality(CountedEntries(t))
                        + (IF ProducedBefore(t) THEN 1 ELSE 0)
        /\ t \in Tensor /\ rcInit[t] \in Nat
    BY <1>1, OpTensorFacts DEF IInv, CountInv, TypeOK
  <2>2. CountedUses(t)' = CountedUses(t)
    <3>1. ASSUME NEW u \in UsesOf(g, t)
          PROVE  (u[1] < i \/ (u[1] = i /\ u[2] < j + 1))
                 <=> (u[1] < i \/ (u[1] = i /\ u[2] < j))
      BY <1>1, <1>2, UseShape
    <3> QED
      BY <3>1 DEF CountedUses, CountGraphOutput
  <2>3. ProducedBefore(t)' <=> ProducedBefore(t)
    BY DEF ProducedBefore, CountGraphOutput
  <2>4. CASE t = t0
    <3>1. CountedEntries(t)' = CountedEntries(t) \cup {j} /\ j \notin CountedEntries(t)
      BY <1>2, <2>4 DEF CountedEntries, OutEntries, CountGraphOutput
    <3>2. rcInit'[t] = rcInit[t] + 1
      BY <1>1, <2>1, <2>4 DEF CountGraphOutput, TypeOK
    <3> QED
      BY <1>1, <2>1, <2>2, <2>3, <3>1, <3>2, CountedFinite, OneMore
  <2>5. CASE t # t0
    <3>1. CountedEntries(t)' = CountedEntries(t)
      BY <1>2, <2>5 DEF CountedEntries, OutEntries, CountGraphOutput
    <3>2. rcInit'[t] = rcInit[t]
      BY <1>1, <2>1, <2>5 DEF CountGraphOutput, TypeOK
    <3> QED
      BY <2>1, <2>2, <2>3, <3>1, <3>2
  <2> QED
    BY <2>4, <2>5
<1>6. CountInv'
  BY <1>1, <1>4, <1>5 DEF CountInv, CountGraphOutput, IInv
<1>7. SetupInv' /\ PositionInv' /\ RefCountExact' /\ RunMemory'
  BY <1>1 DEF SetupInv, PositionInv, RefCountExact, RunMemory, Running, CountGraphOutput
<1>8. RcZero' /\ DataOf' /\ InputHeld'
  BY DEF IInv, RcZero, DataOf, InputHeld, CountGraphOutput
<1> QED
  BY <1>3, <1>6, <1>7, <1>8 DEF IInv

LEMMA SetupDoneInv == IInv /\ SetupDone => IInv'
<1> SUFFICES ASSUME IInv, SetupDone PROVE IInv'
  OBVIOUS
<1>1. TypeOK /\ GraphOK(g, Tensor) /\ pc = "count" /\ pc' = "idle"
  BY DEF IInv, TypeOK, SetupDone
<1>2. /\ i \in Nat /\ Len(g.ops) \in Nat /\ i > Len(g.ops)
      /\ j \in Nat /\ Len(g.output) \in Nat /\ j > Len(g.output)
  BY <1>1, GraphTypes DEF SetupDone, TypeOK
<1>3. TypeOK'
  BY <1>1 DEF TypeOK, SetupDone
<1>4. ASSUME NEW t \in Produced
      PROVE  rcInit[t] = Cardinality(UsesOf(g, t)) + Cardinality(OutEntries(g, t)) + 1
  <2>1. CountedUses(t) = UsesOf(g, t)
    <3>1. ASSUME NEW u \in UsesOf(g, t) PROVE u[1] < i
      BY <1>1, <1>2, UseShape
    <3> QED
      BY <3>1 DEF CountedUses
  <2>2. CountedEntries(t) = OutEntries(g, t)
    BY <1>2 DEF CountedEntries, OutEntries
  <2>3. ProducedBefore(t)
    BY <1>2 DEF ProducedBefore, Produced
  <2> QED
    BY <1>1, <2>1, <2>2, <2>3 DEF IInv, CountInv
<1>5. SetupInv'
  <2>1. g' = g /\ rcInit' = rcInit
    BY DEF SetupDone
  <2>2. Produced' = Produced
    BY <2>1, Zenon DEF Produced
  <2> QED
    BY <1>4, <2>1, <2>2, Zenon DEF SetupInv, UsesOf, OutEntries
<1>6. CountInv' /\ PositionInv' /\ RefCountExact' /\ RunMemory'
  BY <1>1 DEF CountInv, PositionInv, RefCountExact, RunMemory, Running
<1>7. RcZero' /\ DataOf' /\ InputHeld'
  BY DEF IInv, RcZero, DataOf, InputHeld, SetupDone
<1> QED
  BY <1>3, <1>5, <1>6, <1>7 DEF IInv

-----------------------------------------------------------------------------
(* Pointers of different tensors never name the same buffer. *)
LEMMA BuffersApart ==
  ASSUME DataOf, TypeOK, NEW s \in Tensor, NEW t \in Tensor, s # t, data[s] \in heap
  PROVE  data[s] # data[t]
<1>1. data[s] \in Buffer
  BY DEF TypeOK
<1>2. data[s] # NoBuffer
  BY <1>1 DEF Buffer, NoBuffer
<1>3. PICK w \in {"own", "user", "sub"}, r \in Nat : data[s] = <<w, s, r>>
  BY <1>2 DEF DataOf
<1>4. CASE data[t] = NoBuffer
  BY <1>2, <1>4
<1>5. CASE \E v \in {"own", "user", "sub"}, q \in Nat : data[t] = <<v, t, q>>
  BY <1>3, <1>5
<1> QED
  BY <1>4, <1>5 DEF DataOf

LEMMA UpdateInputInv ==
  ASSUME NEW t0 \in Elems(g.input)
  PROVE  IInv /\ UpdateInput(t0) => IInv'
<1> SUFFICES ASSUME IInv, UpdateInput(t0) PROVE IInv'
  OBVIOUS
<1>1. /\ TypeOK /\ GraphOK(g, Tensor) /\ pc = "idle" /\ pc' = "idle"
      /\ t0 \in Tensor /\ run + 1 \in Nat
  BY GraphTypes, MaxRunsAssumption DEF IInv, TypeOK, UpdateInput
<1>2. User(t0, run + 1) \in Buffer
  BY <1>1 DEF User, Buffer
<1>3. TypeOK'
  BY <1>1, <1>2 DEF TypeOK, UpdateInput
<1>4. CountInv' /\ PositionInv' /\ RefCountExact' /\ RunMemory'
  BY <1>1 DEF CountInv, PositionInv, RefCountExact, RunMemory, Running
<1>5. SetupInv' /\ RcZero'
  BY <1>1 DEF IInv, SetupInv, RcZero, UpdateInput, Produced
<1>6. \A t \in Tensor : data'[t] = IF t = t0 THEN User(t0, run + 1) ELSE data[t]
  BY <1>1 DEF UpdateInput, TypeOK
<1>7. DataOf'
  BY <1>1, <1>6 DEF IInv, DataOf, User
<1>8. InputHeld'
  <2> SUFFICES ASSUME NEW t \in Elems(g.input) PROVE data'[t] = NoBuffer \/ data'[t] \in heap'
    BY DEF InputHeld, UpdateInput
  <2>1. t \in Tensor
    BY <1>1, GraphTypes
  <2>2. CASE t = t0
    BY <1>6, <2>1, <2>2 DEF UpdateInput
  <2>3. CASE t # t0
    BY <1>1, <1>6, <2>1, <2>3, BuffersApart DEF IInv, InputHeld, UpdateInput
  <2> QED
    BY <2>2, <2>3
<1> QED
  BY <1>3, <1>4, <1>5, <1>7, <1>8 DEF IInv

LEMMA ReleaseOutputsInv == IInv /\ ReleaseOutputs => IInv'
<1> SUFFICES ASSUME IInv, ReleaseOutputs PROVE IInv'
  OBVIOUS
<1>1. TypeOK /\ GraphOK(g, Tensor) /\ pc = "idle" /\ pc' = "idle"
  BY DEF IInv, TypeOK, ReleaseOutputs
<1>2. TypeOK'
  BY <1>1 DEF TypeOK, ReleaseOutputs
<1>3. CountInv' /\ PositionInv' /\ RefCountExact' /\ RunMemory'
  BY <1>1 DEF CountInv, PositionInv, RefCountExact, RunMemory, Running
<1>4. SetupInv' /\ RcZero' /\ DataOf'
  BY <1>1 DEF IInv, SetupInv, RcZero, DataOf, ReleaseOutputs, Produced
<1>5. InputHeld'
  <2> SUFFICES ASSUME NEW t \in Elems(g.input), data[t] \in heap PROVE data[t] \in heap'
    BY DEF IInv, InputHeld, ReleaseOutputs
  <2>1. t \in Tensor /\ t \notin OpTensors(g) /\ OpTensors(g) \subseteq Tensor
    BY <1>1, GraphTypes, OpTensorFacts
  <2>2. ASSUME NEW s \in Elems(g.output) \cap OpTensors(g) PROVE data[t] # data[s]
    BY <1>1, <2>1, BuffersApart DEF IInv
  <2> QED
    BY <2>2 DEF ReleaseOutputs
<1> QED
  BY <1>2, <1>3, <1>4, <1>5 DEF IInv

-----------------------------------------------------------------------------
(* A run. *)
LEMMA UnconsumedFinite ==
  ASSUME TypeOK, NEW t
  PROVE  /\ IsFiniteSet(Unconsumed(t)) /\ Cardinality(Unconsumed(t)) \in Nat
         /\ IsFiniteSet(OutEntries(g, t)) /\ Cardinality(OutEntries(g, t)) \in Nat
<1>1. IsFiniteSet(UsesOf(g, t)) /\ IsFiniteSet(OutEntries(g, t))
  BY UsesFinite DEF TypeOK, GraphOK
<1>2. IsFiniteSet(Unconsumed(t))
  BY <1>1, FS_Subset DEF Unconsumed
<1> QED
  BY <1>1, <1>2, FS_CardinalityType

LEMMA SessionRunInv == IInv /\ SessionRun => IInv'
<1> SUFFICES ASSUME IInv, SessionRun PROVE IInv'
  OBVIOUS
<1>1. TypeOK /\ GraphOK(g, Tensor) /\ pc = "idle" /\ pc' = "layer" /\ i' = 1 /\ j' = 1
  BY DEF IInv, TypeOK, SessionRun
<1>2. TypeOK'
  BY <1>1, MaxRunsAssumption DEF TypeOK, SessionRun
<1>3. CountInv' /\ PositionInv'
  BY <1>1 DEF CountInv, PositionInv
<1>4. SetupInv' /\ DataOf' /\ InputHeld'
  BY <1>1 DEF IInv, SetupInv, DataOf, InputHeld, SessionRun, Produced
<1>5. RcZero'
  BY DEF IInv, RcZero, SessionRun
<1>6. RefCountExact'
  <2>1. ASSUME NEW t \in OpTensors(g)
        PROVE  rc'[t] = Cardinality(Unconsumed(t)') + Cardinality(OutEntries(g, t))
                        + (IF ProducerHolds(t)' THEN 1 ELSE 0)
    <3>1. rc'[t] = Cardinality(UsesOf(g, t)) + Cardinality(OutEntries(g, t)) + 1
      BY <1>1, OpTensorFacts DEF IInv, SetupInv, SessionRun
    <3>2. Unconsumed(t)' = UsesOf(g, t)
      <4>1. ASSUME NEW k \in OpLayers(g) PROVE ~(k < 1)
        BY DEF OpLayers
      <4>2. ASSUME NEW u \in UsesOf(g, t) PROVE ~Consumed(u)'
        BY <1>1, <4>1 DEF Consumed, LayerOf, SessionRun
      <4> QED
        BY <4>2 DEF Unconsumed, SessionRun
    <3>3. ProducerHolds(t)'
      BY <1>1 DEF ProducerHolds, OpTensors, OpLayers, SessionRun
    <3> QED
      BY <3>1, <3>2, <3>3
  <2> QED
    BY <2>1 DEF RefCountExact, SessionRun
<1>7. RunMemory'
  <2>1. ASSUME NEW t \in Elems(g.input)
        PROVE  data'[t] = User(t, run') /\ data'[t] \in heap'
    <3>1. data[t] = User(t, run + 1)
      BY DEF SessionRun, InputsReady
    <3>2. data[t] # NoBuffer
      BY <3>1 DEF User, NoBuffer
    <3> QED
      BY <3>1, <3>2 DEF IInv, InputHeld, SessionRun
  <2>2. \A k \in 1 .. Len(g.plan) : ~Past(k)'
    BY <1>1 DEF Past
  <2> QED
    BY <2>1, <2>2 DEF RunMemory, SessionRun
<1> QED
  BY <1>2, <1>3, <1>4, <1>5, <1>6, <1>7 DEF IInv

LEMMA PlanFacts ==
  ASSUME GraphOK(g, Tensor)
  PROVE  /\ \A k, l \in 1 .. Len(g.plan) :
              k # l => Elems(g.plan[k].out) \cap Elems(g.plan[l].out) = {}
         /\ \A k \in 1 .. Len(g.plan) : \A t \in Elems(g.plan[k].in) :
              \/ t \in Elems(g.input)
              \/ \E l \in 1 .. k - 1 : t \in Elems(g.plan[l].out)
         /\ \A k \in OpLayers(g) : Elems(g.plan[k].out) \subseteq OpTensors(g)
         /\ \A k \in (1 .. Len(g.plan)) \ OpLayers(g) :
              /\ Elems(g.plan[k].out) \cap Elems(g.input) = {}
              /\ Elems(g.plan[k].out) \cap OpTensors(g) = {}
<1>1. \A k, l \in 1 .. Len(g.plan) :
        k # l => Elems(g.plan[k].out) \cap Elems(g.plan[l].out) = {}
  BY DEF GraphOK, PlanOK
<1>2. \A k \in 1 .. Len(g.plan) : \A t \in Elems(g.plan[k].in) :
        \/ t \in Elems(g.input)
        \/ \E l \in 1 .. k - 1 : t \in Elems(g.plan[l].out)
  BY DEF GraphOK, PlanOK
<1>3. \A k \in OpLayers(g) : Elems(g.plan[k].out) \subseteq OpTensors(g)
  BY DEF OpTensors
<1>4. ASSUME NEW k \in (1 .. Len(g.plan)) \ OpLayers(g)
      PROVE  /\ Elems(g.plan[k].out) \cap Elems(g.input) = {}
             /\ Elems(g.plan[k].out) \cap OpTensors(g) = {}
  <2>1. LayerOK(g, k) /\ g.plan[k].op = SubGraph
    BY <1>4 DEF GraphOK, PlanOK, OpLayers
  <2>2. SubGraph \notin 1 .. Len(g.ops)
    BY GraphTypes DEF SubGraph
  <2>3. Elems(g.plan[k].out) \cap Elems(g.input) = {}
    BY <2>1, <2>2 DEF LayerOK
  <2>4. \A l \in OpLayers(g) : l \in 1 .. Len(g.plan) /\ l # k
    BY <1>4 DEF OpLayers
  <2>5. Elems(g.plan[k].out) \cap OpTensors(g) = {}
    BY <1>1, <2>4 DEF OpTensors
  <2> QED
    BY <2>3, <2>5
<1> QED
  BY <1>1, <1>2, <1>3, <1>4

LEMMA OpRunInv == IInv /\ OpRun => IInv'
<1> SUFFICES ASSUME IInv, OpRun PROVE IInv'
  OBVIOUS
<1> DEFINE outs == Elems(g.plan[i].out)
<1>1. /\ TypeOK /\ GraphOK(g, Tensor) /\ pc = "layer" /\ pc' = "deinit" /\ j' = 1
      /\ i \in OpLayers(g) /\ i' = i /\ g' = g /\ run' = run /\ rc' = rc /\ rcInit' = rcInit
  BY DEF IInv, TypeOK, OpRun
<1>2. outs \subseteq Tensor /\ outs \subseteq OpTensors(g) /\ i \in 1 .. Len(g.plan)
  BY <1>1, GraphTypes, PlanFacts, OpLayerFacts
<1>3. /\ heap' = heap \cup {Own(t, run) : t \in outs}
      /\ \A t \in Tensor : data'[t] = IF t \in outs THEN Own(t, run) ELSE data[t]
  BY DEF OpRun
<1>4. TypeOK'
  <2>1. run \in Nat
    BY <1>1, MaxRunsAssumption DEF TypeOK
  <2>2. \A t \in outs : Own(t, run) \in Buffer
    BY <1>2, <2>1 DEF Own, Buffer
  <2>3. heap' \in SUBSET Buffer
    BY <1>1, <1>3, <2>2 DEF TypeOK
  <2>4. data' \in [Tensor -> Buffer \cup {NoBuffer}]
    BY <1>1, <2>2 DEF TypeOK, OpRun
  <2> QED
    BY <1>1, <2>3, <2>4 DEF TypeOK
<1>5. CountInv' /\ PositionInv' /\ SetupInv' /\ RcZero'
  BY <1>1 DEF IInv, CountInv, PositionInv, SetupInv, RcZero, Produced
<1>6. RefCountExact'
  <2>1. ASSUME NEW t \in OpTensors(g) PROVE Unconsumed(t)' = Unconsumed(t)
    <3>1. ASSUME NEW u \in UsesOf(g, t) PROVE Consumed(u)' <=> Consumed(u)
      BY <1>1, UseShape DEF Consumed
    <3> QED
      BY <1>1, <3>1 DEF Unconsumed
  <2>2. ASSUME NEW t PROVE ProducerHolds(t)' <=> ProducerHolds(t)
    BY <1>1 DEF ProducerHolds
  <2> QED
    BY <1>1, <2>1, <2>2 DEF IInv, RefCountExact, Running
<1>7. DataOf'
  <2>1. run \in Nat
    BY <1>1, MaxRunsAssumption DEF TypeOK
  <2>2. ASSUME NEW t \in Tensor
        PROVE  data'[t] = NoBuffer
               \/ \E w \in {"own", "user", "sub"}, r \in Nat : data'[t] = <<w, t, r>>
    <3>1. CASE t \in outs
      BY <1>3, <2>1, <3>1 DEF Own
    <3>2. CASE t \notin outs
      BY <1>3, <3>2 DEF IInv, DataOf
    <3> QED
      BY <3>1, <3>2
  <2> QED
    BY <2>2 DEF DataOf
<1>8. \A t \in Elems(g.input) : t \in Tensor /\ t \notin outs /\ data'[t] = data[t]
  BY <1>1, <1>2, <1>3, GraphTypes, OpTensorFacts
<1>9. InputHeld'
  BY <1>1, <1>3, <1>8 DEF IInv, InputHeld
<1>10. RunMemory'
  <2>1. \A t \in Elems(g.input) : data'[t] = User(t, run) /\ data'[t] \in heap'
    BY <1>1, <1>3, <1>8 DEF IInv, RunMemory, Running
  <2>2. ASSUME NEW k \in 1 .. Len(g.plan), k < i, NEW t \in Elems(g.plan[k].out)
        PROVE  /\ data'[t] = data[t]
               /\ data[t] \in {Own(t, run), Sub(t, run)}
               /\ data'[t] \in heap' <=> data[t] \in heap
               /\ IF k \in OpLayers(g)
                    THEN data[t] = Own(t, run) /\ (data[t] \in heap <=> rc[t] > 0 \/ UsesOf(g, t) = {})
                    ELSE data[t] = Sub(t, run) /\ data[t] \in heap
    <3>0. t \in Tensor
      BY <1>1, <2>2, GraphTypes
    <3>1. t \in Tensor /\ t \notin outs
      <4>1. k # i /\ i \in 1 .. Len(g.plan)
        BY <1>1, <1>2, <2>2
      <4>2. Elems(g.plan[k].out) \cap outs = {}
        BY <1>1, <4>1, PlanFacts
      <4> QED
        BY <3>0, <4>2, <2>2
    <3>2. Past(k)
      BY <2>2 DEF Past
    <3>3. IF k \in OpLayers(g)
            THEN data[t] = Own(t, run) /\ (data[t] \in heap <=> rc[t] > 0 \/ UsesOf(g, t) = {})
            ELSE data[t] = Sub(t, run) /\ data[t] \in heap
      BY <1>1, <3>2 DEF IInv, RunMemory, Running, OpMemory, SubMemory
    <3>4. data[t] \in {Own(t, run), Sub(t, run)}
      BY <3>3
    <3>5. \A s \in outs : Own(s, run) # data[t]
      BY <3>1, <3>4 DEF Own, Sub
    <3> QED
      BY <1>3, <3>1, <3>3, <3>4, <3>5
  <2>3. ASSUME NEW t \in outs
        PROVE  data'[t] = Own(t, run) /\ data'[t] \in heap' /\ rc[t] > 0
    <3>1. ProducerHolds(t) /\ t \in OpTensors(g)
      BY <1>1, <1>2 DEF ProducerHolds, TypeOK
    <3>2. rc[t] > 0
      BY <1>1, <3>1, UnconsumedFinite DEF IInv, RefCountExact, Running
    <3> QED
      BY <1>2, <1>3, <3>2
  <2>4. ASSUME NEW k \in 1 .. Len(g.plan), Past(k)'
        PROVE  (IF k \in OpLayers(g) THEN OpMemory(k) ELSE SubMemory(k))'
    <3>1. CASE k < i
      BY <1>1, <2>2, <3>1 DEF OpMemory, SubMemory
    <3>2. CASE k = i
      BY <1>1, <2>3, <3>2 DEF OpMemory
    <3> QED
      BY <1>1, <2>4, <3>1, <3>2 DEF Past
  <2> QED
    BY <1>1, <2>1, <2>4 DEF RunMemory
<1> QED
  BY <1>4, <1>5, <1>6, <1>7, <1>9, <1>10 DEF IInv

LEMMA SubRunInv == IInv /\ SubRun => IInv'
<1> SUFFICES ASSUME IInv, SubRun PROVE IInv'
  OBVIOUS
<1> DEFINE outs == Elems(g.plan[i].out)
<1>1. /\ TypeOK /\ GraphOK(g, Tensor) /\ pc = "layer" /\ pc' = "layer"
      /\ i \in (1 .. Len(g.plan)) \ OpLayers(g) /\ i' = i + 1
      /\ g' = g /\ run' = run /\ rc' = rc /\ rcInit' = rcInit
  BY DEF IInv, TypeOK, SubRun
<1>2. outs \subseteq Tensor /\ outs \cap OpTensors(g) = {} /\ outs \cap Elems(g.input) = {}
  BY <1>1, GraphTypes, PlanFacts
<1>3. /\ heap' = (heap \ {data[t] : t \in outs}) \cup {Sub(t, run) : t \in outs}
      /\ \A t \in Tensor : data'[t] = IF t \in outs THEN Sub(t, run) ELSE data[t]
  BY DEF SubRun
<1>4. TypeOK'
  <2>1. run \in Nat
    BY <1>1, MaxRunsAssumption DEF TypeOK
  <2>2. \A t \in outs : Sub(t, run) \in Buffer
    BY <1>2, <2>1 DEF Sub, Buffer
  <2>3. heap' \in SUBSET Buffer
    BY <1>1, <1>3, <2>2 DEF TypeOK
  <2>4. data' \in [Tensor -> Buffer \cup {NoBuffer}]
    BY <1>1, <2>2 DEF TypeOK, SubRun
  <2> QED
    BY <1>1, <2>3, <2>4 DEF TypeOK, SubRun
<1>5. CountInv' /\ PositionInv' /\ SetupInv' /\ RcZero'
  BY <1>1 DEF IInv, CountInv, PositionInv, SetupInv, RcZero, Produced
<1>6. RefCountExact'
  <2>0. \A k \in OpLayers(g) : k \in Nat /\ k # i
    BY <1>1 DEF OpLayers
  <2>1. ASSUME NEW t \in OpTensors(g) PROVE Unconsumed(t)' = Unconsumed(t)
    <3>1. ASSUME NEW u \in UsesOf(g, t) PROVE Consumed(u)' <=> Consumed(u)
      BY <1>1, <2>0 DEF Consumed, LayerOf
    <3> QED
      BY <1>1, <3>1 DEF Unconsumed
  <2>2. ASSUME NEW t PROVE ProducerHolds(t)' <=> ProducerHolds(t)
    BY <1>1, <2>0 DEF ProducerHolds
  <2> QED
    BY <1>1, <2>1, <2>2 DEF IInv, RefCountExact, Running
<1>7. DataOf'
  <2>1. run \in Nat
    BY <1>1, MaxRunsAssumption DEF TypeOK
  <2>2. ASSUME NEW t \in Tensor
        PROVE  data'[t] = NoBuffer
               \/ \E w \in {"own", "user", "sub"}, r \in Nat : data'[t] = <<w, t, r>>
    <3>1. CASE t \in outs
      BY <1>3, <2>1, <3>1 DEF Sub
    <3>2. CASE t \notin outs
      BY <1>3, <3>2 DEF IInv, DataOf
    <3> QED
      BY <3>1, <3>2
  <2> QED
    BY <2>2 DEF DataOf
<1>8. ASSUME NEW t \in Tensor \ outs
      PROVE  data'[t] = data[t] /\ (data[t] \in heap => data[t] \in heap')
  BY <1>1, <1>2, <1>3, BuffersApart DEF IInv
<1>9. InputHeld'
  BY <1>1, <1>2, <1>8, GraphTypes DEF IInv, InputHeld
<1>10. RunMemory'
  <2>1. \A t \in Elems(g.input) : data'[t] = User(t, run) /\ data'[t] \in heap'
    BY <1>1, <1>2, <1>8, GraphTypes DEF IInv, RunMemory, Running
  <2>2. ASSUME NEW k \in 1 .. Len(g.plan), k < i, NEW t \in Elems(g.plan[k].out)
        PROVE  /\ data'[t] = data[t]
               /\ data'[t] \in heap' <=> data[t] \in heap
               /\ IF k \in OpLayers(g)
                    THEN data[t] = Own(t, run) /\ (data[t] \in heap <=> rc[t] > 0 \/ UsesOf(g, t) = {})
                    ELSE data[t] = Sub(t, run) /\ data[t] \in heap
    <3>0. t \in Tensor
      BY <1>1, <2>2, GraphTypes
    <3>1. t \in Tensor /\ t \notin outs
      <4>1. k # i /\ i \in 1 .. Len(g.plan)
        BY <1>1, <2>2
      <4>2. Elems(g.plan[k].out) \cap outs = {}
        BY <1>1, <4>1, PlanFacts
      <4> QED
        BY <3>0, <4>2, <2>2
    <3>2. Past(k)
      BY <2>2 DEF Past
    <3>3. IF k \in OpLayers(g)
            THEN data[t] = Own(t, run) /\ (data[t] \in heap <=> rc[t] > 0 \/ UsesOf(g, t) = {})
            ELSE data[t] = Sub(t, run) /\ data[t] \in heap
      BY <1>1, <3>2 DEF IInv, RunMemory, Running, OpMemory, SubMemory
    <3>4. data[t] \in {Own(t, run), Sub(t, run)}
      BY <3>3
    <3>5. \A s \in outs : Sub(s, run) # data[t]
      BY <3>1, <3>4 DEF Own, Sub
    <3> QED
      BY <1>3, <1>8, <3>1, <3>3, <3>5
  <2>3. ASSUME NEW t \in outs PROVE data'[t] = Sub(t, run) /\ data'[t] \in heap'
    BY <1>2, <1>3
  <2>4. ASSUME NEW k \in 1 .. Len(g.plan), Past(k)'
        PROVE  (IF k \in OpLayers(g) THEN OpMemory(k) ELSE SubMemory(k))'
    <3>1. CASE k < i
      BY <1>1, <2>2, <3>1 DEF OpMemory, SubMemory
    <3>2. CASE k = i
      BY <1>1, <2>3, <3>2 DEF SubMemory
    <3> QED
      BY <1>1, <2>4, <3>1, <3>2 DEF Past
  <2> QED
    BY <1>1, <2>1, <2>4 DEF RunMemory
<1> QED
  BY <1>4, <1>5, <1>6, <1>7, <1>9, <1>10 DEF IInv

LEMMA DeinitInInv == IInv /\ DeinitIn => IInv'
<1> SUFFICES ASSUME IInv, DeinitIn PROVE IInv'
  OBVIOUS
<1>1. /\ TypeOK /\ GraphOK(g, Tensor) /\ pc = "deinit" /\ pc' = "deinit"
      /\ i \in OpLayers(g) /\ i' = i /\ j' = j + 1 /\ j <= Len(g.plan[i].in)
      /\ g' = g /\ run' = run /\ data' = data /\ rcInit' = rcInit
  BY DEF IInv, TypeOK, PositionInv, DeinitIn
<1>j. i \in 1 .. Len(g.plan) /\ j \in Nat /\ j \in 1 .. Len(g.plan[i].in)
  <2>1. j \in Nat /\ j # 0
    BY <1>1 DEF TypeOK
  <2>2. i \in 1 .. Len(g.plan)
    BY <1>1, OpLayerFacts
  <2>3. Len(g.plan[i].in) \in Nat
    BY <1>1, <2>2, GraphTypes
  <2> QED
    BY <1>1, <2>1, <2>2, <2>3
<1>t. PICK t0 \in Tensor : t0 = g.plan[i].in[j]
  <2>1. g.plan[i].in[j] \in Elems(g.plan[i].in) /\ Elems(g.plan[i].in) \subseteq Tensor
    BY <1>1, <1>j, GraphTypes
  <2> QED
    BY <2>1
<1>o. PICK op : op = g.plan[i].op
  OBVIOUS
<1> DEFINE u0 == <<op, j>>
<1>2. /\ i \in 1 .. Len(g.plan) /\ j \in Nat /\ j \in 1 .. Len(g.plan[i].in)
      /\ op \in 1 .. Len(g.ops) /\ g.plan[i].in = g.ops[op].in /\ LayerOf(g, op) = {i}
      /\ t0 = g.ops[op].in[j]
  BY <1>1, <1>j, <1>t, <1>o, OpLayerFacts
<1>3. u0 \in UsesOf(g, t0)
  BY <1>1, <1>j, <1>t, <1>o, UseOfLayer
<1>4. \A t \in Tensor : rc[t] \in Nat
  BY <1>1 DEF TypeOK
<1>5. \/ /\ rc[t0] > 0 /\ rc' = [rc EXCEPT ![t0] = @ - 1]
         /\ heap' = IF rc[t0] = 1 THEN heap \ {data[t0]} ELSE heap
      \/ rc[t0] = 0 /\ rc' = rc /\ heap' = heap
  <2>1. rc[t0] \in Nat
    BY <1>4
  <2>2. IF rc[t0] > 0
          THEN /\ rc' = [rc EXCEPT ![t0] = @ - 1]
               /\ heap' = IF rc[t0] = 1 THEN heap \ {data[t0]} ELSE heap
          ELSE rc' = rc /\ heap' = heap
    BY <1>t DEF DeinitIn
  <2> QED
    BY <2>1, <2>2
<1>6. TypeOK'
  <2>1. rc' \in [Tensor -> Nat]
    <3>1. rc \in [Tensor -> Nat]
      BY <1>1 DEF TypeOK
    <3>2. CASE rc[t0] > 0 /\ rc' = [rc EXCEPT ![t0] = @ - 1]
      <4>1. rc[t0] - 1 \in Nat
        BY <3>1, <3>2
      <4> QED
        BY <3>1, <3>2, <4>1
    <3> QED
      BY <1>5, <3>1, <3>2
  <2>2. heap' \in SUBSET Buffer
    BY <1>1, <1>5 DEF TypeOK
  <2> QED
    BY <1>1, <2>1, <2>2 DEF TypeOK
<1>7. CountInv' /\ PositionInv' /\ SetupInv' /\ DataOf'
  BY <1>1 DEF IInv, CountInv, PositionInv, SetupInv, DataOf, Produced
<1>8. RcZero'
  <2>1. ASSUME NEW t \in Tensor \ OpTensors(g) PROVE rc'[t] = 0
    <3>1. rc[t] = 0 /\ rc \in [Tensor -> Nat]
      BY <1>1 DEF IInv, RcZero, TypeOK
    <3>2. t # t0 \/ rc' = rc
      BY <1>5, <3>1
    <3> QED
      BY <1>5, <3>1, <3>2
  <2> QED
    BY <1>1, <2>1 DEF RcZero
<1>9. rc[t0] > 0 => t0 \in OpTensors(g)
  BY <1>2 DEF IInv, RcZero
<1>10. ASSUME NEW u, u[2] \in Nat
       PROVE  Consumed(u)' <=> Consumed(u) \/ (u[2] = j /\ i \in LayerOf(g, u[1]))
  BY <1>1, <1>2, <1>10 DEF Consumed
<1>11. ~Consumed(u0)
  BY <1>1, <1>2 DEF Consumed
<1>12. Unconsumed(t0)' = Unconsumed(t0) \ {u0}
  <2>1. ASSUME NEW u \in UsesOf(g, t0) PROVE Consumed(u)' <=> Consumed(u) \/ u = u0
    <3>1. /\ u = <<u[1], u[2]>> /\ u[2] \in Nat /\ u[1] \in 1 .. Len(g.ops)
      BY <1>1, UseShape, GraphTypes
    <3>2. i \in LayerOf(g, u[1]) <=> u[1] = op
      BY <1>2, <1>o DEF LayerOf
    <3>3. Consumed(u)' <=> Consumed(u) \/ (u[2] = j /\ i \in LayerOf(g, u[1]))
      BY <1>10, <3>1
    <3>4. u = u0 <=> u[1] = op /\ u[2] = j
      BY <3>1
    <3> QED
      BY <3>2, <3>3, <3>4
  <2> QED
    BY <1>1, <2>1 DEF Unconsumed
<1>13. ASSUME NEW t \in Tensor, t # t0 PROVE Unconsumed(t)' = Unconsumed(t)
  <2>1. ASSUME NEW u \in UsesOf(g, t) PROVE Consumed(u)' <=> Consumed(u)
    <3>1. /\ u = <<u[1], u[2]>> /\ u[2] \in Nat /\ u[1] \in 1 .. Len(g.ops)
          /\ t = g.ops[u[1]].in[u[2]]
      BY <1>1, UseShape, GraphTypes
    <3>2. i \in LayerOf(g, u[1]) => u[1] = op
      BY <1>o DEF LayerOf
    <3>3. ~(u[1] = op /\ u[2] = j)
      BY <1>2, <1>13, <3>1
    <3>4. Consumed(u)' <=> Consumed(u) \/ (u[2] = j /\ i \in LayerOf(g, u[1]))
      BY <1>10, <3>1
    <3> QED
      BY <3>2, <3>3, <3>4
  <2> QED
    BY <1>1, <2>1 DEF Unconsumed
<1>14. \A t : ProducerHolds(t)' <=> ProducerHolds(t)
  BY <1>1 DEF ProducerHolds
<1>15. RefCountExact
  BY DEF IInv
<1>16. t0 \in OpTensors(g) => rc[t0] > 0
  <2>1. u0 \in Unconsumed(t0)
    BY <1>3, <1>11 DEF Unconsumed
  <2>2. Cardinality(Unconsumed(t0)) > 0
    <3>1. IsFiniteSet(Unconsumed(t0))
      BY <1>1, UnconsumedFinite
    <3>2. /\ Cardinality(Unconsumed(t0)) = Cardinality(Unconsumed(t0) \ {u0}) + 1
          /\ Cardinality(Unconsumed(t0) \ {u0}) \in Nat
      BY <2>1, <3>1, OneLess
    <3> QED
      BY <3>2
  <2> QED
    BY <1>1, <1>15, <2>2, UnconsumedFinite DEF RefCountExact, Running
<1>17. RefCountExact'
  <2>1. ASSUME NEW t \in OpTensors(g)
        PROVE  rc'[t] = Cardinality(Unconsumed(t)') + Cardinality(OutEntries(g, t))
                        + (IF ProducerHolds(t)' THEN 1 ELSE 0)
    <3>1. rc[t] = Cardinality(Unconsumed(t)) + Cardinality(OutEntries(g, t))
                  + (IF ProducerHolds(t) THEN 1 ELSE 0)
      BY <1>1, <1>15 DEF RefCountExact, Running
    <3>2. t \in Tensor
      BY <1>1, OpTensorFacts
    <3>3. CASE t = t0
      <4>1. rc'[t] = rc[t] - 1
        BY <1>1, <1>5, <1>16, <2>1, <3>3 DEF TypeOK
      <4>2. Cardinality(Unconsumed(t)) = Cardinality(Unconsumed(t)') + 1
            /\ Cardinality(Unconsumed(t)') \in Nat
        <5>1. u0 \in Unconsumed(t0)
          BY <1>3, <1>11 DEF Unconsumed
        <5> QED
          BY <1>1, <1>12, <3>3, <5>1, UnconsumedFinite, OneLess
      <4> QED
        BY <1>1, <1>14, <3>1, <4>1, <4>2, UnconsumedFinite
    <3>4. CASE t # t0
      <4>1. rc'[t] = rc[t]
        BY <1>1, <1>5, <3>2, <3>4 DEF TypeOK
      <4> QED
        BY <1>13, <1>14, <3>1, <3>2, <3>4, <4>1
    <3> QED
      BY <3>3, <3>4
  <2> QED
    BY <1>1, <2>1 DEF RefCountExact
<1>18. ASSUME NEW t \in Tensor, t # t0
       PROVE  rc'[t] = rc[t] /\ (data[t] \in heap' <=> data[t] \in heap)
  <2>1. rc'[t] = rc[t]
    BY <1>1, <1>5, <1>18 DEF TypeOK
  <2>2. data[t] \in heap => data[t] # data[t0]
    BY <1>1, <1>2, <1>18, BuffersApart DEF IInv
  <2> QED
    BY <1>5, <2>1, <2>2
<1>19. ASSUME t0 \notin OpTensors(g) PROVE rc' = rc /\ heap' = heap
  BY <1>5, <1>9, <1>19
<1>20. InputHeld'
  <2> SUFFICES ASSUME NEW t \in Elems(g.input), data[t] \in heap PROVE data[t] \in heap'
    BY <1>1 DEF IInv, InputHeld
  <2>1. t \in Tensor /\ t \notin OpTensors(g)
    BY <1>1, GraphTypes, OpTensorFacts
  <2> QED
    BY <1>18, <1>19, <2>1
<1>21. RunMemory'
  <2>1. ASSUME NEW t \in Elems(g.input) PROVE data[t] = User(t, run) /\ data[t] \in heap'
    <3>1. t \in Tensor /\ t \notin OpTensors(g)
      BY <1>1, GraphTypes, OpTensorFacts
    <3>2. data[t] = User(t, run) /\ data[t] \in heap
      BY <1>1 DEF IInv, RunMemory, Running
    <3> QED
      BY <1>18, <1>19, <3>1, <3>2
  <2>2. ASSUME NEW k \in 1 .. Len(g.plan), Past(k)'
        PROVE  IF k \in OpLayers(g) THEN OpMemory(k)' ELSE SubMemory(k)'
    <3>1. Past(k)
      BY <1>1, <2>2 DEF Past
    <3>2. IF k \in OpLayers(g) THEN OpMemory(k) ELSE SubMemory(k)
      BY <1>1, <3>1 DEF IInv, RunMemory, Running
    <3>3. Elems(g.plan[k].out) \subseteq Tensor
      BY <1>1, GraphTypes
    <3>4. CASE k \notin OpLayers(g)
      <4>1. t0 \in OpTensors(g) => t0 \notin Elems(g.plan[k].out)
        BY <1>1, <3>4, PlanFacts
      <4> QED
        BY <1>1, <1>18, <1>19, <3>2, <3>3, <3>4, <4>1 DEF SubMemory
    <3>5. CASE k \in OpLayers(g)
      <4>1. ASSUME NEW t \in Elems(g.plan[k].out)
            PROVE  /\ data[t] = Own(t, run)
                   /\ data[t] \in heap' <=> rc'[t] > 0 \/ UsesOf(g, t) = {}
        <5>1. data[t] = Own(t, run) /\ (data[t] \in heap <=> rc[t] > 0 \/ UsesOf(g, t) = {})
          BY <3>2, <3>5 DEF OpMemory
        <5>2. CASE t # t0
          BY <1>18, <3>3, <5>1, <5>2
        <5>3. CASE t = t0
          <6>1. t0 \in OpTensors(g)
            BY <3>5, <5>3 DEF OpTensors
          <6>2. rc[t0] > 0
            BY <1>16, <6>1
          <6>3. rc \in [Tensor -> Nat]
            BY <1>1 DEF TypeOK
          <6>4. /\ rc' = [rc EXCEPT ![t0] = @ - 1]
                /\ heap' = IF rc[t0] = 1 THEN heap \ {data[t0]} ELSE heap
            BY ONLY <1>5, <6>2, <6>3
          <6>5. rc'[t0] = rc[t0] - 1 /\ rc[t0] \in Nat
            BY <6>3, <6>4
          <6>6. UsesOf(g, t0) # {}
            BY <1>3
          <6> QED
            BY <5>1, <5>3, <6>2, <6>4, <6>5, <6>6
        <5> QED
          BY <5>2, <5>3
      <4> QED
        BY <1>1, <3>5, <4>1 DEF OpMemory, Own
    <3> QED
      BY <3>4, <3>5
  <2> QED
    BY <1>1, <2>1, <2>2 DEF RunMemory, User
<1> QED
  BY <1>6, <1>7, <1>8, <1>17, <1>20, <1>21 DEF IInv

LEMMA DeinitOutInv == IInv /\ DeinitOut => IInv'
<1> SUFFICES ASSUME IInv, DeinitOut PROVE IInv'
  OBVIOUS
<1> DEFINE outs == Elems(g.plan[i].out)
<1>1. /\ TypeOK /\ GraphOK(g, Tensor) /\ pc = "deinit" /\ pc' = "layer"
      /\ i \in OpLayers(g) /\ i' = i + 1 /\ j' = 1 /\ j > Len(g.plan[i].in)
      /\ g' = g /\ run' = run /\ data' = data /\ heap' = heap /\ rcInit' = rcInit
  BY DEF IInv, TypeOK, PositionInv, DeinitOut
<1>2. /\ i \in 1 .. Len(g.plan) /\ i \in Nat /\ j \in Nat /\ Len(g.plan[i].in) \in Nat
      /\ outs \subseteq Tensor /\ outs \subseteq OpTensors(g)
  <2>1. i \in 1 .. Len(g.plan)
    BY <1>1, OpLayerFacts
  <2>2. outs \subseteq OpTensors(g)
    BY <1>1, PlanFacts
  <2> QED
    BY <1>1, <2>1, <2>2, GraphTypes DEF TypeOK
<1>3. \A t \in Tensor : rc[t] \in Nat /\ rc'[t] = IF t \in outs THEN rc[t] - 1 ELSE rc[t]
  BY <1>1 DEF TypeOK, DeinitOut
<1>4. RefCountExact /\ Running
  BY <1>1 DEF IInv, Running
<1>5. \A t \in outs : ProducerHolds(t)
  BY <1>1, <1>2 DEF ProducerHolds
<1>6. ASSUME NEW t \in outs
      PROVE  /\ rc[t] = Cardinality(Unconsumed(t)) + Cardinality(OutEntries(g, t)) + 1
             /\ rc[t] > 0
  BY <1>1, <1>2, <1>4, <1>5, UnconsumedFinite DEF RefCountExact
<1>7. TypeOK'
  <2>1. rc' = [t \in Tensor |-> IF t \in outs THEN rc[t] - 1 ELSE rc[t]]
    BY DEF DeinitOut
  <2>2. ASSUME NEW t \in Tensor
        PROVE  (IF t \in outs THEN rc[t] - 1 ELSE rc[t]) \in Nat
    BY <1>3, <1>6
  <2>3. rc' \in [Tensor -> Nat]
    BY <2>1, <2>2
  <2> QED
    BY <1>1, <1>2, <2>3 DEF TypeOK
<1>8. CountInv' /\ PositionInv' /\ SetupInv' /\ DataOf' /\ InputHeld'
  BY <1>1 DEF IInv, CountInv, PositionInv, SetupInv, DataOf, InputHeld, Produced
<1>9. RcZero'
  <2>1. ASSUME NEW t \in Tensor \ OpTensors(g) PROVE rc'[t] = 0
    <3>1. t \notin outs
      BY <1>2
    <3>2. rc'[t] = rc[t]
      BY <1>3, <3>1
    <3> QED
      BY <3>2 DEF IInv, RcZero
  <2> QED
    BY <1>1, <2>1 DEF RcZero
<1>10. ASSUME NEW t \in Tensor PROVE Unconsumed(t)' = Unconsumed(t)
  <2>1. ASSUME NEW u \in UsesOf(g, t) PROVE Consumed(u)' <=> Consumed(u)
    <3>1. u[2] \in Nat /\ u[1] \in 1 .. Len(g.ops) /\ u[2] \in 1 .. Len(g.ops[u[1]].in)
      BY <1>1, UseShape, GraphTypes
    <3>2. i \in LayerOf(g, u[1]) => g.plan[i].in = g.ops[u[1]].in
      <4>1. i \in LayerOf(g, u[1]) => g.plan[i].op = u[1]
        BY DEF LayerOf
      <4> QED
        BY <1>1, <4>1, OpLayerFacts
    <3>3. i \in LayerOf(g, u[1]) => u[2] < j
      <4> SUFFICES ASSUME i \in LayerOf(g, u[1]) PROVE u[2] < j
        OBVIOUS
      <4>1. u[2] \in 1 .. Len(g.plan[i].in)
        BY <3>1, <3>2
      <4> QED
        BY <1>1, <1>2, <3>1, <4>1
    <3>4. \A k \in LayerOf(g, u[1]) : k \in Nat
      BY DEF LayerOf, OpLayers
    <3> QED
      BY <1>1, <1>2, <3>3, <3>4 DEF Consumed
  <2> QED
    BY <1>1, <2>1 DEF Unconsumed
<1>11. ASSUME NEW t \in Tensor
       PROVE  ProducerHolds(t)' <=> ProducerHolds(t) /\ t \notin outs
  <2>1. \A k \in OpLayers(g) : k \in Nat /\ k \in 1 .. Len(g.plan)
    BY DEF OpLayers
  <2>2. \A k \in OpLayers(g) : k # i /\ t \in Elems(g.plan[k].out) => t \notin outs
    BY <1>1, <1>2, <2>1, PlanFacts
  <2> QED
    BY <1>1, <1>2, <2>1, <2>2 DEF ProducerHolds
<1>12. RefCountExact'
  <2>1. ASSUME NEW t \in OpTensors(g)
        PROVE  rc'[t] = Cardinality(Unconsumed(t)') + Cardinality(OutEntries(g, t))
                        + (IF ProducerHolds(t)' THEN 1 ELSE 0)
    <3>1. t \in Tensor
      BY <1>1, OpTensorFacts
    <3>2. CASE t \in outs
      <4>1. rc'[t] = rc[t] - 1 /\ ~ProducerHolds(t)'
        BY <1>3, <1>11, <3>1, <3>2
      <4> QED
        BY <1>1, <1>6, <1>10, <3>1, <3>2, <4>1, UnconsumedFinite
    <3>3. CASE t \notin outs
      <4>1. rc'[t] = rc[t] /\ (ProducerHolds(t)' <=> ProducerHolds(t))
        BY <1>3, <1>11, <3>1, <3>3
      <4> QED
        BY <1>4, <1>10, <3>1, <4>1 DEF RefCountExact
    <3> QED
      BY <3>2, <3>3
  <2> QED
    BY <1>1, <2>1 DEF RefCountExact
<1>13. ASSUME NEW t \in outs, NEW u \in UsesOf(g, t) PROVE ~Consumed(u)
  <2> SUFFICES ASSUME NEW k \in LayerOf(g, u[1]), k <= i PROVE FALSE
    <3>1. \A k \in LayerOf(g, u[1]) : k \in Nat
      BY DEF LayerOf, OpLayers
    <3> QED
      BY <1>2, <3>1 DEF Consumed
  <2>1. k \in OpLayers(g) /\ g.plan[k].op = u[1]
    BY DEF LayerOf
  <2>2. k \in 1 .. Len(g.plan) /\ g.plan[k].in = g.ops[u[1]].in
    BY <1>1, <2>1, OpLayerFacts
  <2>3. u[1] \in 1 .. Len(g.ops) /\ u[2] \in 1 .. Len(g.ops[u[1]].in) /\ t = g.ops[u[1]].in[u[2]]
    BY <1>1, UseShape
  <2>4. t \in Elems(g.plan[k].in)
    BY <1>1, <2>2, <2>3, GraphTypes
  <2>5. t \notin Elems(g.input)
    BY <1>1, <1>2, OpTensorFacts
  <2>6. PICK l \in 1 .. k - 1 : t \in Elems(g.plan[l].out)
    BY <1>1, <2>2, <2>4, <2>5, PlanFacts
  <2>7. l \in 1 .. Len(g.plan) /\ l # i
    BY <1>1, <1>2, <2>2, <2>6, GraphTypes
  <2> QED
    BY <1>1, <1>2, <2>6, <2>7, PlanFacts
<1>14. ASSUME NEW t \in outs
       PROVE  rc'[t] > 0 \/ UsesOf(g, t) = {}
  <2> SUFFICES ASSUME NEW u \in UsesOf(g, t) PROVE rc'[t] > 0
    OBVIOUS
  <2>1. u \in Unconsumed(t)
    BY <1>13 DEF Unconsumed
  <2>2. IsFiniteSet(Unconsumed(t))
    BY <1>1, UnconsumedFinite
  <2>3. /\ Cardinality(Unconsumed(t)) = Cardinality(Unconsumed(t) \ {u}) + 1
        /\ Cardinality(Unconsumed(t) \ {u}) \in Nat
    BY <2>1, <2>2, OneLess
  <2>4. t \in Tensor /\ rc'[t] = rc[t] - 1
    BY <1>2, <1>3
  <2> QED
    BY <1>1, <1>6, <2>3, <2>4, UnconsumedFinite
<1>15. RunMemory'
  <2>1. \A t \in Elems(g.input) : data[t] = User(t, run) /\ data[t] \in heap
    BY <1>4 DEF IInv, RunMemory
  <2>2. ASSUME NEW k \in 1 .. Len(g.plan), Past(k)'
        PROVE  IF k \in OpLayers(g) THEN OpMemory(k)' ELSE SubMemory(k)'
    <3>1. Past(k)
      BY <1>1, <1>2, <2>2 DEF Past
    <3>2. IF k \in OpLayers(g) THEN OpMemory(k) ELSE SubMemory(k)
      BY <1>4, <3>1 DEF IInv, RunMemory
    <3>3. Elems(g.plan[k].out) \subseteq Tensor
      BY <1>1, GraphTypes
    <3>4. CASE k \notin OpLayers(g)
      BY <1>1, <3>2, <3>4 DEF SubMemory
    <3>5. CASE k \in OpLayers(g)
      <4>1. ASSUME NEW t \in Elems(g.plan[k].out)
            PROVE  /\ data[t] = Own(t, run)
                   /\ data[t] \in heap <=> rc'[t] > 0 \/ UsesOf(g, t) = {}
        <5>1. data[t] = Own(t, run) /\ (data[t] \in heap <=> rc[t] > 0 \/ UsesOf(g, t) = {})
          BY <3>2, <3>5 DEF OpMemory
        <5>2. CASE t \in outs
          BY <1>6, <1>14, <5>1, <5>2
        <5>3. CASE t \notin outs
          BY <1>3, <3>3, <5>1, <5>3
        <5> QED
          BY <5>2, <5>3
      <4> QED
        BY <1>1, <3>5, <4>1 DEF OpMemory, Own
    <3> QED
      BY <3>4, <3>5
  <2> QED
    BY <1>1, <2>1, <2>2 DEF RunMemory, User
<1> QED
  BY <1>7, <1>8, <1>9, <1>12, <1>15 DEF IInv

LEMMA RunDoneInv == IInv /\ RunDone => IInv'
<1> SUFFICES ASSUME IInv, RunDone PROVE IInv'
  OBVIOUS
<1>1. TypeOK /\ pc = "layer" /\ pc' = "idle"
  BY DEF IInv, RunDone
<1>2. TypeOK'
  BY <1>1 DEF TypeOK, RunDone
<1>3. CountInv' /\ PositionInv' /\ RefCountExact' /\ RunMemory'
  BY <1>1 DEF CountInv, PositionInv, RefCountExact, RunMemory, Running
<1>4. SetupInv' /\ RcZero' /\ DataOf' /\ InputHeld'
  BY <1>1 DEF IInv, SetupInv, RcZero, DataOf, InputHeld, RunDone, Produced
<1> QED
  BY <1>2, <1>3, <1>4 DEF IInv

-----------------------------------------------------------------------------
(* Every step keeps the inductive invariant. *)
LEMMA NextInv == IInv /\ [Next]_vars => IInv'
<1> SUFFICES ASSUME IInv, [Next]_vars PROVE IInv'
  OBVIOUS
<1>1. CASE Setup
  BY <1>1, CountInInv, CountOutInv, CountGraphOutputInv, SetupDoneInv DEF Setup
<1>2. CASE Application
  BY <1>2, UpdateInputInv, ReleaseOutputsInv DEF Application
<1>3. CASE Execute
  BY <1>3, SessionRunInv, OpRunInv, DeinitInInv, DeinitOutInv, SubRunInv, RunDoneInv
     DEF Execute
<1>4. CASE UNCHANGED vars
  <2>1. /\ g' = g /\ pc' = pc /\ i' = i /\ j' = j /\ rcInit' = rcInit /\ rc' = rc
        /\ data' = data /\ heap' = heap /\ run' = run
    BY <1>4 DEF vars
  <2>2. TypeOK'
    BY <2>1 DEF IInv, TypeOK
  <2>3. CountInv'
    <3>1. Produced' = Produced
      BY <2>1 DEF Produced
    <3>2. \A t : /\ CountedUses(t)' = CountedUses(t)
                 /\ CountedEntries(t)' = CountedEntries(t)
                 /\ ProducedBefore(t)' <=> ProducedBefore(t)
      BY <2>1 DEF CountedUses, CountedEntries, ProducedBefore
    <3> QED
      BY <2>1, <3>1, <3>2 DEF IInv, CountInv
  <2>4. SetupInv' /\ PositionInv'
    BY <2>1 DEF IInv, SetupInv, PositionInv, Produced
  <2>5. RefCountExact'
    <3>1. \A t : Unconsumed(t)' = Unconsumed(t) /\ (ProducerHolds(t)' <=> ProducerHolds(t))
      BY <2>1 DEF Unconsumed, Consumed, ProducerHolds
    <3> QED
      BY <2>1, <3>1 DEF IInv, RefCountExact, Running
  <2>6. RcZero' /\ DataOf' /\ InputHeld'
    BY <2>1 DEF IInv, RcZero, DataOf, InputHeld
  <2>7. RunMemory'
    BY <2>1 DEF IInv, RunMemory, Running, Past, OpMemory, SubMemory
  <2> QED
    BY <2>2, <2>3, <2>4, <2>5, <2>6, <2>7 DEF IInv
<1> QED
  BY <1>1, <1>2, <1>3, <1>4 DEF Next

(* The inductive invariant holds in every reachable state, whatever the     *)
(* graph, its plan and the number of runs.                                  *)
THEOREM Invariance == Spec => []IInv
BY InitInv, NextInv, PTL DEF Spec

(* Every variable keeps its type: in particular no reference count of       *)
(* shl_node ever goes below zero.                                           *)
THEOREM TypeCorrect == Spec => []TypeOK
<1>1. IInv => TypeOK
  BY DEF IInv
<1> QED
  BY <1>1, Invariance, PTL

(* The counts session_run works on are those of the uses still to come.     *)
THEOREM CountsExact == Spec => []RefCountExact
<1>1. IInv => RefCountExact
  BY DEF IInv
<1> QED
  BY <1>1, Invariance, PTL

-----------------------------------------------------------------------------
(* What the counts buy: memory safety. *)
LEMMA LayerReadsUse ==
  ASSUME GraphOK(g, Tensor), NEW k \in 1 .. Len(g.plan), NEW t \in Elems(g.plan[k].in)
  PROVE  \E u \in UsesOf(g, t) : LayerOf(g, u[1]) \subseteq {k}
<1>1. CASE k \in OpLayers(g)
  <2>1. PICK l \in 1 .. Len(g.plan[k].in) : g.plan[k].in[l] = t
    <3>1. g.plan[k] \in Layer(Tensor)
      BY DEF GraphOK, GraphRecord
    <3>2. g.plan[k].in \in Seq(Tensor)
      BY <3>1 DEF Layer
    <3> QED
      BY <3>2 DEF Elems
  <2>2. <<g.plan[k].op, l>> \in UsesOf(g, t)
    BY <1>1, <2>1, UseOfLayer
  <2>3. LayerOf(g, g.plan[k].op) = {k}
    BY <1>1, OpLayerFacts
  <2> QED
    BY <2>2, <2>3
<1>2. CASE k \notin OpLayers(g)
  <2>1. LayerOK(g, k) /\ g.plan[k].op = SubGraph
    BY <1>2 DEF GraphOK, PlanOK, OpLayers
  <2>2. SubGraph \notin 1 .. Len(g.ops)
    BY GraphTypes DEF SubGraph
  <2>3. PICK u \in UsesOf(g, t) : LayerOf(g, u[1]) = {}
    BY <2>1, <2>2 DEF LayerOK
  <2> QED
    BY <2>3
<1> QED
  BY <1>1, <1>2

(* A tensor of a layer that has run is live while a use or an output entry  *)
(* of it remains.                                                           *)
LEMMA NeededIsLive ==
  ASSUME IInv, Running, NEW k \in 1 .. Len(g.plan), Past(k), NEW t \in Elems(g.plan[k].out),
         Unconsumed(t) # {} \/ OutEntries(g, t) # {}
  PROVE  data[t] \in heap /\ data[t][3] = run
<1>1. TypeOK /\ GraphOK(g, Tensor)
  BY DEF IInv, TypeOK
<1>2. CASE k \notin OpLayers(g)
  BY <1>2 DEF IInv, RunMemory, SubMemory, Sub
<1>3. CASE k \in OpLayers(g)
  <2>1. data[t] = Own(t, run) /\ (data[t] \in heap <=> rc[t] > 0 \/ UsesOf(g, t) = {})
    BY <1>3 DEF IInv, RunMemory, OpMemory
  <2>2. t \in OpTensors(g)
    BY <1>3 DEF OpTensors
  <2>3. rc[t] = Cardinality(Unconsumed(t)) + Cardinality(OutEntries(g, t))
                + (IF ProducerHolds(t) THEN 1 ELSE 0)
    BY <2>2 DEF IInv, RefCountExact
  <2>4. /\ IsFiniteSet(Unconsumed(t)) /\ Cardinality(Unconsumed(t)) \in Nat
        /\ IsFiniteSet(OutEntries(g, t)) /\ Cardinality(OutEntries(g, t)) \in Nat
    BY <1>1, UnconsumedFinite
  <2>5. Cardinality(Unconsumed(t)) # 0 \/ Cardinality(OutEntries(g, t)) # 0
    BY <2>4, FS_EmptySet
  <2>6. rc[t] > 0
    BY <2>3, <2>4, <2>5
  <2> QED
    BY <2>1, <2>6 DEF Own
<1> QED
  BY <1>2, <1>3

LEMMA InputsLive ==
  ASSUME IInv, Running, NEW t \in Elems(g.input)
  PROVE  data[t] \in heap /\ data[t][3] = run
BY DEF IInv, RunMemory, User

LEMMA SafeReads == IInv => NoUseAfterFree
<1> SUFFICES ASSUME IInv, pc = "layer", i <= Len(g.plan), NEW t \in Elems(g.plan[i].in)
             PROVE  data[t] \in heap /\ data[t][3] = run
  BY DEF NoUseAfterFree
<1>1. TypeOK /\ GraphOK(g, Tensor) /\ Running
  BY DEF IInv, TypeOK, Running
<1>2. i \in 1 .. Len(g.plan)
  BY <1>1, GraphTypes DEF TypeOK
<1>3. CASE t \in Elems(g.input)
  BY <1>1, <1>3, InputsLive
<1>4. CASE t \notin Elems(g.input)
  <2>1. PICK l \in 1 .. i - 1 : t \in Elems(g.plan[l].out)
    BY <1>1, <1>2, <1>4, PlanFacts
  <2>2. l \in 1 .. Len(g.plan) /\ Past(l)
    BY <1>1, <1>2, <2>1, GraphTypes DEF Past
  <2>3. PICK u \in UsesOf(g, t) : LayerOf(g, u[1]) \subseteq {i}
    BY <1>1, <1>2, LayerReadsUse
  <2>4. ~Consumed(u)
    BY <1>2, <2>3 DEF Consumed
  <2>5. u \in Unconsumed(t)
    BY <2>4 DEF Unconsumed
  <2> QED
    BY <1>1, <2>1, <2>2, <2>5, NeededIsLive
<1> QED
  BY <1>3, <1>4

LEMMA SafeResults == IInv => ResultsDelivered
<1> SUFFICES ASSUME IInv, pc = "layer", i > Len(g.plan), NEW t \in Elems(g.output)
             PROVE  data[t] \in heap /\ data[t][3] = run
  BY DEF ResultsDelivered
<1>1. TypeOK /\ GraphOK(g, Tensor) /\ Running
  BY DEF IInv, TypeOK, Running
<1>2. PICK k \in 1 .. Len(g.plan) : t \in Elems(g.plan[k].out)
  BY <1>1 DEF GraphOK, PlanOK
<1>3. Past(k)
  BY <1>1, <1>2, GraphTypes DEF Past, TypeOK
<1>4. OutEntries(g, t) # {}
  <2>1. g.output \in Seq(Tensor)
    BY <1>1 DEF GraphOK, GraphRecord
  <2>2. PICK l \in 1 .. Len(g.output) : g.output[l] = t
    BY <2>1 DEF Elems
  <2> QED
    BY <2>2 DEF OutEntries
<1> QED
  BY <1>1, <1>2, <1>3, <1>4, NeededIsLive

LEMMA ReleaseIsExact == IInv => ExactRelease
<1> SUFFICES ASSUME IInv, pc = "layer", i > Len(g.plan), NEW t \in OpTensors(g)
             PROVE  data[t] \in heap <=> Retained(t)
  BY DEF ExactRelease
<1>1. TypeOK /\ GraphOK(g, Tensor) /\ Running
  BY DEF IInv, TypeOK, Running
<1>2. PICK k \in OpLayers(g) : t \in Elems(g.plan[k].out)
  BY DEF OpTensors
<1>3. \A l \in OpLayers(g) : l \in 1 .. Len(g.plan) /\ l < i /\ ~(l >= i)
  BY <1>1, GraphTypes DEF OpLayers, TypeOK
<1>4. data[t] = Own(t, run) /\ (data[t] \in heap <=> rc[t] > 0 \/ UsesOf(g, t) = {})
  BY <1>1, <1>2, <1>3 DEF IInv, RunMemory, Past, OpMemory
<1>5. rc[t] = Cardinality(Unconsumed(t)) + Cardinality(OutEntries(g, t))
  <2>1. ~ProducerHolds(t)
    BY <1>3 DEF ProducerHolds
  <2> QED
    BY <1>1, <2>1, UnconsumedFinite DEF IInv, RefCountExact
<1>6. rc[t] > 0 <=> Unconsumed(t) # {} \/ OutEntries(g, t) # {}
  <2>1. /\ IsFiniteSet(Unconsumed(t)) /\ Cardinality(Unconsumed(t)) \in Nat
        /\ IsFiniteSet(OutEntries(g, t)) /\ Cardinality(OutEntries(g, t)) \in Nat
    BY <1>1, UnconsumedFinite
  <2>2. /\ Cardinality(Unconsumed(t)) = 0 <=> Unconsumed(t) = {}
        /\ Cardinality(OutEntries(g, t)) = 0 <=> OutEntries(g, t) = {}
    BY <2>1, FS_EmptySet
  <2> QED
    BY <1>5, <2>1, <2>2
<1>7. Unconsumed(t) # {} <=> \E u \in UsesOf(g, t) : LayerOf(g, u[1]) = {}
  <2>1. ASSUME NEW u PROVE Consumed(u) <=> LayerOf(g, u[1]) # {}
    BY <1>3 DEF Consumed, LayerOf
  <2> QED
    BY <2>1 DEF Unconsumed
<1>8. OutEntries(g, t) # {} <=> t \in Elems(g.output)
  <2>1. g.output \in Seq(Tensor)
    BY <1>1 DEF GraphOK, GraphRecord
  <2> QED
    BY <2>1 DEF OutEntries, Elems
<1> QED
  BY <1>4, <1>6, <1>7, <1>8 DEF Retained

LEMMA FreesAreOwn ==
  IInv /\ DeinitIn =>
    /\ heap \ heap' \subseteq {Own(t, run) : t \in Tensor}
    /\ \A t \in Tensor : rc[t] = 1 /\ rc'[t] = 0 => data[t] \in heap
<1> SUFFICES ASSUME IInv, DeinitIn
             PROVE  /\ heap \ heap' \subseteq {Own(t, run) : t \in Tensor}
                    /\ \A t \in Tensor : rc[t] = 1 /\ rc'[t] = 0 => data[t] \in heap
  OBVIOUS
<1>1. TypeOK /\ GraphOK(g, Tensor) /\ Running /\ pc = "deinit" /\ i \in OpLayers(g)
  BY DEF IInv, TypeOK, PositionInv, DeinitIn, Running
<1>2. i \in 1 .. Len(g.plan) /\ i \in Nat /\ j \in 1 .. Len(g.plan[i].in)
  <2>1. i \in 1 .. Len(g.plan)
    BY <1>1, OpLayerFacts
  <2>2. Len(g.plan[i].in) \in Nat
    BY <1>1, <2>1, GraphTypes
  <2> QED
    BY <1>1, <2>1, <2>2 DEF TypeOK, DeinitIn
<1>3. PICK t0 \in Elems(g.plan[i].in) : t0 = g.plan[i].in[j]
  BY <1>1, <1>2, GraphTypes
<1>4. t0 \in Tensor
  BY <1>1, <1>2, GraphTypes
<1>5. ASSUME rc[t0] > 0 PROVE data[t0] = Own(t0, run) /\ data[t0] \in heap
  <2>1. t0 \in OpTensors(g) /\ t0 \notin Elems(g.input)
    BY <1>1, <1>4, <1>5, OpTensorFacts DEF IInv, RcZero
  <2>2. PICK k \in OpLayers(g) : t0 \in Elems(g.plan[k].out)
    BY <2>1 DEF OpTensors
  <2>3. PICK l \in 1 .. i - 1 : t0 \in Elems(g.plan[l].out)
    BY <1>1, <1>2, <2>1, PlanFacts
  <2>4. k \in 1 .. Len(g.plan) /\ l \in 1 .. Len(g.plan)
    <3>1. Len(g.plan) \in Nat
      BY <1>1, GraphTypes
    <3>2. k \in 1 .. Len(g.plan)
      BY <1>1, <2>2, OpLayerFacts
    <3>3. l \in 1 .. Len(g.plan)
      BY <1>2, <2>3, <3>1
    <3> QED
      BY <3>2, <3>3
  <2>5. k = l
    BY <1>1, <2>2, <2>3, <2>4, PlanFacts
  <2>6. Past(k)
    BY <1>2, <2>3, <2>5 DEF Past
  <2> QED
    BY <1>1, <1>5, <2>2, <2>4, <2>6 DEF IInv, RunMemory, OpMemory
<1>6. IF rc[t0] > 0
        THEN /\ rc' = [rc EXCEPT ![t0] = @ - 1]
             /\ heap' = IF rc[t0] = 1 THEN heap \ {data[t0]} ELSE heap
        ELSE rc' = rc /\ heap' = heap
  BY <1>3 DEF DeinitIn
<1>7. rc \in [Tensor -> Nat]
  BY <1>1 DEF TypeOK
<1>8. heap \ heap' \subseteq {Own(t, run) : t \in Tensor}
  BY <1>4, <1>5, <1>6
<1>9. ASSUME NEW t \in Tensor, rc[t] = 1, rc'[t] = 0 PROVE data[t] \in heap
  <2>1. t = t0
    BY <1>6, <1>7, <1>9
  <2> QED
    BY <1>5, <1>9, <2>1
<1> QED
  BY <1>8, <1>9

(* No layer ever reads a freed buffer or one of an earlier run.             *)
THEOREM MemorySafe == Spec => []NoUseAfterFree
BY SafeReads, Invariance, PTL

(* The graph outputs survive until the run has returned.                    *)
THEOREM ResultsSurvive == Spec => []ResultsDelivered
BY SafeResults, Invariance, PTL

(* A run frees exactly the intermediate buffers that are not retained.      *)
THEOREM RunReleasesExactly == Spec => []ExactRelease
BY ReleaseIsExact, Invariance, PTL

(* op_run_deinit frees its own live buffers only, each of them once.        *)
THEOREM FreesOwnOnce == Spec => FreesOnlyOwn
<1>1. IInv /\ [Next]_vars =>
        [DeinitIn =>
           /\ heap \ heap' \subseteq {Own(t, run) : t \in Tensor}
           /\ \A t \in Tensor : rc[t] = 1 /\ rc'[t] = 0 => data[t] \in heap]_vars
  BY FreesAreOwn
<1> QED
  BY <1>1, Invariance, PTL DEF Spec, FreesOnlyOwn
-----------------------------------------------------------------------------
(***************************************************************************)
(* The proof that GrefRun implements DataflowRun.  The counting loops and  *)
(* the loops of op_run_deinit that keep a buffer are stuttering steps, a   *)
(* buffer that is freed in a run is a value forgotten, and every layer and *)
(* every call of the application is a step of its own.                     *)
(***************************************************************************)

(* The instance reads graphs as this module does. *)
LEMMA SameElems == \A s : Dataflow!Elems(s) = Elems(s)
BY DEF Elems, Dataflow!Elems

LEMMA SameGraphOK == Dataflow!GraphOK(g, Tensor) <=> GraphOK(g, Tensor)
BY DEF GraphOK, GraphRecord, OpNode, Layer, BuildOK, PlanOK, LayerOK, Distinct, Elems,
       Uses, UsesOf, UsedTensor, OpLayers, LayerOf, SubGraph,
       Dataflow!GraphOK, Dataflow!GraphRecord, Dataflow!OpNode, Dataflow!Layer,
       Dataflow!BuildOK, Dataflow!PlanOK, Dataflow!LayerOK, Dataflow!Distinct, Dataflow!Elems,
       Dataflow!Uses, Dataflow!UsesOf, Dataflow!UsedTensor, Dataflow!OpLayers,
       Dataflow!LayerOf, Dataflow!SubGraph

(* A pointer is never one to a buffer made for another tensor. *)
LEMMA NamesApart ==
  ASSUME DataOf, NEW t \in Tensor, NEW s \in Tensor, s # t, NEW w, NEW r
  PROVE  data[t] # <<w, s, r>>
<1>1. CASE data[t] = NoBuffer
  BY <1>1 DEF NoBuffer
<1>2. CASE \E v \in {"own", "user", "sub"}, q \in Nat : data[t] = <<v, t, q>>
  BY <1>2
<1> QED
  BY <1>1, <1>2 DEF DataOf

(* The value of a tensor whose pointer and buffer a step leaves alone. *)
LEMMA ValueKept ==
  ASSUME NEW t \in Tensor, data'[t] = data[t], data[t] \in heap' <=> data[t] \in heap
  PROVE  AbstractVal'[t] = AbstractVal[t]
BY DEF AbstractVal

(* A step is a stutter when none of the mapped variables changes. *)
LEMMA Stutter ==
  ASSUME g' = g, run' = run, Running' <=> Running, AbstractFired' = AbstractFired,
         AbstractVal' = AbstractVal
  PROVE  UNCHANGED Dataflow!vars
<1>1. Running' = Running
  BY DEF Running
<1> QED
  BY <1>1 DEF Dataflow!vars
-----------------------------------------------------------------------------
LEMMA InitMaps == Init => Dataflow!Init
<1> SUFFICES ASSUME Init PROVE Dataflow!Init
  OBVIOUS
<1>1. Dataflow!GraphOK(g, Tensor)
  BY GraphAssumption, SameGraphOK DEF Init
<1>2. Running = FALSE /\ AbstractFired = {} /\ run = 0
  BY DEF Init, Running, AbstractFired
<1>3. AbstractVal = [t \in Tensor |-> Dataflow!NoValue]
  BY DEF Init, AbstractVal, Dataflow!NoValue
<1> QED
  BY <1>1, <1>2, <1>3 DEF Dataflow!Init

LEMMA SetupStutters == Setup => UNCHANGED Dataflow!vars
<1> SUFFICES ASSUME Setup PROVE UNCHANGED Dataflow!vars
  OBVIOUS
<1>1. /\ g' = g /\ run' = run /\ data' = data /\ heap' = heap
      /\ pc = "count" /\ pc' \in {"count", "idle"}
  BY DEF Setup, CountIn, CountOut, CountGraphOutput, SetupDone
<1>2. ~Running /\ ~Running'
  BY <1>1 DEF Running
<1>3. AbstractFired' = AbstractFired
  BY <1>2 DEF AbstractFired
<1>4. AbstractVal' = AbstractVal
  BY <1>1 DEF AbstractVal
<1> QED
  BY <1>1, <1>2, <1>3, <1>4, Stutter

LEMMA UpdateInputFeeds ==
  ASSUME NEW t0 \in Elems(g.input)
  PROVE  IInv /\ UpdateInput(t0) => Dataflow!Feed(t0)
<1> SUFFICES ASSUME IInv, UpdateInput(t0) PROVE Dataflow!Feed(t0)
  OBVIOUS
<1>1. /\ TypeOK /\ DataOf /\ pc = "idle" /\ pc' = "idle" /\ t0 \in Tensor
      /\ g' = g /\ run' = run /\ run < MaxRuns
  BY GraphTypes DEF IInv, TypeOK, UpdateInput
<1>2. ~Running /\ ~Running' /\ Running' = Running
  BY <1>1 DEF Running
<1>3. AbstractFired' = AbstractFired
  BY <1>2 DEF AbstractFired
<1>4. /\ heap' = (heap \ {data[t0]}) \cup {User(t0, run + 1)}
      /\ \A t \in Tensor : data'[t] = IF t = t0 THEN User(t0, run + 1) ELSE data[t]
  BY <1>1 DEF UpdateInput, TypeOK
<1>5. AbstractVal'[t0] = run + 1
  <2>1. data'[t0] = User(t0, run + 1) /\ data'[t0] \in heap'
    BY <1>1, <1>4
  <2>2. AbstractVal'[t0] = data'[t0][3]
    BY <1>1, <2>1 DEF AbstractVal
  <2> QED
    BY <2>1, <2>2 DEF User
<1>6. ASSUME NEW t \in Tensor, t # t0 PROVE AbstractVal'[t] = AbstractVal[t]
  <2>1. data'[t] = data[t]
    BY <1>4, <1>6
  <2>2. data[t] # User(t0, run + 1)
    BY <1>1, <1>6, NamesApart DEF User
  <2>3. data[t] \in heap => data[t] # data[t0]
    BY <1>1, <1>6, BuffersApart
  <2> QED
    BY <1>4, <2>1, <2>2, <2>3, ValueKept
<1>7. AbstractVal' = [AbstractVal EXCEPT ![t0] = run + 1]
  <2>1. /\ AbstractVal = [t \in Tensor |-> AbstractVal[t]]
        /\ AbstractVal' = [t \in Tensor |-> AbstractVal'[t]]
    BY DEF AbstractVal
  <2> QED
    BY <1>1, <1>5, <1>6, <2>1
<1> QED
  BY <1>1, <1>2, <1>3, <1>7 DEF Dataflow!Feed

LEMMA ReleaseOutputsReleases ==
  IInv /\ ReleaseOutputs => Dataflow!Release(Elems(g.output) \cap OpTensors(g))
<1> SUFFICES ASSUME IInv, ReleaseOutputs
             PROVE  Dataflow!Release(Elems(g.output) \cap OpTensors(g))
  OBVIOUS
<1> DEFINE S == Elems(g.output) \cap OpTensors(g)
<1>1. /\ TypeOK /\ DataOf /\ pc = "idle" /\ pc' = "idle" /\ S \subseteq Tensor
      /\ g' = g /\ run' = run /\ data' = data /\ heap' = heap \ {data[t] : t \in S}
  BY GraphTypes DEF IInv, TypeOK, ReleaseOutputs
<1>2. ~Running /\ ~Running' /\ Running' = Running
  BY <1>1 DEF Running
<1>3. AbstractFired' = AbstractFired
  BY <1>2 DEF AbstractFired
<1> HIDE DEF S
<1>4. ASSUME NEW t \in Tensor
      PROVE  AbstractVal'[t] = IF t \in S THEN 0 ELSE AbstractVal[t]
  <2>1. CASE t \in S
    BY <1>1, <2>1 DEF AbstractVal
  <2>2. CASE t \notin S
    <3>1. ASSUME NEW s \in S, data[t] \in heap PROVE data[t] # data[s]
      BY <1>1, <2>2, <3>1, BuffersApart
    <3> QED
      BY <1>1, <2>2, <3>1, ValueKept
  <2> QED
    BY <2>1, <2>2
<1>5. AbstractVal' = [t \in Tensor |-> IF t \in S THEN Dataflow!NoValue ELSE AbstractVal[t]]
  <2>1. AbstractVal' = [t \in Tensor |-> AbstractVal'[t]]
    BY DEF AbstractVal
  <2> QED
    BY <1>4, <2>1 DEF Dataflow!NoValue
<1> QED
  BY <1>1, <1>2, <1>3, <1>5 DEF Dataflow!Release, S

LEMMA SessionRunBegins == IInv /\ SessionRun => Dataflow!Begin
<1> SUFFICES ASSUME IInv, SessionRun PROVE Dataflow!Begin
  OBVIOUS
<1>1. /\ TypeOK /\ pc = "idle" /\ pc' = "layer" /\ i' = 1 /\ run < MaxRuns
      /\ g' = g /\ data' = data /\ heap' = heap /\ run' = run + 1
  BY DEF IInv, SessionRun
<1>2. ~Running /\ Running' = TRUE
  BY <1>1 DEF Running
<1>3. AbstractFired' = {}
  <2>1. \A k \in 1 .. Len(g.plan) : ~(k < 1)
    BY GraphTypes, <1>1 DEF TypeOK
  <2> QED
    BY <1>1, <2>1 DEF AbstractFired
<1>4. AbstractVal' = AbstractVal
  BY <1>1 DEF AbstractVal
<1>5. ASSUME NEW t \in Elems(g.input) PROVE AbstractVal[t] = run + 1
  <2>1. t \in Tensor /\ data[t] = User(t, run + 1)
    BY <1>1, GraphTypes DEF SessionRun, InputsReady, TypeOK
  <2>2. data[t] # NoBuffer
    BY <2>1 DEF User, NoBuffer
  <2>3. data[t] \in heap
    BY <2>2 DEF IInv, InputHeld
  <2> QED
    BY <2>1, <2>3 DEF AbstractVal, User
<1> QED
  BY <1>1, <1>2, <1>3, <1>4, <1>5, SameElems DEF Dataflow!Begin

(* What a layer is about to read has a value of this run. *)
LEMMA ReadsReady ==
  ASSUME IInv, pc = "layer", i \in 1 .. Len(g.plan), NEW t \in Elems(g.plan[i].in)
  PROVE  AbstractVal[t] = run
<1>1. t \in Tensor /\ i <= Len(g.plan)
  BY GraphTypes DEF IInv, TypeOK
<1>2. data[t] \in heap /\ data[t][3] = run
  BY <1>1, SafeReads DEF NoUseAfterFree
<1> QED
  BY <1>1, <1>2 DEF AbstractVal

LEMMA OpRunFires == IInv /\ OpRun => Dataflow!Fire(i)
<1> SUFFICES ASSUME IInv, OpRun PROVE Dataflow!Fire(i)
  OBVIOUS
<1>1. /\ TypeOK /\ GraphOK(g, Tensor) /\ DataOf /\ pc = "layer" /\ pc' = "deinit"
      /\ i \in OpLayers(g) /\ i' = i /\ g' = g /\ run' = run
  BY DEF IInv, TypeOK, OpRun
<1>2. i \in 1 .. Len(g.plan) /\ Elems(g.plan[i].out) \subseteq Tensor
  BY <1>1, OpLayerFacts, GraphTypes
<1>3. Running = TRUE /\ Running' = TRUE
  BY <1>1 DEF Running
<1>4. AbstractFired' = AbstractFired \cup {i} /\ i \notin AbstractFired
  BY <1>1, <1>2, <1>3 DEF AbstractFired
<1>5. PICK outs : outs = Elems(g.plan[i].out)
  OBVIOUS
<1>6. /\ heap' = heap \cup {Own(t, run) : t \in outs}
      /\ \A t \in Tensor : data'[t] = IF t \in outs THEN Own(t, run) ELSE data[t]
  BY <1>5 DEF OpRun
<1>7. ASSUME NEW t \in Tensor
      PROVE  AbstractVal'[t] = IF t \in outs THEN run ELSE AbstractVal[t]
  <2>1. CASE t \in outs
    <3>1. data'[t] = Own(t, run) /\ data'[t] \in heap'
      BY <1>6, <2>1
    <3>2. AbstractVal'[t] = data'[t][3]
      BY <3>1 DEF AbstractVal
    <3> QED
      BY <2>1, <3>1, <3>2 DEF Own
  <2>2. CASE t \notin outs
    <3>1. ASSUME NEW s \in outs PROVE data[t] # Own(s, run)
      BY <1>1, <1>2, <1>5, <2>2, NamesApart DEF Own
    <3> QED
      BY <1>6, <2>2, <3>1, ValueKept
  <2> QED
    BY <2>1, <2>2
<1>8. AbstractVal' = [t \in Tensor |-> IF t \in outs THEN run ELSE AbstractVal[t]]
  <2>1. AbstractVal' = [t \in Tensor |-> AbstractVal'[t]]
    BY DEF AbstractVal
  <2> QED
    BY <1>7, <2>1
<1>9. \A t \in Elems(g.plan[i].in) : AbstractVal[t] = run
  BY <1>1, <1>2, ReadsReady
<1> QED
  BY <1>1, <1>3, <1>4, <1>5, <1>8, <1>9, SameElems DEF Dataflow!Fire

LEMMA SubRunFires == IInv /\ SubRun => Dataflow!Fire(i)
<1> SUFFICES ASSUME IInv, SubRun PROVE Dataflow!Fire(i)
  OBVIOUS
<1>1. /\ TypeOK /\ GraphOK(g, Tensor) /\ DataOf /\ pc = "layer" /\ pc' = "layer"
      /\ i \in 1 .. Len(g.plan) /\ i' = i + 1 /\ g' = g /\ run' = run
  BY DEF IInv, TypeOK, SubRun
<1>2. Elems(g.plan[i].out) \subseteq Tensor /\ Len(g.plan) \in Nat
  BY <1>1, GraphTypes
<1>3. Running = TRUE /\ Running' = TRUE
  BY <1>1 DEF Running
<1>4. AbstractFired' = AbstractFired \cup {i} /\ i \notin AbstractFired
  <2>1. /\ AbstractFired = {k \in 1 .. Len(g.plan) : k < i}
        /\ AbstractFired' = {k \in 1 .. Len(g.plan) : k < i + 1}
    BY <1>1, <1>3 DEF AbstractFired
  <2>2. \A k \in 1 .. Len(g.plan) : k < i + 1 <=> k < i \/ k = i
    BY <1>1, <1>2
  <2> QED
    BY <1>1, <2>1, <2>2
<1>5. PICK outs : outs = Elems(g.plan[i].out)
  OBVIOUS
<1>6. /\ heap' = (heap \ {data[t] : t \in outs}) \cup {Sub(t, run) : t \in outs}
      /\ \A t \in Tensor : data'[t] = IF t \in outs THEN Sub(t, run) ELSE data[t]
  BY <1>5 DEF SubRun
<1>7. ASSUME NEW t \in Tensor
      PROVE  AbstractVal'[t] = IF t \in outs THEN run ELSE AbstractVal[t]
  <2>1. CASE t \in outs
    <3>1. data'[t] = Sub(t, run) /\ data'[t] \in heap'
      BY <1>6, <2>1
    <3>2. AbstractVal'[t] = data'[t][3]
      BY <3>1 DEF AbstractVal
    <3> QED
      BY <2>1, <3>1, <3>2 DEF Sub
  <2>2. CASE t \notin outs
    <3>1. ASSUME NEW s \in outs PROVE data[t] # Sub(s, run)
      BY <1>1, <1>2, <1>5, <2>2, NamesApart DEF Sub
    <3>2. ASSUME NEW s \in outs, data[t] \in heap PROVE data[t] # data[s]
      BY <1>1, <1>2, <1>5, <2>2, <3>2, BuffersApart
    <3> QED
      BY <1>6, <2>2, <3>1, <3>2, ValueKept
  <2> QED
    BY <2>1, <2>2
<1>8. AbstractVal' = [t \in Tensor |-> IF t \in outs THEN run ELSE AbstractVal[t]]
  <2>1. AbstractVal' = [t \in Tensor |-> AbstractVal'[t]]
    BY DEF AbstractVal
  <2> QED
    BY <1>7, <2>1
<1>9. \A t \in Elems(g.plan[i].in) : AbstractVal[t] = run
  BY <1>1, ReadsReady
<1> QED
  BY <1>1, <1>3, <1>4, <1>5, <1>8, <1>9, SameElems DEF Dataflow!Fire

(* A buffer that is freed belongs to a tensor nobody asks for any more. *)
LEMMA FreedIsUnneeded ==
  ASSUME IInv, IInv', DeinitIn, NEW t \in Tensor, t = g.plan[i].in[j], rc[t] = 1
  PROVE  ~Dataflow!NeededLater(t)
<1>1. /\ TypeOK /\ TypeOK' /\ GraphOK(g, Tensor) /\ pc = "deinit" /\ pc' = "deinit"
      /\ i \in OpLayers(g) /\ i' = i /\ g' = g /\ Running /\ Running'
  BY DEF IInv, TypeOK, PositionInv, DeinitIn, Running
<1>2. i \in 1 .. Len(g.plan)
  BY <1>1, OpLayerFacts
<1>3. t \in OpTensors(g)
  BY DEF IInv, RcZero
<1>4. rc'[t] = 0
  BY <1>1 DEF DeinitIn, TypeOK
<1>5. 0 = Cardinality(Unconsumed(t)') + Cardinality(OutEntries(g, t))
          + (IF ProducerHolds(t)' THEN 1 ELSE 0)
  BY <1>1, <1>3, <1>4 DEF IInv, RefCountExact
<1>6. /\ IsFiniteSet(Unconsumed(t)') /\ Cardinality(Unconsumed(t)') \in Nat
      /\ IsFiniteSet(OutEntries(g, t)) /\ Cardinality(OutEntries(g, t)) \in Nat
  <2>1. IsFiniteSet(UsesOf(g, t)) /\ IsFiniteSet(OutEntries(g, t))
    BY <1>1, UsesFinite DEF GraphOK
  <2>2. Unconsumed(t)' \subseteq UsesOf(g, t)
    BY <1>1 DEF Unconsumed
  <2> QED
    BY <2>1, <2>2, FS_Subset, FS_CardinalityType
<1>7. Unconsumed(t)' = {} /\ OutEntries(g, t) = {}
  <2>1. Cardinality(Unconsumed(t)') = 0 /\ Cardinality(OutEntries(g, t)) = 0
    BY <1>5, <1>6
  <2> QED
    BY <1>6, <2>1, FS_EmptySet
<1>8. t \notin Elems(g.input)
  BY <1>1, <1>3, OpTensorFacts
<1>9. t \notin Elems(g.output)
  <2>1. g.output \in Seq(Tensor)
    BY <1>1 DEF GraphOK, GraphRecord
  <2>2. \A k \in 1 .. Len(g.output) : g.output[k] # t
    BY <1>7 DEF OutEntries
  <2>3. DOMAIN g.output = 1 .. Len(g.output)
    BY <2>1
  <2> QED
    BY <2>2, <2>3, Zenon DEF Elems
<1>10. ASSUME NEW k \in (1 .. Len(g.plan)) \ AbstractFired PROVE t \notin Elems(g.plan[k].in)
  <2>1. ~(k < i) /\ k # i
    BY <1>1, <1>10 DEF AbstractFired
  <2>2. SUFFICES ASSUME t \in Elems(g.plan[k].in) PROVE FALSE
    OBVIOUS
  <2>3. PICK u \in UsesOf(g, t) : LayerOf(g, u[1]) \subseteq {k}
    BY <1>1, <2>2, LayerReadsUse
  <2>4. ~Consumed(u)'
    BY <1>1, <2>1, <2>3 DEF Consumed
  <2> QED
    BY <1>1, <1>7, <2>3, <2>4 DEF Unconsumed
<1> QED
  BY <1>8, <1>9, <1>10, SameElems DEF Dataflow!NeededLater, Dataflow!Layers

LEMMA DeinitInForgets ==
  IInv /\ IInv' /\ DeinitIn => \/ \E t \in Tensor : Dataflow!Forget(t)
                               \/ UNCHANGED Dataflow!vars
<1> SUFFICES ASSUME IInv, IInv', DeinitIn
             PROVE  (\E t \in Tensor : Dataflow!Forget(t)) \/ UNCHANGED Dataflow!vars
  OBVIOUS
<1>1. /\ TypeOK /\ DataOf /\ GraphOK(g, Tensor) /\ pc = "deinit" /\ pc' = "deinit"
      /\ i \in OpLayers(g) /\ i' = i /\ j \in Nat \ {0} /\ j <= Len(g.plan[i].in)
      /\ g' = g /\ run' = run /\ data' = data
  BY DEF IInv, TypeOK, PositionInv, DeinitIn
<1>2. i \in 1 .. Len(g.plan) /\ j \in 1 .. Len(g.plan[i].in)
  <2>1. i \in 1 .. Len(g.plan)
    BY <1>1, OpLayerFacts
  <2>2. Len(g.plan[i].in) \in Nat
    BY <1>1, <2>1, GraphTypes
  <2> QED
    BY <1>1, <2>1, <2>2
<1>3. PICK t \in Tensor : t = g.plan[i].in[j]
  BY <1>1, <1>2, GraphTypes
<1>4. Running = TRUE /\ Running' = TRUE
  BY <1>1 DEF Running
<1>5. AbstractFired' = AbstractFired
  BY <1>1, <1>4 DEF AbstractFired
<1>6. heap' = IF rc[t] = 1 THEN heap \ {data[t]} ELSE heap
  BY <1>1, <1>3 DEF DeinitIn, TypeOK
<1>7. CASE rc[t] # 1
  <2>1. AbstractVal' = AbstractVal
    BY <1>1, <1>6, <1>7 DEF AbstractVal
  <2> QED
    BY <1>1, <1>4, <1>5, <2>1, Stutter
<1>8. CASE rc[t] = 1
  <2>1. ~Dataflow!NeededLater(t)
    BY <1>3, <1>8, FreedIsUnneeded
  <2>2. AbstractVal'[t] = 0
    BY <1>1, <1>6, <1>8 DEF AbstractVal
  <2>3. ASSUME NEW s \in Tensor, s # t PROVE AbstractVal'[s] = AbstractVal[s]
    <3>1. data[s] \in heap => data[s] # data[t]
      BY <1>1, <2>3, BuffersApart
    <3> QED
      BY <1>1, <1>6, <1>8, <3>1, ValueKept
  <2>4. AbstractVal' = [AbstractVal EXCEPT ![t] = Dataflow!NoValue]
    <3>1. /\ AbstractVal = [s \in Tensor |-> AbstractVal[s]]
          /\ AbstractVal' = [s \in Tensor |-> AbstractVal'[s]]
      BY DEF AbstractVal
    <3> QED
      BY <2>2, <2>3, <3>1 DEF Dataflow!NoValue
  <2>5. Dataflow!Forget(t)
    BY <1>1, <1>4, <1>5, <2>1, <2>4 DEF Dataflow!Forget
  <2> QED
    BY <2>5
<1> QED
  BY <1>7, <1>8

LEMMA DeinitOutStutters == IInv /\ DeinitOut => UNCHANGED Dataflow!vars
<1> SUFFICES ASSUME IInv, DeinitOut PROVE UNCHANGED Dataflow!vars
  OBVIOUS
<1>1. /\ TypeOK /\ pc = "deinit" /\ pc' = "layer" /\ i' = i + 1 /\ i \in Nat
      /\ g' = g /\ run' = run /\ data' = data /\ heap' = heap
  BY DEF IInv, TypeOK, DeinitOut
<1>2. Running /\ Running'
  BY <1>1 DEF Running
<1>3. AbstractFired' = AbstractFired
  <2>1. /\ AbstractFired = {k \in 1 .. Len(g.plan) : k < i \/ k = i}
        /\ AbstractFired' = {k \in 1 .. Len(g.plan) : k < i + 1}
    BY <1>1, <1>2 DEF AbstractFired
  <2>2. Len(g.plan) \in Nat
    BY <1>1, GraphTypes DEF TypeOK
  <2>3. \A k \in 1 .. Len(g.plan) : k < i + 1 <=> k < i \/ k = i
    BY <1>1, <2>2
  <2> QED
    BY <2>1, <2>3
<1>4. AbstractVal' = AbstractVal
  BY <1>1 DEF AbstractVal
<1> QED
  BY <1>1, <1>2, <1>3, <1>4, Stutter

LEMMA RunDoneReturns == IInv /\ RunDone => Dataflow!Return
<1> SUFFICES ASSUME IInv, RunDone PROVE Dataflow!Return
  OBVIOUS
<1>1. /\ TypeOK /\ pc = "layer" /\ pc' = "idle" /\ i \in Nat /\ i > Len(g.plan)
      /\ g' = g /\ run' = run /\ data' = data /\ heap' = heap
  BY DEF IInv, TypeOK, RunDone
<1>2. Running = TRUE /\ Running' = FALSE
  BY <1>1 DEF Running
<1>3. AbstractFired = 1 .. Len(g.plan) /\ AbstractFired' = {}
  <2>1. Len(g.plan) \in Nat
    BY <1>1, GraphTypes DEF TypeOK
  <2>2. \A k \in 1 .. Len(g.plan) : k < i
    BY <1>1, <2>1
  <2> QED
    BY <1>1, <1>2, <2>2 DEF AbstractFired
<1>4. AbstractVal' = AbstractVal
  BY <1>1 DEF AbstractVal
<1>5. ASSUME NEW t \in Elems(g.output) PROVE AbstractVal[t] = run
  <2>1. t \in Tensor
    BY <1>1, GraphTypes DEF TypeOK
  <2>2. data[t] \in heap /\ data[t][3] = run
    BY <1>1, SafeResults DEF ResultsDelivered
  <2> QED
    BY <2>1, <2>2 DEF AbstractVal
<1> QED
  BY <1>1, <1>2, <1>3, <1>4, <1>5, SameElems DEF Dataflow!Return, Dataflow!Layers
-----------------------------------------------------------------------------
LEMMA StepMaps == IInv /\ IInv' /\ [Next]_vars => [Dataflow!Next]_(Dataflow!vars)
<1> SUFFICES ASSUME IInv, IInv', [Next]_vars PROVE [Dataflow!Next]_(Dataflow!vars)
  OBVIOUS
<1>1. CASE Setup
  BY <1>1, SetupStutters
<1>2. ASSUME NEW t \in Elems(g.input), UpdateInput(t) PROVE Dataflow!Next
  BY <1>2, UpdateInputFeeds, SameElems DEF Dataflow!Next
<1>3. CASE ReleaseOutputs
  <2>1. Elems(g.output) \cap OpTensors(g) \in SUBSET Dataflow!Elems(g.output)
    BY SameElems
  <2> QED
    BY <1>3, <2>1, ReleaseOutputsReleases DEF Dataflow!Next
<1>4. CASE SessionRun
  BY <1>4, SessionRunBegins DEF Dataflow!Next
<1>5. CASE OpRun
  <2>1. i \in Dataflow!Layers
    BY <1>5, OpLayerFacts DEF IInv, TypeOK, OpRun, Dataflow!Layers
  <2> QED
    BY <1>5, <2>1, OpRunFires DEF Dataflow!Next
<1>6. CASE DeinitIn
  BY <1>6, DeinitInForgets DEF Dataflow!Next
<1>7. CASE DeinitOut
  BY <1>7, DeinitOutStutters
<1>8. CASE SubRun
  <2>1. i \in Dataflow!Layers
    BY <1>8 DEF SubRun, Dataflow!Layers
  <2> QED
    BY <1>8, <2>1, SubRunFires DEF Dataflow!Next
<1>9. CASE RunDone
  BY <1>9, RunDoneReturns DEF Dataflow!Next
<1>10. CASE UNCHANGED vars
  BY <1>10 DEF vars, Dataflow!vars, Running, AbstractFired, AbstractVal
<1> QED
  BY <1>1, <1>2, <1>3, <1>4, <1>5, <1>6, <1>7, <1>8, <1>9, <1>10
  DEF Next, Application, Execute

(* The reference-counted executor (shl_gref_session_setup and               *)
(* shl_gref_session_run) implements the dataflow csinn_session_run stands   *)
(* for: each layer fires once per run, on values of that run, and a buffer  *)
(* is given up only when no layer to come and no caller can ask for it.     *)
THEOREM Refinement == Spec => ImplementsDataflow
<1>1. Init => Dataflow!Init
  BY InitMaps
<1>2. IInv /\ IInv' /\ [Next]_vars => [Dataflow!Next]_(Dataflow!vars)
  BY StepMaps
<1> QED
  BY <1>1, <1>2, Invariance, PTL DEF Spec, ImplementsDataflow, Dataflow!Spec
=============================================================================
