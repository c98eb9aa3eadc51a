------------------------- MODULE SubgraphFuseProofs -------------------------
(***************************************************************************)
(* Proofs about SubgraphFuse for every set of graphs and every device, by  *)
(* three inductive invariants.                                             *)
(*   IInv      the first walk puts every op it finishes into exactly one   *)
(*             layer and a subgraph has one device; it rests on the walk   *)
(*             being a post-order: when an op is visited, the ops that     *)
(*             produce its inputs already have a layer.                    *)
(*   NotedInv  what a layer depends on is noted down as a restriction, so  *)
(*             that no step ties the layers in a circle; it rests on the   *)
(*             recursive search of the layers above finding all of them.   *)
(*   Sorted    the second walk puts a layer in the plan after all that it  *)
(*             reads from, so that the plan can be run.                    *)
(***************************************************************************)
EXTENDS SubgraphFuse, InductionProofs, FiniteSetTheorems, SequenceTheorems, TLAPS

FirstWalk == phase \in {"fuse", "merge"}

OnStack(n) == \E k \in DOMAIN stack : stack[k][1] = n

(* A stack holds a path of the graph, from an output upwards. *)
Descends == \A k, l \in DOMAIN stack : k < l => stack[l][1] < stack[k][1]

(* What is on it was visited, and so were the producers it has gone past. *)
GonePast ==
  \A k \in DOMAIN stack :
    /\ stack[k][1] \in visited
    /\ \A j \in DOMAIN g.ops[stack[k][1]].in :
         j < stack[k][2] => Producer(g.ops[stack[k][1]].in[j]) \in visited \cup {0}

(* An op has a layer once the walk is done with it, and when it has joined one. *)
Placed ==
  \A n \in Op : subgraph_idx[n] # 0 <=>
    n \in visited /\ (OnStack(n) => phase = "merge" /\ n = Top)

OutputsWalked == \A o \in DOMAIN g.output : o < next => Producer(g.output[o]) \in visited

Joining == phase = "merge" => stack # <<>> /\ InputsDone /\ g.ops[Top].api # BaseApi

WalkInv == FirstWalk => Descends /\ GonePast /\ Placed /\ OutputsWalked /\ Joining

(* The two ways an op and its layer are tied agree. *)
Members ==
  \A l \in DOMAIN layer :
    /\ Distinct(layer[l].ops)
    /\ \A n \in Op : n \in Elems(layer[l].ops) <=> subgraph_idx[n] = l

Devices ==
  \A n \in Op : subgraph_idx[n] # 0 =>
    /\ layer[subgraph_idx[n]].sub <=> g.ops[n].api # BaseApi
    /\ \A o \in Op : subgraph_idx[o] = subgraph_idx[n] => g.ops[o].api = g.ops[n].api

SortInv == ~FirstWalk => \A o \in DOMAIN g.output : Above(g.output[o]) # 0

IInv ==
  /\ g \in OpGraph
  /\ TypeOK
  /\ WalkInv
  /\ Members
  /\ Devices
  /\ SortInv
-----------------------------------------------------------------------------
(* Sequences *)

LEMMA Elements ==
  ASSUME NEW S, NEW s \in Seq(S)
  PROVE  /\ Len(s) \in Nat /\ DOMAIN s = 1 .. Len(s) /\ \A k \in DOMAIN s : s[k] \in S
         /\ \A T : (\A k \in DOMAIN s : s[k] \in T) => s \in Seq(T)
  OBVIOUS

LEMMA FrontProperties ==
  ASSUME NEW S, NEW s \in Seq(S), s # <<>>
  PROVE /\ Front(s) \in Seq(S) /\ Len(Front(s)) = Len(s) - 1
        /\ \A k \in 1 .. Len(s) - 1 : Front(s)[k] = s[k]
        /\ Len(s) \in Nat \ {0} /\ DOMAIN s = 1 .. Len(s) /\ Last(s) = s[Len(s)] /\ Last(s) \in S
        /\ DOMAIN Front(s) = 1 .. Len(s) - 1
<1>1. Len(s) \in Nat \ {0} /\ DOMAIN s = 1 .. Len(s) /\ \A k \in 1 .. Len(s) : s[k] \in S
  BY EmptySeq
<1>2. Len(s) - 1 \in Int /\ 1 \in Int
  BY <1>1
<1>3. \A k \in 1 .. Len(s) - 1 : s[k] \in S
  BY <1>1
<1>4. /\ SubSeq(s, 1, Len(s) - 1) \in Seq(S)
      /\ Len(SubSeq(s, 1, Len(s) - 1)) = IF 1 <= Len(s) - 1 THEN Len(s) - 1 - 1 + 1 ELSE 0
      /\ \A i \in 1 .. Len(s) - 1 - 1 + 1 : SubSeq(s, 1, Len(s) - 1)[i] = s[1 + i - 1]
  BY ONLY <1>2, <1>3, SubSeqProperties
<1>5. Front(s) \in Seq(S) /\ Len(Front(s)) = Len(s) - 1
  BY <1>1, <1>4 DEF Front
<1>6. \A k \in 1 .. Len(s) - 1 : Front(s)[k] = s[k]
  BY <1>1, <1>4 DEF Front
<1>7. DOMAIN Front(s) = 1 .. Len(s) - 1
  BY <1>5
<1> QED
  BY <1>1, <1>5, <1>6, <1>7 DEF Last

LEMMA Appended ==
  ASSUME NEW S, NEW s \in Seq(S), NEW e \in S
  PROVE /\ Append(s, e) \in Seq(S) /\ Append(s, e) # <<>>
        /\ Len(s) \in Nat /\ DOMAIN s = 1 .. Len(s)
        /\ Len(Append(s, e)) = Len(s) + 1 /\ DOMAIN Append(s, e) = 1 .. Len(s) + 1
        /\ \A k \in 1 .. Len(s) : Append(s, e)[k] = s[k]
        /\ Append(s, e)[Len(s) + 1] = e /\ Last(Append(s, e)) = e
  BY AppendProperties DEF Last

LEMMA AppendedElems ==
  ASSUME NEW S, NEW s \in Seq(S), NEW e \in S, Distinct(s), e \notin Elems(s)
  PROVE  Distinct(Append(s, e)) /\ Elems(Append(s, e)) = Elems(s) \cup {e}
<1>1. /\ Len(s) \in Nat /\ DOMAIN s = 1 .. Len(s)
      /\ DOMAIN Append(s, e) = 1 .. Len(s) + 1
      /\ \A k \in 1 .. Len(s) : Append(s, e)[k] = s[k]
      /\ Append(s, e)[Len(s) + 1] = e
  BY Appended
<1> DEFINE a == Append(s, e)
<1> HIDE DEF a
<1>2. \A k \in 1 .. Len(s) + 1 : k \in 1 .. Len(s) \/ k = Len(s) + 1
  BY <1>1
<1>3. Elems(a) = Elems(s) \cup {e}
  <2>1. Len(s) + 1 \in DOMAIN a /\ DOMAIN s \subseteq DOMAIN a
    BY <1>1 DEF a
  <2>2. Elems(a) \subseteq Elems(s) \cup {e}
    BY <1>1, <1>2 DEF Elems, a
  <2>3. e \in Elems(a)
    BY <1>1, <2>1 DEF Elems, a
  <2>4. Elems(s) \subseteq Elems(a)
    BY <1>1, <2>1 DEF Elems, a
  <2> QED
    BY <2>2, <2>3, <2>4
<1>4. Distinct(a)
  <2>1. \A k \in 1 .. Len(s) : a[k] # e
    BY <1>1 DEF Elems, a
  <2> QED
    BY <1>1, <1>2, <2>1 DEF Distinct, a
<1> QED
  BY <1>3, <1>4 DEF a

LEMMA JoinedElems ==
  ASSUME NEW S, NEW s \in Seq(S), NEW t \in Seq(S), Distinct(s), Distinct(t),
         Elems(s) \cap Elems(t) = {}
  PROVE  s \o t \in Seq(S) /\ Distinct(s \o t) /\ Elems(s \o t) = Elems(s) \cup Elems(t)
<1> DEFINE a == s \o t
<1>1. /\ a \in Seq(S) /\ Len(s) \in Nat /\ Len(t) \in Nat
      /\ DOMAIN s = 1 .. Len(s) /\ DOMAIN t = 1 .. Len(t) /\ DOMAIN a = 1 .. Len(s) + Len(t)
      /\ \A k \in 1 .. Len(s) + Len(t) : a[k] = IF k <= Len(s) THEN s[k] ELSE t[k - Len(s)]
  BY ConcatProperties
<1> HIDE DEF a
<1>2. \A k \in DOMAIN a : \/ k \in DOMAIN s /\ a[k] = s[k]
                          \/ k > Len(s) /\ k - Len(s) \in DOMAIN t /\ a[k] = t[k - Len(s)]
  BY <1>1
<1>3. /\ \A k \in DOMAIN s : k \in DOMAIN a /\ a[k] = s[k]
      /\ \A k \in DOMAIN t : Len(s) + k \in DOMAIN a /\ a[Len(s) + k] = t[k]
  <2>1. \A k \in DOMAIN t : Len(s) + k \in DOMAIN a /\ ~(Len(s) + k <= Len(s))
                            /\ Len(s) + k - Len(s) = k
    BY <1>1
  <2> QED
    BY <1>1, <2>1
<1>4. Elems(a) = Elems(s) \cup Elems(t)
  <2>1. Elems(a) \subseteq Elems(s) \cup Elems(t)
    BY <1>2 DEF Elems
  <2>2. Elems(s) \subseteq Elems(a)
    BY <1>3 DEF Elems
  <2>3. Elems(t) \subseteq Elems(a)
    BY <1>3 DEF Elems
  <2> QED
    BY <2>1, <2>2, <2>3
<1>5. Distinct(a)
  <2> SUFFICES ASSUME NEW k \in DOMAIN a, NEW l \in DOMAIN a, a[k] = a[l]
               PROVE  k = l
    BY DEF Distinct
  <2>1. k \in Nat /\ l \in Nat
    BY <1>1
  <2>2. CASE a[k] \in Elems(s)
    <3>1. k \in DOMAIN s /\ a[k] = s[k] /\ l \in DOMAIN s /\ a[l] = s[l]
      BY <1>2, <2>2 DEF Elems
    <3> QED
      BY <3>1 DEF Distinct
  <2>3. CASE a[k] \notin Elems(s)
    <3>1. /\ k - Len(s) \in DOMAIN t /\ a[k] = t[k - Len(s)]
          /\ l - Len(s) \in DOMAIN t /\ a[l] = t[l - Len(s)]
      BY <1>2, <2>3 DEF Elems
    <3>2. k - Len(s) = l - Len(s)
      BY <3>1 DEF Distinct
    <3> QED
      BY <1>1, <2>1, <3>2
  <2> QED
    BY <2>2, <2>3
<1> QED
  BY <1>1, <1>4, <1>5 DEF a

(* The step of the walk past an input: the last pair is exchanged. *)
LEMMA Exchanged ==
  ASSUME NEW S, NEW s \in Seq(S), s # <<>>, NEW e \in S
  PROVE LET a == Append(Front(s), e) IN
        /\ a \in Seq(S) /\ a # <<>> /\ Len(a) = Len(s) /\ DOMAIN a = DOMAIN s /\ Last(a) = e
        /\ \A k \in DOMAIN s : a[k] = IF k = Len(s) THEN e ELSE s[k]
<1>1. /\ Front(s) \in Seq(S) /\ Len(Front(s)) = Len(s) - 1
      /\ \A k \in 1 .. Len(s) - 1 : Front(s)[k] = s[k]
      /\ Len(s) \in Nat \ {0} /\ DOMAIN s = 1 .. Len(s)
  BY FrontProperties
<1>2. /\ Append(Front(s), e) \in Seq(S) /\ Append(Front(s), e) # <<>>
      /\ Len(Append(Front(s), e)) = Len(Front(s)) + 1
      /\ DOMAIN Append(Front(s), e) = 1 .. Len(Front(s)) + 1
      /\ \A k \in 1 .. Len(Front(s)) : Append(Front(s), e)[k] = Front(s)[k]
      /\ Append(Front(s), e)[Len(Front(s)) + 1] = e /\ Last(Append(Front(s), e)) = e
  BY <1>1, Appended
<1> QED
  BY <1>1, <1>2
-----------------------------------------------------------------------------
(* The graph: every producer comes before its consumers. *)

LEMMA GraphTypes ==
  ASSUME g \in OpGraph
  PROVE /\ Len(g.ops) \in Nat /\ g.output \in Seq(Tensor)
        /\ \A n \in Op : g.ops[n].in \in Seq(Tensor) /\ DOMAIN g.ops[n].in = 1 .. Len(g.ops[n].in)
                       /\ Len(g.ops[n].in) \in Nat
        /\ Len(g.output) \in Nat /\ DOMAIN g.output = 1 .. Len(g.output)
  BY OpGraphAssumption DEF OpGraphOK, Op

LEMMA ProducerIsOp ==
  ASSUME NEW t
  PROVE /\ Producer(t) \in Op \cup {0}
        /\ Producer(t) # 0 => t \in Elems(g.ops[Producer(t)].out)
        /\ (\E n \in Op : t \in Elems(g.ops[n].out)) /\ g \in OpGraph => Producer(t) # 0
<1> DEFINE made == {n \in Op : t \in Elems(g.ops[n].out)}
<1>1. CASE made = {}
  BY <1>1 DEF Producer
<1>2. CASE made # {}
  <2>1. Producer(t) = CHOOSE n \in made : TRUE
    BY <1>2 DEF Producer
  <2>2. Producer(t) \in made
    BY <1>2, <2>1
  <2>3. g \in OpGraph => 0 \notin Op
    BY GraphTypes DEF Op
  <2> QED
    BY <2>2, <2>3
<1> QED
  BY <1>1, <1>2

LEMMA ProducersBefore ==
  ASSUME g \in OpGraph, NEW n \in Op, NEW k \in DOMAIN g.ops[n].in
  PROVE Producer(g.ops[n].in[k]) < n
<1> DEFINE t == g.ops[n].in[k]
<1>1. BuildOK(g) /\ t \in Elems(g.ops[n].in) /\ Len(g.ops) \in Nat /\ n \in 1 .. Len(g.ops)
  BY OpGraphAssumption DEF OpGraphOK, Elems, Op
<1>2. CASE Producer(t) = 0
  BY <1>1, <1>2
<1>3. CASE Producer(t) # 0
  <2>1. Producer(t) \in 1 .. Len(g.ops) /\ t \in Elems(g.ops[Producer(t)].out)
    BY <1>3, ProducerIsOp DEF Op
  <2>2. t \notin Elems(g.input)
    BY <1>1, <2>1 DEF BuildOK
  <2>3. PICK o \in 1 .. n - 1 : t \in Elems(g.ops[o].out)
    BY <1>1, <2>2 DEF BuildOK
  <2>4. o \in 1 .. Len(g.ops)
    BY <1>1
  <2>5. o = Producer(t)
    BY <1>1, <2>1, <2>3, <2>4, ZenonT(30) DEF BuildOK
  <2> QED
    BY <1>1, <2>3, <2>5
<1> QED
  BY <1>2, <1>3

LEMMA OutputsProduced ==
  ASSUME g \in OpGraph, NEW o \in DOMAIN g.output
  PROVE Producer(g.output[o]) \in Op /\ Producer(g.output[o]) # 0
<1>1. g.output[o] \in Elems(g.output)
  BY DEF Elems
<1>2. \E n \in Op : g.output[o] \in Elems(g.ops[n].out)
  BY <1>1, OpGraphAssumption DEF OpGraphOK, Op
<1> QED
  BY <1>2, ProducerIsOp
-----------------------------------------------------------------------------
(* The walk *)

LEMMA OpPositive == g \in OpGraph => Op \subseteq Nat \ {0} /\ 0 \notin Op
  BY GraphTypes DEF Op

LEMMA TopProperties ==
  ASSUME IInv, FirstWalk, stack # <<>>
  PROVE /\ stack \in Seq(Op \X (Nat \ {0}))
        /\ Len(stack) \in Nat \ {0} /\ DOMAIN stack = 1 .. Len(stack)
        /\ Top = stack[Len(stack)][1] /\ TopInput = stack[Len(stack)][2]
        /\ Top \in Op /\ Top \in visited /\ TopInput \in Nat \ {0}
        /\ Inputs(Top) = g.ops[Top].in
        /\ \A k \in DOMAIN stack : stack[k][1] \in Op /\ stack[k][2] \in Nat \ {0}
        /\ \A k \in DOMAIN stack : k # Len(stack) => stack[k][1] > Top
<1>1. stack \in Seq(Op \X (Nat \ {0}))
  BY DEF IInv, TypeOK, Node, FirstWalk
<1>2. Len(stack) \in Nat \ {0} /\ DOMAIN stack = 1 .. Len(stack)
  BY <1>1, EmptySeq
<1>3. \A k \in DOMAIN stack : stack[k][1] \in Op /\ stack[k][2] \in Nat \ {0}
  BY <1>1, <1>2
<1>4. Top = stack[Len(stack)][1] /\ TopInput = stack[Len(stack)][2]
  BY DEF Top, TopInput, Last
<1>5. Top \in Op /\ TopInput \in Nat \ {0}
  BY <1>2, <1>3, <1>4
<1>6. Top \in visited
  BY <1>2, <1>4 DEF IInv, WalkInv, GonePast
<1>7. Inputs(Top) = g.ops[Top].in
  BY DEF Inputs, FirstWalk
<1>8. \A k \in DOMAIN stack : k # Len(stack) => stack[k][1] > Top
  <2>1. Descends /\ Op \subseteq Nat
    BY OpPositive DEF IInv, WalkInv
  <2> QED
    BY <1>2, <1>3, <1>4, <2>1 DEF Descends
<1> QED
  BY <1>1, <1>2, <1>3, <1>4, <1>5, <1>6, <1>7, <1>8

LEMMA PastInputs ==
  ASSUME IInv, FirstWalk, stack # <<>>
  PROVE  \A j \in DOMAIN g.ops[Top].in :
           j < TopInput => Producer(g.ops[Top].in[j]) \in visited \cup {0}
<1>1. /\ Len(stack) \in DOMAIN stack
      /\ Top = stack[Len(stack)][1] /\ TopInput = stack[Len(stack)][2]
  BY TopProperties
<1>2. GonePast
  BY DEF IInv, WalkInv
<1> QED
  BY <1>1, <1>2 DEF GonePast

(* When an op is visited, all that it reads already has a layer. *)
LEMMA InputsPlaced ==
  ASSUME IInv, FirstWalk, stack # <<>>, InputsDone, NEW k \in ProducedIn(Top)
  PROVE /\ Producer(g.ops[Top].in[k]) \in Op \ {Top}
        /\ InLayer(Top, k) = subgraph_idx[Producer(g.ops[Top].in[k])]
        /\ InLayer(Top, k) # 0 /\ InLayer(Top, k) \in DOMAIN layer
<1> DEFINE p == Producer(g.ops[Top].in[k])
<1>1. k \in DOMAIN g.ops[Top].in /\ p # 0 /\ g \in OpGraph
  BY DEF ProducedIn, IInv
<1>2. p \in Op
  BY <1>1, ProducerIsOp
<1>3. p < Top
  BY <1>1, TopProperties, ProducersBefore
<1>4. k < TopInput
  BY <1>1, TopProperties, GraphTypes DEF InputsDone
<1>5. p \in visited
  <2>1. GonePast
    BY DEF IInv, WalkInv
  <2>2. /\ Len(stack) \in DOMAIN stack
        /\ Top = stack[Len(stack)][1] /\ TopInput = stack[Len(stack)][2]
    BY TopProperties
  <2> QED
    BY <1>1, <1>4, <2>1, <2>2 DEF GonePast
<1>6. ~OnStack(p)
  <2>1. \A n \in Op : n \in Nat
    BY <1>1, OpPositive
  <2> QED
    BY <1>2, <1>3, <2>1, TopProperties DEF OnStack
<1>7. subgraph_idx[p] # 0
  BY <1>2, <1>5, <1>6 DEF IInv, WalkInv, Placed
<1>8. InLayer(Top, k) = subgraph_idx[p]
  BY <1>1 DEF InLayer, Above
<1>9. subgraph_idx[p] \in 0 .. Len(layer) /\ DOMAIN layer = 1 .. Len(layer)
  BY <1>2 DEF IInv, TypeOK
<1>10. p # Top
  BY <1>1, <1>2, <1>3, OpPositive
<1> QED
  BY <1>2, <1>7, <1>8, <1>9, <1>10

LEMMA InitInv == Init => IInv
<1> SUFFICES ASSUME Init PROVE IInv
  OBVIOUS
<1>1. g \in OpGraph /\ Len(g.output) \in Nat
  BY GraphTypes DEF Init
<1>2. TypeOK
  BY <1>1 DEF Init, TypeOK, Node
<1>3. WalkInv
  <2>1. Placed
    BY DEF Placed, Init
  <2>2. OutputsWalked
    BY <1>1, GraphTypes DEF OutputsWalked, Init
  <2> QED
    BY <2>1, <2>2 DEF Init, WalkInv, Descends, GonePast, Joining
<1>4. Members /\ Devices
  BY DEF Members, Devices, Init
<1>5. SortInv
  BY DEF SortInv, FirstWalk, Init
<1> QED
  BY <1>1, <1>2, <1>3, <1>4, <1>5 DEF IInv
-----------------------------------------------------------------------------
(* The steps of the first walk *)

LEMMA SameGraph ==
  ASSUME g' = g
  PROVE  Op' = Op /\ \A t : Producer(t)' = Producer(t)
  BY DEF Op, Producer

LEMMA WalkOutputFirst ==
  ASSUME IInv, WalkOutput, phase = "fuse"
  PROVE  IInv'
<1> DEFINE n == Producer(g.output[next])
<1>1. /\ g \in OpGraph /\ g' = g /\ phase' = phase /\ stack = <<>> /\ next' = next + 1
      /\ UNCHANGED <<layer, subgraph_idx, into, m, plan>> /\ Op' = Op /\ FirstWalk /\ FirstWalk'
      /\ TypeOK /\ WalkInv /\ Node = Op /\ Node' = Op
  BY DEF IInv, Op, FirstWalk, Node, WalkOutput
<1>2. next \in DOMAIN g.output /\ next \in Nat /\ NodeOf(g.output[next]) = n
  BY <1>1, GraphTypes DEF TypeOK, NodeOf, WalkOutput
<1>3. n \in Op /\ n # 0 /\ n = Producer(g.output[next])
  BY <1>1, <1>2, OutputsProduced
<1>4. \/ n \in visited /\ UNCHANGED <<stack, visited>>
      \/ n \notin visited /\ stack' = << <<n, 1>> >> /\ visited' = visited \cup {n}
  BY <1>2 DEF WalkOutput
<1> HIDE DEF n
<1>5. \/ stack' = stack
      \/ n \notin visited /\ Len(stack') = 1 /\ DOMAIN stack' = {1} /\ stack'[1] = <<n, 1>>
  BY <1>4
<1>6. TypeOK'
  <2>1. stack' \in Seq(Op \X (Nat \ {0})) /\ visited' \subseteq Op
    <3>1. visited \subseteq Op
      BY <1>1 DEF TypeOK
    <3>2. <<n, 1>> \in Op \X (Nat \ {0})
      BY <1>3
    <3>3. << <<n, 1>> >> \in Seq(Op \X (Nat \ {0}))
      BY <3>2
    <3>4. <<>> \in Seq(Op \X (Nat \ {0}))
      OBVIOUS
    <3>5. CASE n \in visited
      BY <1>1, <1>4, <3>1, <3>4, <3>5
    <3>6. CASE n \notin visited
      BY <1>3, <1>4, <3>1, <3>3, <3>6
    <3> QED
      BY <3>5, <3>6
  <2>2. next' \in 1 .. Len(g.output) + 1
    BY <1>1, <1>2, GraphTypes
  <2> QED
    BY <1>1, <2>1, <2>2 DEF TypeOK
<1>7. \A t : Producer(t)' = Producer(t)
  BY <1>1, SameGraph
<1>8. WalkInv'
  <2>1. Descends'
    BY <1>1, <1>5 DEF Descends
  <2>2. GonePast'
    <3> SUFFICES ASSUME NEW k \in DOMAIN stack'
                 PROVE /\ stack'[k][1] \in visited'
                       /\ \A j \in DOMAIN g.ops[stack'[k][1]].in :
                            j < stack'[k][2] =>
                              Producer(g.ops[stack'[k][1]].in[j]) \in visited' \cup {0}
      BY <1>1, <1>7 DEF GonePast
    <3>1. stack' = << <<n, 1>> >> /\ visited' = visited \cup {n} /\ k = 1
      BY <1>1, <1>4
    <3>2. stack'[k][1] = n /\ stack'[k][2] = 1
      BY <3>1
    <3>3. \A j \in DOMAIN g.ops[n].in : ~(j < 1)
      BY <1>1, <1>3, GraphTypes
    <3> QED
      BY <3>1, <3>2, <3>3
  <2>3. Placed'
    <3>1. \A o \in Op : ~OnStack(o)
      BY <1>1 DEF OnStack
    <3>2. \A o \in Op : OnStack(o)' <=> n \notin visited /\ o = n
      BY <1>1, <1>4, <1>5 DEF OnStack
    <3>3. \A o \in Op : subgraph_idx[o] # 0 <=> o \in visited
      BY <1>1, <3>1 DEF WalkInv, Placed
    <3>4. \A o \in Op : subgraph_idx[o] # 0 <=> o \in visited' /\ ~OnStack(o)'
      BY <1>4, <3>2, <3>3
    <3> QED
      BY <1>1, <3>4 DEF Placed
  <2>4. OutputsWalked'
    <3>1. \A o \in DOMAIN g.output : o < next + 1 => o < next \/ o = next
      BY <1>1, <1>2, GraphTypes
    <3> QED
      BY <1>1, <1>3, <1>4, <1>7, <3>1 DEF WalkInv, OutputsWalked
  <2> QED
    BY <1>1, <2>1, <2>2, <2>3, <2>4 DEF WalkInv, Joining
<1>9. Members' /\ Devices' /\ SortInv'
  BY <1>1 DEF IInv, Members, Devices, SortInv
<1> QED
  BY <1>1, <1>6, <1>8, <1>9 DEF IInv

LEMMA WalkInputFirst ==
  ASSUME IInv, WalkInput, phase = "fuse"
  PROVE  IInv'
<1> DEFINE S == Op \X (Nat \ {0})
           n == Producer(g.ops[Top].in[TopInput])
           e == <<Top, TopInput + 1>>
           a == Append(Front(stack), e)
           len == Len(stack)
<1>1. /\ g \in OpGraph /\ g' = g /\ phase' = phase /\ stack # <<>> /\ next' = next
      /\ UNCHANGED <<layer, subgraph_idx, into, m, plan>> /\ Op' = Op /\ FirstWalk /\ FirstWalk'
      /\ TypeOK /\ WalkInv /\ Node = Op /\ Node' = Op /\ ~InputsDone
  BY DEF IInv, Op, FirstWalk, Node, WalkInput
<1>2. \A t : Producer(t)' = Producer(t)
  BY <1>1, SameGraph
<1>3. /\ stack \in Seq(S) /\ len \in Nat \ {0} /\ DOMAIN stack = 1 .. len
      /\ Top = stack[len][1] /\ TopInput = stack[len][2]
      /\ Top \in Op /\ Top \in visited /\ TopInput \in Nat \ {0}
      /\ Inputs(Top) = g.ops[Top].in
      /\ \A k \in DOMAIN stack : stack[k][1] \in Op /\ stack[k][2] \in Nat \ {0}
      /\ \A k \in DOMAIN stack : k # len => stack[k][1] > Top
  BY <1>1, TopProperties
<1>4. TopInput \in DOMAIN g.ops[Top].in
  BY <1>1, <1>3, GraphTypes DEF InputsDone
<1>5. NodeOf(Inputs(Top)[TopInput]) = n
  BY <1>1, <1>3 DEF NodeOf
<1>6. n \in Op \cup {0} /\ n < Top /\ n = Producer(g.ops[Top].in[TopInput])
  BY <1>1, <1>3, <1>4, ProducerIsOp, ProducersBefore
<1>7. e \in S /\ e[1] = Top /\ e[2] = TopInput + 1
  BY <1>3
<1>8. /\ a \in Seq(S) /\ Len(a) = len /\ DOMAIN a = DOMAIN stack
      /\ \A k \in DOMAIN stack : a[k] = IF k = len THEN e ELSE stack[k]
  <2>1. stack # <<>> /\ stack \in Seq(S) /\ e \in S
    BY <1>1, <1>3, <1>7
  <2> HIDE DEF S, e
  <2> QED
    BY ONLY <2>1, Exchanged
<1>9. \/ n \in visited \cup {0} /\ stack' = a /\ visited' = visited
      \/ n \notin visited \cup {0} /\ stack' = Append(a, <<n, 1>>) /\ visited' = visited \cup {n}
  BY <1>5 DEF WalkInput
<1> HIDE DEF n, a, e, len
<1>10. n \notin visited \cup {0} => <<n, 1>> \in S
  BY <1>6
<1> HIDE DEF S
<1>13. \A o \in Op : o \in Nat \ {0} /\ \A j \in DOMAIN g.ops[o].in : j \in Nat \ {0}
  <2>1. \A o \in Op : o \in Nat \ {0}
    BY <1>1, OpPositive
  <2>2. \A o \in Op : \A j \in DOMAIN g.ops[o].in : j \in Nat \ {0}
    BY <1>1, GraphTypes
  <2> QED
    BY <2>1, <2>2, Zenon
<1>11. CASE n \in visited \cup {0}
  <2>1. /\ stack' \in Seq(S) /\ DOMAIN stack' = DOMAIN stack /\ visited' = visited /\ Len(stack') = len
        /\ \A k \in DOMAIN stack : /\ stack'[k][1] = stack[k][1]
                                   /\ stack'[k][2] = IF k = len THEN TopInput + 1 ELSE stack[k][2]
    BY <1>3, <1>7, <1>8, <1>9, <1>11
  <2>2. TypeOK'
    BY <1>1, <2>1 DEF TypeOK, S
  <2>3. Descends'
    BY <1>1, <2>1 DEF Descends, WalkInv
  <2>4. GonePast'
    <3> SUFFICES ASSUME NEW k \in DOMAIN stack
                 PROVE /\ stack[k][1] \in visited
                       /\ \A j \in DOMAIN g.ops[stack[k][1]].in :
                            j < stack'[k][2] =>
                              Producer(g.ops[stack[k][1]].in[j]) \in visited \cup {0}
      BY <1>1, <1>2, <2>1 DEF GonePast
    <3>1. GonePast
      BY <1>1 DEF WalkInv
    <3>2. CASE k # len
      BY <2>1, <3>1, <3>2 DEF GonePast
    <3>3. CASE k = len
      <4>1. \A j \in DOMAIN g.ops[Top].in : j < TopInput + 1 => j < TopInput \/ j = TopInput
        BY <1>3, <1>13
      <4>2. \A j \in DOMAIN g.ops[Top].in : j < TopInput + 1 =>
              Producer(g.ops[Top].in[j]) \in visited \cup {0}
        BY <1>1, <1>6, <1>11, <4>1, PastInputs
      <4> QED
        BY <1>3, <2>1, <3>3, <4>2
    <3> QED
      BY <3>2, <3>3
  <2>5. Placed'
    <3>1. \A o \in Op : OnStack(o)' <=> OnStack(o)
      BY <2>1 DEF OnStack
    <3> QED
      BY <1>1, <2>1, <3>1 DEF WalkInv, Placed
  <2>6. OutputsWalked'
    BY <1>1, <1>2, <2>1 DEF WalkInv, OutputsWalked
  <2> QED
    BY <1>1, <2>2, <2>3, <2>4, <2>5, <2>6
    DEF IInv, WalkInv, Members, Devices, SortInv, Joining
<1>12. CASE n \notin visited \cup {0}
  <2>1. /\ stack' \in Seq(S) /\ Len(stack') = len + 1 /\ DOMAIN stack' = 1 .. len + 1
        /\ visited' = visited \cup {n} /\ stack'[len + 1] = <<n, 1>>
        /\ \A k \in DOMAIN stack : /\ stack'[k][1] = stack[k][1]
                                   /\ stack'[k][2] = IF k = len THEN TopInput + 1 ELSE stack[k][2]
    <3>1. stack' = Append(a, <<n, 1>>)
      BY <1>9, <1>12
    <3>2. /\ stack' \in Seq(S) /\ Len(stack') = Len(a) + 1 /\ DOMAIN stack' = 1 .. Len(a) + 1
          /\ \A k \in 1 .. Len(a) : stack'[k] = a[k]
          /\ stack'[Len(a) + 1] = <<n, 1>>
      <4> HIDE DEF S
      <4> QED
        BY <1>8, <1>10, <1>12, <3>1, Appended
    <3> QED
      BY <1>3, <1>7, <1>8, <1>9, <1>12, <3>2
  <2>2. n \in Op /\ n # 0 /\ stack'[len + 1][1] = n /\ stack'[len + 1][2] = 1
    BY <1>6, <1>12, <2>1
  <2>3. TypeOK'
    BY <1>1, <2>1, <2>2 DEF TypeOK, S
  <2>4. Descends'
    <3>1. Descends /\ Op \subseteq Nat
      BY <1>1, OpPositive DEF WalkInv
    <3>2. \A k \in DOMAIN stack : n < stack[k][1]
      <4>1. \A k \in DOMAIN stack : stack[k][1] \in Nat /\ (stack[k][1] = Top \/ stack[k][1] > Top)
        BY <1>3, <1>13
      <4>2. n \in Nat /\ Top \in Nat /\ n < Top
        BY <1>3, <1>6, <1>13, <2>2
      <4> QED
        BY ONLY <4>1, <4>2
    <3> QED
      BY <1>3, <2>1, <2>2, <3>1, <3>2 DEF Descends
  <2>5. GonePast'
    <3> SUFFICES ASSUME NEW k \in 1 .. len + 1
                 PROVE /\ stack'[k][1] \in visited'
                       /\ \A j \in DOMAIN g.ops[stack'[k][1]].in :
                            j < stack'[k][2] =>
                              Producer(g.ops[stack'[k][1]].in[j]) \in visited' \cup {0}
      BY <1>1, <1>2, <2>1 DEF GonePast
    <3>1. GonePast
      BY <1>1 DEF WalkInv
    <3>2. CASE k \in DOMAIN stack /\ k # len
      BY <2>1, <3>1, <3>2 DEF GonePast
    <3>3. CASE k = len
      <4>1. \A j \in DOMAIN g.ops[Top].in : j < TopInput + 1 => j < TopInput \/ j = TopInput
        BY <1>3, <1>13
      <4>2. \A j \in DOMAIN g.ops[Top].in : j < TopInput + 1 =>
              Producer(g.ops[Top].in[j]) \in visited' \cup {0}
        BY <1>1, <1>6, <2>1, <4>1, PastInputs
      <4>3. len \in DOMAIN stack
        BY <1>3
      <4>4. stack'[k][1] = Top /\ stack'[k][2] = TopInput + 1
        BY <1>3, <2>1, <3>3, <4>3
      <4>5. Top \in visited'
        BY <1>3, <2>1
      <4> QED
        BY <4>2, <4>4, <4>5
    <3>4. CASE k = len + 1
      <4>1. \A j \in DOMAIN g.ops[n].in : ~(j < 1)
        BY <2>2, <1>13
      <4> QED
        BY <2>1, <2>2, <3>4, <4>1
    <3>5. (k \in DOMAIN stack /\ k # len) \/ k = len \/ k = len + 1
      <4>1. len \in Nat /\ DOMAIN stack = 1 .. len
        BY <1>3
      <4> QED
        BY ONLY <4>1, k \in 1 .. len + 1
    <3> QED
      BY <3>2, <3>3, <3>4, <3>5, Zenon
  <2>6. Placed'
    <3>1. \A o \in Op : OnStack(o)' <=> OnStack(o) \/ o = n
      <4>1. \A o \in Op : OnStack(o) => OnStack(o)'
        BY <1>3, <2>1 DEF OnStack
      <4>2. \A o \in Op : o = n => OnStack(o)'
        <5>1. len + 1 \in DOMAIN stack'
          BY <1>3, <2>1
        <5> QED
          BY <2>2, <5>1 DEF OnStack
      <4>3. \A o \in Op : OnStack(o)' => OnStack(o) \/ o = n
        BY <1>3, <2>1, <2>2 DEF OnStack
      <4> QED
        BY <4>1, <4>2, <4>3
    <3>2. \A o \in Op : subgraph_idx[o] # 0 <=> o \in visited /\ ~OnStack(o)
      BY <1>1 DEF WalkInv, Placed, FirstWalk
    <3>3. \A o \in Op : subgraph_idx[o] # 0 <=> o \in visited' /\ ~OnStack(o)'
      BY <1>12, <2>1, <3>1, <3>2
    <3> QED
      BY <1>1, <3>3 DEF Placed
  <2>7. OutputsWalked'
    BY <1>1, <1>2, <2>1 DEF WalkInv, OutputsWalked
  <2> QED
    BY <1>1, <2>3, <2>4, <2>5, <2>6, <2>7
    DEF IInv, WalkInv, Members, Devices, SortInv, Joining
<1> QED
  BY <1>11, <1>12
-----------------------------------------------------------------------------
(* The visit of an op *)

LEMMA Popped ==
  ASSUME IInv, FirstWalk, stack # <<>>, stack' = Front(stack), UNCHANGED <<g, next, visited>>,
         phase' = "fuse"
  PROVE  /\ stack' \in Seq(Op \X (Nat \ {0})) /\ Op' = Op
         /\ Descends' /\ GonePast' /\ OutputsWalked' /\ Joining' /\ FirstWalk'
         /\ \A o \in Op : OnStack(o)' <=> OnStack(o) /\ o # Top
<1> DEFINE S == Op \X (Nat \ {0})
           len == Len(stack)
<1>1. /\ stack \in Seq(S) /\ len \in Nat \ {0} /\ DOMAIN stack = 1 .. len
      /\ Top = stack[len][1]
      /\ \A k \in DOMAIN stack : k # len => stack[k][1] > Top
      /\ \A k \in DOMAIN stack : stack[k][1] \in Op
      /\ Op \subseteq Nat /\ Top \in Op
  BY TopProperties, OpPositive DEF IInv
<1>2. /\ stack' \in Seq(S) /\ DOMAIN stack' = 1 .. len - 1
      /\ \A k \in DOMAIN stack' : k \in DOMAIN stack /\ k # len /\ stack'[k] = stack[k]
  <2> HIDE DEF S
  <2> QED
    BY <1>1, FrontProperties, SMTT(30)
<1>3. Op' = Op /\ \A t : Producer(t)' = Producer(t)
  BY SameGraph
<1>4. Descends /\ GonePast /\ OutputsWalked
  BY DEF IInv, WalkInv
<1>5. Descends'
  BY <1>2, <1>4 DEF Descends
<1>6. GonePast'
  BY <1>2, <1>3, <1>4 DEF GonePast
<1>7. OutputsWalked'
  BY <1>3, <1>4 DEF OutputsWalked
<1>8. \A o \in Op : OnStack(o)' <=> OnStack(o) /\ o # Top
  <2>1. \A o \in Op : OnStack(o)' => OnStack(o)
    BY <1>2 DEF OnStack
  <2>2. \A o \in Op : o = Top => ~OnStack(o)'
    <3>1. \A k \in DOMAIN stack' : stack'[k][1] # Top
      BY <1>1, <1>2
    <3> QED
      BY <3>1 DEF OnStack
  <2>3. \A o \in Op : OnStack(o) /\ o # Top => OnStack(o)'
    <3>1. \A k \in DOMAIN stack : k # len => k \in DOMAIN stack' /\ stack'[k] = stack[k]
      <4>1. \A k \in 1 .. len : k # len => k \in 1 .. len - 1
        <5>1. len \in Nat
          BY <1>1
        <5> QED
          BY ONLY <5>1
      <4> HIDE DEF len
      <4> QED
        BY <1>1, <1>2, <4>1, Zenon
    <3> QED
      BY <1>1, <3>1 DEF OnStack
  <2> QED
    BY <2>1, <2>2, <2>3
<1> QED
  BY <1>2, <1>3, <1>5, <1>6, <1>7, <1>8 DEF Joining, FirstWalk

(* The index and the contents of the layers, before and after. *)
LEMMA LayerTypes ==
  ASSUME IInv
  PROVE  /\ Len(layer) \in Nat /\ DOMAIN layer = 1 .. Len(layer)
         /\ \A n \in Op : subgraph_idx[n] \in 0 .. Len(layer)
         /\ \A l \in DOMAIN layer :
              /\ layer[l] \in [sub : BOOLEAN, ops : Seq(Op), restricted_map : SUBSET DOMAIN layer]
              /\ layer[l].sub \in BOOLEAN /\ layer[l].ops \in Seq(Op)
              /\ \A k \in DOMAIN layer[l].ops : layer[l].ops[k] \in Op
<1> DEFINE S == [sub : BOOLEAN, ops : Seq(Op), restricted_map : SUBSET DOMAIN layer]
<1>1. layer \in Seq(S) /\ subgraph_idx \in [Op -> 0 .. Len(layer)]
  BY DEF IInv, TypeOK
<1>2. \A L \in S : L.sub \in BOOLEAN /\ L.ops \in Seq(Op) /\ \A k \in DOMAIN L.ops : L.ops[k] \in Op
  OBVIOUS
<1>3. Len(layer) \in Nat /\ DOMAIN layer = 1 .. Len(layer) /\ \A l \in DOMAIN layer : layer[l] \in S
  <2> HIDE DEF S
  <2> QED
    BY <1>1, Elements
<1> QED
  BY <1>1, <1>2, <1>3

LEMMA NewLayerInv ==
  ASSUME IInv, Fusing, NEW restricted \in SUBSET DOMAIN layer,
         NewLayer(Top, restricted), Visited, UNCHANGED <<phase, into, m>>
  PROVE  IInv'
<1> DEFINE L == [sub |-> g.ops[Top].api # BaseApi, ops |-> <<Top>>, restricted_map |-> restricted]
           len == Len(layer)
<1>1. /\ FirstWalk /\ stack # <<>> /\ InputsDone /\ phase = "fuse" /\ phase' = "fuse"
      /\ stack' = Front(stack) /\ UNCHANGED <<g, next, visited, plan, into, m>>
      /\ g \in OpGraph /\ TypeOK /\ WalkInv /\ Members /\ Devices
  BY DEF FirstWalk, Fusing, Visited, IInv
<1>2. Top \in Op /\ Top \in visited /\ Op' = Op /\ Op \subseteq Nat \ {0}
  BY <1>1, TopProperties, SameGraph, OpPositive
<1>3. subgraph_idx[Top] = 0
  <2>1. OnStack(Top)
    BY <1>1, TopProperties DEF OnStack
  <2> QED
    BY <1>1, <1>2, <2>1 DEF WalkInv, Placed
<1>4. /\ len \in Nat /\ DOMAIN layer = 1 .. len
      /\ \A n \in Op : subgraph_idx[n] \in 0 .. len
      /\ \A l \in DOMAIN layer : /\ layer[l] \in [sub : BOOLEAN, ops : Seq(Op), restricted_map : SUBSET DOMAIN layer]
                                 /\ \A k \in DOMAIN layer[l].ops : layer[l].ops[k] \in Op
  BY LayerTypes
<1>5. layer' = Append(layer, L) /\ subgraph_idx' = [subgraph_idx EXCEPT ![Top] = len + 1]
  BY DEF NewLayer
<1> DEFINE S == [sub : BOOLEAN, ops : Seq(Op), restricted_map : SUBSET (1 .. len + 1)]
<1>6. L \in S /\ layer \in Seq(S)
  <2>1. <<Top>> \in Seq(Op)
    BY <1>2
  <2>2. L \in S
    BY <1>4, <2>1
  <2>3. \A l \in 1 .. len : layer[l] \in S
    BY <1>4
  <2>4. layer \in Seq(S)
    <3>1. layer \in Seq([sub : BOOLEAN, ops : Seq(Op), restricted_map : SUBSET DOMAIN layer])
      BY <1>1 DEF TypeOK
    <3> HIDE DEF S
    <3> QED
      BY <1>4, <2>3, <3>1, Elements
  <2> QED
    BY <2>2, <2>4
<1>7. L.sub = (g.ops[Top].api # BaseApi) /\ L.ops = <<Top>>
  OBVIOUS
<1> HIDE DEF L, S
<1>8. /\ layer' \in Seq(S) /\ Len(layer') = len + 1 /\ DOMAIN layer' = 1 .. len + 1
      /\ \A l \in 1 .. len : layer'[l] = layer[l]
      /\ layer'[len + 1] = L
  BY <1>5, <1>6, Appended
<1>9. \A n \in Op : subgraph_idx'[n] = IF n = Top THEN len + 1 ELSE subgraph_idx[n]
  BY <1>1, <1>5 DEF TypeOK
<1>10. subgraph_idx' \in [Op -> 0 .. len + 1]
  <2>1. len + 1 \in 0 .. len + 1 /\ 0 .. len \subseteq 0 .. len + 1
    BY <1>4
  <2> QED
    BY <1>1, <1>2, <1>4, <1>5, <2>1 DEF TypeOK
<1>11. /\ stack' \in Seq(Op \X (Nat \ {0}))
       /\ Descends' /\ GonePast' /\ OutputsWalked' /\ Joining' /\ FirstWalk'
       /\ \A o \in Op : OnStack(o)' <=> OnStack(o) /\ o # Top
  BY <1>1, Popped
<1>12. TypeOK'
  <2>1. Node = Op /\ Node' = Op
    BY <1>1, <1>2, <1>11 DEF Node, FirstWalk
  <2>2. layer' \in Seq([sub : BOOLEAN, ops : Seq(Op), restricted_map : SUBSET DOMAIN layer'])
    BY <1>8 DEF S
  <2>3. plan' \in Seq(DOMAIN layer')
    <3>1. DOMAIN layer \subseteq DOMAIN layer'
      BY <1>4, <1>8
    <3> QED
      BY <1>1, <3>1 DEF TypeOK
  <2> QED
    BY <1>1, <1>2, <1>8, <1>10, <1>11, <2>1, <2>2, <2>3 DEF TypeOK
<1>13. Placed'
  <2>1. \A o \in Op : subgraph_idx[o] # 0 <=> o \in visited /\ ~OnStack(o)
    BY <1>1 DEF WalkInv, Placed
  <2>2. \A o \in Op : subgraph_idx'[o] # 0 <=> o \in visited /\ ~OnStack(o)'
    <3>1. len + 1 # 0
      BY <1>4
    <3> QED
      BY <1>2, <1>9, <1>11, <2>1, <3>1
  <2> QED
    BY <1>1, <1>2, <2>2 DEF Placed
<1>14. Members'
  <2>1. Distinct(<<Top>>) /\ Elems(<<Top>>) = {Top}
    <3>1. Len(<<Top>>) = 1 /\ DOMAIN <<Top>> = {1} /\ <<Top>>[1] = Top
      OBVIOUS
    <3> QED
      BY <3>1 DEF Distinct, Elems
  <2>2. ASSUME NEW l \in 1 .. len + 1
        PROVE  /\ Distinct(layer'[l].ops)
               /\ \A n \in Op : n \in Elems(layer'[l].ops) <=> subgraph_idx'[n] = l
    <3>1. CASE l = len + 1
      <4>1. \A n \in Op : subgraph_idx[n] # len + 1
        BY <1>4
      <4> QED
        BY <1>7, <1>8, <1>9, <2>1, <3>1, <4>1
    <3>2. CASE l \in 1 .. len
      <4>1. Top \notin Elems(layer[l].ops) /\ len + 1 # l
        BY <1>1, <1>2, <1>3, <1>4, <3>2 DEF Members
      <4> QED
        BY <1>1, <1>2, <1>4, <1>8, <1>9, <3>2, <4>1 DEF Members
    <3> QED
      BY <1>4, <3>1, <3>2
  <2> QED
    BY <1>2, <1>8, <2>2 DEF Members
<1>15. Devices'
  <2> SUFFICES ASSUME NEW n \in Op, subgraph_idx'[n] # 0
               PROVE /\ layer'[subgraph_idx'[n]].sub <=> g.ops[n].api # BaseApi
                     /\ \A o \in Op : subgraph_idx'[o] = subgraph_idx'[n] => g.ops[o].api = g.ops[n].api
    BY <1>1, <1>2 DEF Devices
  <2>1. \A o \in Op : subgraph_idx[o] # len + 1
    BY <1>4
  <2>2. CASE n = Top
    BY <1>7, <1>8, <1>9, <2>1, <2>2
  <2>3. CASE n # Top
    <3>1. subgraph_idx'[n] = subgraph_idx[n] /\ subgraph_idx[n] \in 1 .. len
      BY <1>4, <1>9, <2>3
    <3> QED
      BY <1>1, <1>8, <1>9, <2>1, <3>1 DEF Devices
  <2> QED
    BY <2>2, <2>3
<1> QED
  BY <1>1, <1>11, <1>12, <1>13, <1>14, <1>15 DEF IInv, WalkInv, SortInv

LEMMA LayersOfInputs ==
  ASSUME IInv, FirstWalk, stack # <<>>, InputsDone
  PROVE  InLayers(Top) \in SUBSET DOMAIN layer
  BY InputsPlaced DEF InLayers

LEMMA FuseAloneInv ==
  ASSUME IInv, FuseCpu \/ FuseRoot \/ FuseRestricted
  PROVE  IInv'
<1>1. Fusing /\ Visited /\ UNCHANGED <<phase, into, m>>
  BY DEF FuseCpu, FuseRoot, FuseRestricted
<1>2. InLayers(Top) \in SUBSET DOMAIN layer
  BY <1>1, LayersOfInputs DEF Fusing, FirstWalk
<1>3. CASE FuseCpu
  BY <1>1, <1>2, <1>3, NewLayerInv DEF FuseCpu
<1>4. CASE FuseRoot
  <2>1. {} \in SUBSET DOMAIN layer
    OBVIOUS
  <2> QED
    BY <1>1, <1>4, <2>1, NewLayerInv DEF FuseRoot
<1>5. CASE FuseRestricted
  BY <1>1, <1>2, <1>5, NewLayerInv DEF FuseRestricted
<1> QED
  BY <1>3, <1>4, <1>5

(* The walk has not moved: only layers changed, or nothing. *)
LEMMA SameWalk ==
  ASSUME IInv, FirstWalk, FirstWalk', stack # <<>>, UNCHANGED <<g, next, stack, visited>>
  PROVE  /\ Op' = Op /\ Node' = Op /\ Node = Op
         /\ Descends' /\ GonePast' /\ OutputsWalked' /\ Top' = Top
         /\ InputsDone' <=> InputsDone
         /\ \A o \in Op : OnStack(o)' <=> OnStack(o)
<1>1. Op' = Op /\ \A t : Producer(t)' = Producer(t)
  BY SameGraph
<1>2. Descends /\ GonePast /\ OutputsWalked
  BY DEF IInv, WalkInv
<1>3. Descends' /\ Top' = Top /\ TopInput' = TopInput
  BY <1>2 DEF Descends, Top, TopInput
<1>4. GonePast'
  BY <1>1, <1>2 DEF GonePast
<1>5. OutputsWalked'
  BY <1>1, <1>2 DEF OutputsWalked
<1>6. Inputs(Top) = g.ops[Top].in /\ Inputs(Top)' = g.ops[Top].in
  BY <1>3 DEF Inputs, FirstWalk
<1>7. \A o \in Op : OnStack(o)' <=> OnStack(o)
  BY DEF OnStack
<1> QED
  BY <1>1, <1>3, <1>4, <1>5, <1>6, <1>7 DEF Node, FirstWalk, InputsDone

LEMMA FuseIntoInv ==
  ASSUME IInv, FuseInto
  PROVE  IInv'
<1> DEFINE l == InLayer(Top, into')
           p == Producer(g.ops[Top].in[into'])
           len == Len(layer)
<1>1. /\ FirstWalk /\ FirstWalk' /\ stack # <<>> /\ InputsDone /\ phase = "fuse" /\ phase' = "merge"
      /\ UNCHANGED <<g, next, stack, visited, plan>> /\ m' = 1
      /\ g \in OpGraph /\ TypeOK /\ WalkInv /\ Members /\ Devices
      /\ g.ops[Top].api # BaseApi
      /\ layer' = [layer EXCEPT ![l].ops = Append(@, Top)]
      /\ subgraph_idx' = [subgraph_idx EXCEPT ![Top] = l]
  BY DEF FuseInto, Fusing, FirstWalk, IInv, walk
<1>2. into' \in ProducedIn(Top) /\ g.ops[p].api = g.ops[Top].api /\ into' \in DOMAIN g.ops[Top].in
  BY DEF FuseInto, CanFuse, SameDevice, InDevice, ProducedIn
<1>3. p \in Op /\ p # Top /\ l = subgraph_idx[p] /\ l # 0 /\ l \in DOMAIN layer
  BY <1>1, <1>2, InputsPlaced
<1>4. into' \in Nat /\ Top \in Op /\ Top \in visited /\ Op \subseteq Nat \ {0}
  <2>1. Top \in Op /\ Top \in visited /\ Op \subseteq Nat \ {0}
    BY <1>1, TopProperties, OpPositive
  <2>2. DOMAIN g.ops[Top].in = 1 .. Len(g.ops[Top].in)
    BY <1>1, <2>1, GraphTypes
  <2> QED
    BY <1>2, <2>1, <2>2
<1>5. subgraph_idx[Top] = 0
  <2>1. OnStack(Top)
    BY <1>1, TopProperties DEF OnStack
  <2> QED
    BY <1>1, <1>4, <2>1 DEF WalkInv, Placed
<1> HIDE DEF l, p
<1>6. /\ len \in Nat /\ DOMAIN layer = 1 .. len
      /\ \A n \in Op : subgraph_idx[n] \in 0 .. len
      /\ \A i \in DOMAIN layer : /\ layer[i] \in [sub : BOOLEAN, ops : Seq(Op), restricted_map : SUBSET DOMAIN layer]
                                 /\ layer[i].ops \in Seq(Op)
                                 /\ \A k \in DOMAIN layer[i].ops : layer[i].ops[k] \in Op
  BY LayerTypes
<1>7. /\ Op' = Op /\ Node' = Op /\ Node = Op
      /\ Descends' /\ GonePast' /\ OutputsWalked' /\ Top' = Top
      /\ InputsDone'
      /\ \A o \in Op : OnStack(o)' <=> OnStack(o)
  BY <1>1, SameWalk
<1> DEFINE S == [sub : BOOLEAN, ops : Seq(Op), restricted_map : SUBSET DOMAIN layer]
<1>8. /\ Append(layer[l].ops, Top) \in Seq(Op)
      /\ Distinct(Append(layer[l].ops, Top))
      /\ Elems(Append(layer[l].ops, Top)) = Elems(layer[l].ops) \cup {Top}
  <2>1. Top \notin Elems(layer[l].ops) /\ Distinct(layer[l].ops)
    BY <1>1, <1>3, <1>4, <1>5 DEF Members
  <2> QED
    BY <1>3, <1>4, <1>6, <2>1, AppendedElems, Appended
<1>9. /\ DOMAIN layer' = DOMAIN layer
      /\ \A i \in DOMAIN layer :
           /\ layer'[i] \in S
           /\ layer'[i].sub = layer[i].sub
           /\ layer'[i].ops = IF i = l THEN Append(layer[l].ops, Top) ELSE layer[i].ops
  <2>1. /\ DOMAIN layer' = DOMAIN layer
        /\ \A i \in DOMAIN layer :
             layer'[i] = IF i = l THEN [layer[i] EXCEPT !.ops = Append(layer[l].ops, Top)] ELSE layer[i]
    BY <1>1, <1>3
  <2>2. \A L \in S : \A s \in Seq(Op) :
          /\ [L EXCEPT !.ops = s] \in S
          /\ [L EXCEPT !.ops = s].sub = L.sub /\ [L EXCEPT !.ops = s].ops = s
    OBVIOUS
  <2>3. \A i \in DOMAIN layer : layer[i] \in S
    BY <1>6
  <2> HIDE DEF S
  <2>4. ASSUME NEW i \in DOMAIN layer
        PROVE  /\ layer'[i] \in S /\ layer'[i].sub = layer[i].sub
               /\ layer'[i].ops = IF i = l THEN Append(layer[l].ops, Top) ELSE layer[i].ops
    <3>1. CASE i = l
      <4> DEFINE s == Append(layer[l].ops, Top)
      <4>1. layer'[i] = [layer[i] EXCEPT !.ops = s] /\ s \in Seq(Op)
        BY <1>8, <2>1, <3>1
      <4> HIDE DEF s
      <4>2. layer'[i] \in S /\ layer'[i].sub = layer[i].sub /\ layer'[i].ops = s
        BY <2>2, <2>3, <4>1
      <4> QED
        BY <3>1, <4>2 DEF s
    <3>2. CASE i # l
      BY <2>1, <2>3, <3>2
    <3> QED
      BY <3>1, <3>2
  <2> QED
    BY <2>1, <2>4
<1>10. layer' \in Seq(S) /\ Len(layer') = len
  <2>1. layer \in Seq(S)
    BY <1>1 DEF TypeOK
  <2>2. layer' = [i \in 1 .. len |-> layer'[i]]
    BY <1>1, <1>6
  <2> HIDE DEF S
  <2> QED
    BY <1>6, <1>9, <2>2
<1>11. \A n \in Op : subgraph_idx'[n] = IF n = Top THEN l ELSE subgraph_idx[n]
  BY <1>1 DEF TypeOK
<1>12. TypeOK'
  <2>1. subgraph_idx' \in [Op -> 0 .. len]
    BY <1>1, <1>3, <1>4, <1>6 DEF TypeOK
  <2>2. layer' \in Seq([sub : BOOLEAN, ops : Seq(Op), restricted_map : SUBSET DOMAIN layer'])
    BY <1>9, <1>10 DEF S
  <2> QED
    BY <1>1, <1>4, <1>7, <1>9, <1>10, <2>1, <2>2 DEF TypeOK
<1>13. Placed'
  <2>1. \A o \in Op : subgraph_idx[o] # 0 <=> o \in visited /\ ~OnStack(o)
    BY <1>1 DEF WalkInv, Placed
  <2>2. \A o \in Op : subgraph_idx'[o] # 0 <=> o \in visited /\ (OnStack(o)' => o = Top)
    BY <1>3, <1>4, <1>7, <1>11, <2>1
  <2> QED
    BY <1>1, <1>7, <2>2 DEF Placed
<1>14. Members'
  <2>1. ASSUME NEW i \in DOMAIN layer
        PROVE  /\ Distinct(layer'[i].ops)
               /\ \A n \in Op : n \in Elems(layer'[i].ops) <=> subgraph_idx'[n] = i
    <3>1. /\ Distinct(layer[i].ops) /\ \A n \in Op : n \in Elems(layer[i].ops) <=> subgraph_idx[n] = i
          /\ i # 0
      BY <1>1, <1>6 DEF Members
    <3> QED
      BY <1>4, <1>5, <1>8, <1>9, <1>11, <3>1, ZenonT(30)
  <2> QED
    BY <1>7, <1>9, <2>1 DEF Members
<1>15. Devices'
  <2>1. \A n \in Op : subgraph_idx[n] # 0 =>
          /\ layer[subgraph_idx[n]].sub <=> g.ops[n].api # BaseApi
          /\ \A o \in Op : subgraph_idx[o] = subgraph_idx[n] => g.ops[o].api = g.ops[n].api
    BY <1>1 DEF Devices
  <2>2. layer[l].sub /\ \A o \in Op : subgraph_idx'[o] = l => g.ops[o].api = g.ops[Top].api
    BY <1>1, <1>2, <1>3, <1>11, <2>1
  <2>3. \A n \in Op : subgraph_idx'[n] # 0 => subgraph_idx'[n] \in DOMAIN layer
    BY <1>3, <1>6, <1>11
  <2>4. ASSUME NEW n \in Op, subgraph_idx'[n] # 0
        PROVE  /\ layer'[subgraph_idx'[n]].sub <=> g.ops[n].api # BaseApi
               /\ \A o \in Op : subgraph_idx'[o] = subgraph_idx'[n] => g.ops[o].api = g.ops[n].api
    <3>1. CASE subgraph_idx'[n] = l
      BY <1>1, <1>3, <1>9, <2>2, <3>1
    <3>2. CASE subgraph_idx'[n] # l
      BY <1>9, <1>11, <2>1, <2>3, <2>4, <3>2
    <3> QED
      BY <3>1, <3>2
  <2> QED
    BY <1>1, <1>7, <2>4 DEF Devices
<1>16. Joining'
  BY <1>1, <1>7 DEF Joining
<1> QED
  BY <1>1, <1>7, <1>12, <1>13, <1>14, <1>15, <1>16 DEF IInv, WalkInv, SortInv

(* A step of the merging loop that moves no op. *)
LEMMA OpsStayInv ==
  ASSUME IInv, phase = "merge", phase' = "merge",
         UNCHANGED <<g, next, stack, visited, subgraph_idx, into, plan>>, m' = m + 1,
         layer' \in Seq([sub : BOOLEAN, ops : Seq(Op), restricted_map : SUBSET DOMAIN layer]),
         DOMAIN layer' = DOMAIN layer,
         \A i \in DOMAIN layer : layer'[i].sub = layer[i].sub /\ layer'[i].ops = layer[i].ops
  PROVE  IInv'
<1>1. /\ FirstWalk /\ FirstWalk' /\ g \in OpGraph /\ TypeOK /\ WalkInv /\ Members /\ Devices
      /\ stack # <<>>
  BY DEF IInv, WalkInv, FirstWalk, Joining
<1>2. /\ Op' = Op /\ Node' = Op /\ Node = Op
      /\ Descends' /\ GonePast' /\ OutputsWalked' /\ Top' = Top
      /\ InputsDone' <=> InputsDone
      /\ \A o \in Op : OnStack(o)' <=> OnStack(o)
  BY <1>1, SameWalk
<1>3. Len(layer') = Len(layer)
  BY <1>1 DEF TypeOK
<1>4. TypeOK'
  <2>1. m' \in Nat
    BY <1>1 DEF TypeOK
  <2>2. layer' \in Seq([sub : BOOLEAN, ops : Seq(Op), restricted_map : SUBSET DOMAIN layer'])
    OBVIOUS
  <2>3. plan' \in Seq(DOMAIN layer') /\ into' \in Nat /\ subgraph_idx' \in [Op -> 0 .. Len(layer')]
    BY <1>1, <1>3 DEF TypeOK
  <2> QED
    BY <1>1, <1>2, <2>1, <2>2, <2>3 DEF TypeOK
<1>5. Placed' /\ Joining'
  BY <1>1, <1>2 DEF WalkInv, Placed, Joining
<1>6. Members'
  BY <1>1, <1>2 DEF Members
<1>7. Devices'
  <2>1. \A n \in Op : subgraph_idx[n] # 0 => subgraph_idx[n] \in DOMAIN layer
    BY LayerTypes
  <2> QED
    BY <1>1, <1>2, <2>1 DEF Devices
<1> QED
  BY <1>1, <1>2, <1>4, <1>5, <1>6, <1>7 DEF IInv, WalkInv, SortInv

LEMMA MergeSkipInv ==
  ASSUME IInv, MergeSkip
  PROVE  IInv'
<1>1. /\ phase = "merge" /\ phase' = "merge" /\ m' = m + 1 /\ layer' = layer
      /\ UNCHANGED <<g, next, stack, visited, subgraph_idx, into, plan>>
  BY DEF MergeSkip, walk
<1>2. layer' \in Seq([sub : BOOLEAN, ops : Seq(Op), restricted_map : SUBSET DOMAIN layer])
  BY <1>1 DEF IInv, TypeOK
<1> QED
  BY <1>1, <1>2, OpsStayInv

LEMMA MapGrows ==
  ASSUME IInv, NEW l \in DOMAIN layer, NEW x \in DOMAIN layer,
         layer' = [layer EXCEPT ![l].restricted_map = @ \cup {x}]
  PROVE  /\ layer' \in Seq([sub : BOOLEAN, ops : Seq(Op), restricted_map : SUBSET DOMAIN layer])
         /\ DOMAIN layer' = DOMAIN layer
         /\ \A i \in DOMAIN layer : layer'[i].sub = layer[i].sub /\ layer'[i].ops = layer[i].ops
<1> DEFINE S == [sub : BOOLEAN, ops : Seq(Op), restricted_map : SUBSET DOMAIN layer]
<1>1. Len(layer) \in Nat /\ DOMAIN layer = 1 .. Len(layer) /\ \A i \in DOMAIN layer : layer[i] \in S
  BY LayerTypes
<1>2. /\ DOMAIN layer' = DOMAIN layer /\ layer' = [i \in DOMAIN layer |-> layer'[i]]
      /\ \A i \in DOMAIN layer : i # l => layer'[i] = layer[i]
      /\ layer'[l] = [layer[l] EXCEPT !.restricted_map = @ \cup {x}]
  OBVIOUS
<1>3. layer'[l] \in S /\ layer'[l].sub = layer[l].sub /\ layer'[l].ops = layer[l].ops
  BY <1>1, <1>2
<1>4. \A i \in DOMAIN layer : layer'[i] \in S
  <2> HIDE DEF S
  <2> QED
    BY <1>1, <1>2, <1>3
<1>5. layer' \in Seq(S)
  <2>1. layer' = [i \in 1 .. Len(layer) |-> layer'[i]] /\ Len(layer) \in Nat
    BY <1>1, <1>2
  <2>2. \A i \in 1 .. Len(layer) : layer'[i] \in S
    BY <1>1, <1>4
  <2> HIDE DEF S
  <2> QED
    BY ONLY <2>1, <2>2
<1> QED
  BY <1>2, <1>3, <1>5

LEMMA MergeLayersInv ==
  ASSUME IInv, phase = "merge", phase' = "merge",
         UNCHANGED <<g, next, stack, visited, into, plan>>, m' = m + 1,
         NEW p \in Op, NEW t \in Op, g.ops[p].api = g.ops[t].api,
         NEW src, src = subgraph_idx[p], NEW dst, dst = subgraph_idx[t],
         src # dst, src # 0, dst # 0, MergeLayers(src, dst)
  PROVE  IInv'
<1> DEFINE S   == [sub : BOOLEAN, ops : Seq(Op), restricted_map : SUBSET DOMAIN layer]
           len == Len(layer)
<1>1. /\ FirstWalk /\ FirstWalk' /\ g \in OpGraph /\ TypeOK /\ WalkInv /\ Members /\ Devices
      /\ stack # <<>>
  BY DEF IInv, WalkInv, FirstWalk, Joining
<1>2. /\ Op' = Op /\ Node' = Op /\ Node = Op
      /\ Descends' /\ GonePast' /\ OutputsWalked' /\ Top' = Top
      /\ InputsDone' <=> InputsDone
      /\ \A o \in Op : OnStack(o)' <=> OnStack(o)
  BY <1>1, SameWalk
<1>3. /\ len \in Nat /\ DOMAIN layer = 1 .. len
      /\ \A n \in Op : subgraph_idx[n] \in 0 .. len
      /\ \A i \in DOMAIN layer : layer[i] \in S /\ layer[i].ops \in Seq(Op)
                               /\ layer[i].restricted_map \in SUBSET DOMAIN layer
      /\ src \in DOMAIN layer /\ dst \in DOMAIN layer
  BY LayerTypes
<1> DEFINE ops == layer[dst].ops \o layer[src].ops
           map == layer[dst].restricted_map \cup layer[src].restricted_map
<1>4. /\ ops \in Seq(Op) /\ Distinct(ops) /\ Elems(ops) = Elems(layer[dst].ops) \cup Elems(layer[src].ops)
  <2>1. Elems(layer[dst].ops) \cap Elems(layer[src].ops) = {}
    <3>1. \A n \in Elems(layer[dst].ops) : n \in Op
      BY <1>3 DEF Elems
    <3> QED
      BY <1>1, <1>3, <3>1 DEF Members
  <2> QED
    BY <1>1, <1>3, <2>1, JoinedElems DEF Members
<1>5. map \in SUBSET DOMAIN layer
  BY <1>3
<1>6. /\ DOMAIN layer' = DOMAIN layer /\ layer' = [i \in DOMAIN layer |-> layer'[i]]
      /\ \A i \in DOMAIN layer : i # src /\ i # dst => layer'[i] = layer[i]
      /\ layer'[dst] = [[layer[dst] EXCEPT !.ops = ops] EXCEPT !.restricted_map = map]
      /\ layer'[src] = [layer[src] EXCEPT !.ops = <<>>]
  BY <1>3 DEF MergeLayers
<1>7. \A n \in Op : subgraph_idx'[n] = IF subgraph_idx[n] = src THEN dst ELSE subgraph_idx[n]
  BY DEF MergeLayers
<1> HIDE DEF ops, map
<1>8. layer'[dst] \in S /\ layer'[dst].sub = layer[dst].sub /\ layer'[dst].ops = ops
  BY <1>3, <1>4, <1>5, <1>6
<1>9. layer'[src] \in S /\ layer'[src].sub = layer[src].sub /\ layer'[src].ops = <<>>
  <2>1. <<>> \in Seq(Op)
    OBVIOUS
  <2>2. layer[src] \in S
    BY <1>3
  <2> QED
    BY <1>6, <2>1, <2>2
<1>10. /\ layer' \in Seq(S) /\ Len(layer') = len
       /\ \A i \in DOMAIN layer : layer'[i].sub = layer[i].sub
  <2> HIDE DEF S
  <2>1. \A i \in DOMAIN layer : layer'[i] \in S /\ layer'[i].sub = layer[i].sub
    BY <1>3, <1>6, <1>8, <1>9
  <2> QED
    BY <1>3, <1>6, <2>1
<1>11. TypeOK'
  <2>1. subgraph_idx' \in [Op -> 0 .. len]
    BY <1>3 DEF MergeLayers
  <2>2. layer' \in Seq([sub : BOOLEAN, ops : Seq(Op), restricted_map : SUBSET DOMAIN layer'])
    BY <1>6, <1>10 DEF S
  <2>3. m' \in Nat
    BY <1>1 DEF TypeOK
  <2> QED
    BY <1>1, <1>2, <1>6, <1>10, <2>1, <2>2, <2>3 DEF TypeOK
<1>12. Placed' /\ Joining'
  <2>1. \A n \in Op : subgraph_idx'[n] # 0 <=> subgraph_idx[n] # 0
    BY <1>7
  <2> QED
    BY <1>1, <1>2, <2>1 DEF WalkInv, Placed, Joining
<1>13. Members'
  <2>1. ASSUME NEW i \in DOMAIN layer
        PROVE  /\ Distinct(layer'[i].ops)
               /\ \A n \in Op : n \in Elems(layer'[i].ops) <=> subgraph_idx'[n] = i
    <3>1. \A j \in DOMAIN layer : /\ Distinct(layer[j].ops)
                                  /\ \A n \in Op : n \in Elems(layer[j].ops) <=> subgraph_idx[n] = j
      BY <1>1 DEF Members
    <3>2. CASE i = src
      <4>1. Distinct(<<>>) /\ Elems(<<>>) = {}
        BY DEF Distinct, Elems
      <4> QED
        BY <1>7, <1>9, <3>2, <4>1
    <3>3. CASE i = dst
      BY <1>3, <1>4, <1>7, <1>8, <3>1, <3>3, SMTT(30)
    <3>4. CASE i # src /\ i # dst
      BY <1>6, <1>7, <3>1, <3>4
    <3> QED
      BY <3>2, <3>3, <3>4
  <2> QED
    BY <1>2, <1>6, <2>1 DEF Members
<1>14. Devices'
  <2>1. \A n \in Op : subgraph_idx[n] # 0 =>
          /\ layer[subgraph_idx[n]].sub <=> g.ops[n].api # BaseApi
          /\ \A o \in Op : subgraph_idx[o] = subgraph_idx[n] => g.ops[o].api = g.ops[n].api
    BY <1>1 DEF Devices
  <2>2. \A n \in Op : subgraph_idx[n] \in {src, dst} => g.ops[n].api = g.ops[t].api
    BY <2>1
  <2>3. ASSUME NEW n \in Op, subgraph_idx'[n] # 0
        PROVE  /\ layer'[subgraph_idx'[n]].sub <=> g.ops[n].api # BaseApi
               /\ \A o \in Op : subgraph_idx'[o] = subgraph_idx'[n] => g.ops[o].api = g.ops[n].api
    <3>1. CASE subgraph_idx[n] \in {src, dst}
      <4>1. subgraph_idx'[n] = dst /\ \A o \in Op : subgraph_idx'[o] = dst => subgraph_idx[o] \in {src, dst}
        BY <1>7, <3>1
      <4>2. layer[dst].sub <=> g.ops[t].api # BaseApi
        BY <2>1
      <4> QED
        BY <1>3, <1>10, <2>2, <3>1, <4>1, <4>2
    <3>2. CASE subgraph_idx[n] \notin {src, dst}
      <4>1. /\ subgraph_idx'[n] = subgraph_idx[n] /\ subgraph_idx[n] \in DOMAIN layer
            /\ \A o \in Op : subgraph_idx'[o] = subgraph_idx'[n] => subgraph_idx[o] = subgraph_idx[n]
        BY <1>3, <1>7, <2>3, <3>2
      <4> QED
        BY <1>10, <2>1, <2>3, <4>1
    <3> QED
      BY <3>1, <3>2
  <2> QED
    BY <1>2, <2>3 DEF Devices
<1> QED
  BY <1>1, <1>2, <1>11, <1>12, <1>13, <1>14 DEF IInv, WalkInv, SortInv

LEMMA MergeInputInv ==
  ASSUME IInv, MergeInput
  PROVE  IInv'
<1> DEFINE src == InLayer(Top, m)
           dst == subgraph_idx[Top]
           p   == Producer(g.ops[Top].in[m])
<1>1. /\ phase = "merge" /\ phase' = "merge" /\ FirstWalk /\ m' = m + 1
      /\ UNCHANGED <<g, next, stack, visited, into, plan>>
      /\ stack # <<>> /\ InputsDone
      /\ m \in ProducedIn(Top) /\ src # dst
  BY DEF MergeInput, Merging, walk, FirstWalk, IInv, WalkInv, Joining
<1>2. p \in Op /\ src = subgraph_idx[p] /\ src # 0 /\ src \in DOMAIN layer /\ Top \in Op /\ Top \in visited
  BY <1>1, InputsPlaced, TopProperties
<1>3. dst # 0 /\ dst \in DOMAIN layer
  <2>1. dst # 0
    BY <1>1, <1>2 DEF IInv, WalkInv, Placed
  <2> QED
    BY <1>2, <2>1, LayerTypes
<1>4. InDevice(Top, m) = g.ops[p].api
  BY DEF InDevice
<1>5. \/ layer' = [layer EXCEPT ![dst].restricted_map = @ \cup {src}] /\ UNCHANGED subgraph_idx
      \/ layer' = [layer EXCEPT ![src].restricted_map = @ \cup {dst}] /\ UNCHANGED subgraph_idx
      \/ MergeLayers(src, dst) /\ g.ops[p].api = g.ops[Top].api
  BY <1>4 DEF MergeInput
<1> HIDE DEF src, dst, p
<1>6. CASE layer' = [layer EXCEPT ![dst].restricted_map = @ \cup {src}] /\ UNCHANGED subgraph_idx
  BY <1>1, <1>2, <1>3, <1>6, MapGrows, OpsStayInv
<1>7. CASE layer' = [layer EXCEPT ![src].restricted_map = @ \cup {dst}] /\ UNCHANGED subgraph_idx
  BY <1>1, <1>2, <1>3, <1>7, MapGrows, OpsStayInv
<1>8. CASE MergeLayers(src, dst) /\ g.ops[p].api = g.ops[Top].api
  BY <1>1, <1>2, <1>3, <1>8, MergeLayersInv DEF dst
<1> QED
  BY <1>5, <1>6, <1>7, <1>8

LEMMA MergeDoneInv ==
  ASSUME IInv, MergeDone
  PROVE  IInv'
<1>1. /\ phase = "merge" /\ FirstWalk /\ phase' = "fuse" /\ stack' = Front(stack) /\ stack # <<>>
      /\ UNCHANGED <<g, next, visited, plan, layer, subgraph_idx, into, m>>
      /\ g \in OpGraph /\ TypeOK /\ WalkInv
  BY DEF MergeDone, Visited, FirstWalk, IInv, WalkInv, Joining
<1>2. /\ stack' \in Seq(Op \X (Nat \ {0})) /\ Op' = Op
      /\ Descends' /\ GonePast' /\ OutputsWalked' /\ Joining' /\ FirstWalk'
      /\ \A o \in Op : OnStack(o)' <=> OnStack(o) /\ o # Top
  BY <1>1, Popped
<1>3. TypeOK'
  <2>1. Node = Op /\ Node' = Op
    BY <1>1, <1>2 DEF Node, FirstWalk
  <2> QED
    BY <1>1, <1>2, <2>1 DEF TypeOK
<1>4. Placed'
  <2>1. \A o \in Op : subgraph_idx[o] # 0 <=> o \in visited /\ (OnStack(o) => o = Top)
    BY <1>1 DEF WalkInv, Placed
  <2>2. \A o \in Op : subgraph_idx[o] # 0 <=> o \in visited /\ ~OnStack(o)'
    BY <1>2, <2>1
  <2> QED
    BY <1>1, <1>2, <2>2 DEF Placed
<1> QED
  BY <1>1, <1>2, <1>3, <1>4 DEF IInv, WalkInv, Members, Devices, SortInv
-----------------------------------------------------------------------------
(* The second walk moves no op. *)

LEMMA SecondWalk ==
  ASSUME IInv, ~FirstWalk', UNCHANGED <<g, layer, subgraph_idx>>, TypeOK',
         \A o \in DOMAIN g.output : Above(g.output[o]) # 0
  PROVE  IInv'
<1>1. Op' = Op /\ \A t : Producer(t)' = Producer(t)
  BY SameGraph
<1>2. Members' /\ Devices'
  BY <1>1 DEF IInv, Members, Devices
<1>3. SortInv'
  BY <1>1 DEF SortInv, Above
<1> QED
  BY <1>2, <1>3 DEF IInv, WalkInv

Index == DOMAIN layer

LEMMA AboveLayer ==
  ASSUME IInv, NEW t
  PROVE  Above(t) \in Index \cup {0}
<1>1. Producer(t) \in Op \cup {0}
  BY ProducerIsOp
<1> QED
  BY <1>1, LayerTypes DEF Above, Index

LEMMA SecondTypes ==
  ASSUME IInv, ~FirstWalk
  PROVE  /\ stack \in Seq(Index \X (Nat \ {0})) /\ visited \subseteq Index
         /\ stack # <<>> => Top \in Index /\ TopInput \in Nat \ {0}
<1> DEFINE S == Index \X (Nat \ {0})
<1>1. Node = Index
  BY DEF Node, Index, FirstWalk
<1>2. stack \in Seq(S) /\ visited \subseteq Index
  BY <1>1 DEF IInv, TypeOK
<1>3. ASSUME stack # <<>> PROVE Top \in Index /\ TopInput \in Nat \ {0}
  <2>1. Last(stack) \in S
    <3> HIDE DEF S
    <3> QED
      BY <1>2, <1>3, FrontProperties
  <2> QED
    BY <2>1 DEF Top, TopInput
<1> QED
  BY <1>2, <1>3

LEMMA SecondTypesKept ==
  ASSUME IInv, ~FirstWalk, ~FirstWalk', UNCHANGED <<g, layer, subgraph_idx, into, m>>,
         phase' \in {"sort", "ready"}, next' \in 1 .. Len(g.output) + 1,
         stack' \in Seq(Index \X (Nat \ {0})), visited' \subseteq Index,
         plan' = plan \/ \E l \in Index : plan' = Append(plan, l)
  PROVE  IInv'
<1>1. Node' = Index /\ Op' = Op
  BY SameGraph DEF Node, Index, FirstWalk
<1>2. plan' \in Seq(Index)
  <2>1. plan \in Seq(Index)
    BY DEF IInv, TypeOK, Index
  <2>2. plan' = plan \/ \E l \in Index : plan' = Append(plan, l)
    OBVIOUS
  <2> QED
    BY ONLY <2>1, <2>2, Appended
<1>3. plan' \in Seq(DOMAIN layer')
  BY <1>2 DEF Index
<1>4. stack' \in Seq(Node' \X (Nat \ {0})) /\ visited' \in SUBSET Node'
  BY <1>1
<1>5. TypeOK'
  BY <1>1, <1>3, <1>4 DEF IInv, TypeOK
<1> QED
  BY <1>5, SecondWalk DEF IInv, SortInv

LEMMA WalkOutputSecond ==
  ASSUME IInv, WalkOutput, phase = "sort"
  PROVE  IInv'
<1> DEFINE n == NodeOf(g.output[next])
           S == Index \X (Nat \ {0})
<1>1. /\ ~FirstWalk /\ ~FirstWalk' /\ phase' \in {"sort", "ready"}
      /\ UNCHANGED <<g, phase, layer, subgraph_idx, into, m, plan>> /\ next' = next + 1
      /\ stack = <<>> /\ g \in OpGraph /\ SortInv
  BY DEF WalkOutput, FirstWalk, IInv
<1>2. next \in DOMAIN g.output /\ next' \in 1 .. Len(g.output) + 1
  BY <1>1, GraphTypes DEF IInv, TypeOK, WalkOutput
<1>3. n \in Index
  BY <1>1, <1>2, AboveLayer DEF NodeOf, SortInv
<1>4. \/ UNCHANGED <<stack, visited>>
      \/ stack' = << <<n, 1>> >> /\ visited' = visited \cup {n}
  BY DEF WalkOutput
<1>5. stack \in Seq(S) /\ visited \subseteq Index
  BY <1>1, SecondTypes
<1> HIDE DEF n
<1>6. << <<n, 1>> >> \in Seq(S)
  <2>1. <<n, 1>> \in S
    BY <1>3
  <2> HIDE DEF S
  <2> QED
    BY <2>1
<1>7. stack' \in Seq(S) /\ visited' \subseteq Index
  <2> HIDE DEF S
  <2> QED
    BY <1>3, <1>4, <1>5, <1>6
<1> QED
  BY <1>1, <1>2, <1>7, SecondTypesKept

LEMMA WalkInputSecond ==
  ASSUME IInv, WalkInput, phase = "sort"
  PROVE  IInv'
<1> DEFINE n == NodeOf(Inputs(Top)[TopInput])
           S == Index \X (Nat \ {0})
           e == <<Top, TopInput + 1>>
           a == Append(Front(stack), e)
<1>1. /\ ~FirstWalk /\ ~FirstWalk' /\ phase' \in {"sort", "ready"}
      /\ UNCHANGED <<g, phase, layer, subgraph_idx, into, m, plan, next>>
      /\ stack # <<>> /\ g \in OpGraph
  BY DEF WalkInput, FirstWalk, IInv
<1>2. stack \in Seq(S) /\ visited \subseteq Index /\ Top \in Index /\ TopInput \in Nat \ {0}
  BY <1>1, SecondTypes
<1>3. n \in Index \cup {0}
  BY <1>1, AboveLayer DEF NodeOf
<1>4. \/ stack' = a /\ UNCHANGED visited
      \/ n # 0 /\ stack' = Append(a, <<n, 1>>) /\ visited' = visited \cup {n}
  BY DEF WalkInput
<1>5. next' \in 1 .. Len(g.output) + 1
  BY <1>1 DEF IInv, TypeOK
<1> HIDE DEF n
<1>6. e \in S
  BY <1>2
<1>7. n # 0 => n \in Index /\ <<n, 1>> \in S
  BY <1>3
<1> HIDE DEF S, e
<1>8. a \in Seq(S)
  BY <1>1, <1>2, <1>6, Exchanged
<1> HIDE DEF a
<1>9. stack' \in Seq(S) /\ visited' \subseteq Index
  <2>1. n # 0 => Append(a, <<n, 1>>) \in Seq(S)
    BY <1>7, <1>8, Appended
  <2> QED
    BY <1>2, <1>4, <1>7, <1>8, <2>1
<1> QED
  BY <1>1, <1>5, <1>9, SecondTypesKept DEF S

LEMMA RebuildInv ==
  ASSUME IInv, Rebuild
  PROVE  IInv'
<1>1. /\ FirstWalk /\ ~FirstWalk' /\ g \in OpGraph /\ TypeOK /\ WalkInv /\ stack = <<>>
      /\ phase' = "sort" /\ next' = 1 /\ visited' = {} /\ next > Len(g.output)
      /\ UNCHANGED <<g, stack, layer, subgraph_idx, into, m, plan>> /\ Op' = Op
  BY SameGraph DEF Rebuild, FirstWalk, IInv
<1>2. TypeOK'
  <2>1. next' \in 1 .. Len(g.output) + 1
    BY <1>1, GraphTypes
  <2>2. stack' \in Seq(Node' \X (Nat \ {0}))
    BY <1>1
  <2> QED
    BY <1>1, <2>1, <2>2 DEF TypeOK
<1>3. \A n \in Op : n \in visited => subgraph_idx[n] # 0
  BY <1>1 DEF WalkInv, Placed, OnStack
<1>4. ASSUME NEW o \in DOMAIN g.output PROVE Above(g.output[o]) # 0
  <2>1. Producer(g.output[o]) \in Op /\ Producer(g.output[o]) # 0
    BY <1>1, OutputsProduced
  <2>2. o < next
    BY <1>1, GraphTypes DEF TypeOK
  <2>3. Producer(g.output[o]) \in visited
    BY <1>1, <2>2 DEF WalkInv, OutputsWalked
  <2> QED
    BY <1>3, <2>1, <2>3 DEF Above
<1> QED
  BY <1>1, <1>2, <1>4, SecondWalk

LEMMA SortLayerInv ==
  ASSUME IInv, SortLayer
  PROVE  IInv'
<1> DEFINE S == Index \X (Nat \ {0})
<1>1. /\ ~FirstWalk /\ ~FirstWalk' /\ phase' \in {"sort", "ready"} /\ stack # <<>>
      /\ UNCHANGED <<g, phase, layer, subgraph_idx, into, m, next, visited>>
      /\ plan' = Append(plan, Top) /\ stack' = Front(stack)
  BY DEF SortLayer, FirstWalk
<1>2. stack \in Seq(S) /\ visited \subseteq Index /\ Top \in Index
  BY <1>1, SecondTypes
<1>3. next' \in 1 .. Len(g.output) + 1
  BY <1>1 DEF IInv, TypeOK
<1>4. stack' \in Seq(S)
  <2> HIDE DEF S
  <2> QED
    BY <1>1, <1>2, FrontProperties
<1> QED
  BY <1>1, <1>2, <1>3, <1>4, SecondTypesKept

LEMMA SortDoneInv ==
  ASSUME IInv, SortDone
  PROVE  IInv'
<1>1. /\ ~FirstWalk /\ ~FirstWalk' /\ phase' \in {"sort", "ready"}
      /\ UNCHANGED <<g, next, stack, visited, layer, subgraph_idx, into, m, plan>>
  BY DEF SortDone, FirstWalk, walk
<1>2. next' \in 1 .. Len(g.output) + 1
  BY <1>1 DEF IInv, TypeOK
<1> QED
  BY <1>1, <1>2, SecondTypes, SecondTypesKept
-----------------------------------------------------------------------------
LEMMA NextInv == IInv /\ [Next]_vars => IInv'
<1> SUFFICES ASSUME IInv, [Next]_vars PROVE IInv'
  OBVIOUS
<1>1. CASE WalkOutput
  BY <1>1, WalkOutputFirst, WalkOutputSecond DEF WalkOutput
<1>2. CASE WalkInput
  BY <1>2, WalkInputFirst, WalkInputSecond DEF WalkInput
<1>3. CASE FuseCpu \/ FuseRoot \/ FuseRestricted
  BY <1>3, FuseAloneInv
<1>4. CASE FuseInto
  BY <1>4, FuseIntoInv
<1>5. CASE MergeSkip
  BY <1>5, MergeSkipInv
<1>6. CASE MergeInput
  BY <1>6, MergeInputInv
<1>7. CASE MergeDone
  BY <1>7, MergeDoneInv
<1>8. CASE Rebuild
  BY <1>8, RebuildInv
<1>9. CASE SortLayer
  BY <1>9, SortLayerInv
<1>10. CASE SortDone
  BY <1>10, SortDoneInv
<1>11. CASE UNCHANGED vars
  <2>1. Op' = Op /\ (FirstWalk <=> FirstWalk') /\ \A t : Producer(t)' = Producer(t)
    BY <1>11, SameGraph DEF vars, FirstWalk
  <2>5. Node' = Node /\ Top' = Top /\ TopInput' = TopInput
    BY <1>11, <2>1 DEF vars, Node, Top, TopInput
  <2>6. FirstWalk => (InputsDone' <=> InputsDone)
    BY <1>11, <2>5 DEF vars, InputsDone, Inputs, FirstWalk
  <2>2. TypeOK'
    BY <1>11, <2>1, <2>5 DEF vars, IInv, TypeOK
  <2>3. WalkInv'
    BY <1>11, <2>1, <2>5, <2>6 DEF vars, IInv, WalkInv, Descends, GonePast, Placed, OnStack, OutputsWalked, Joining
  <2>4. Members' /\ Devices' /\ SortInv'
    BY <1>11, <2>1 DEF vars, IInv, Members, Devices, SortInv, Above
  <2> QED
    BY <1>11, <2>2, <2>3, <2>4 DEF vars, IInv
<1> QED
  BY <1>1, <1>2, <1>3, <1>4, <1>5, <1>6, <1>7, <1>8, <1>9, <1>10, <1>11
  DEF Next, Walk, Fuse, Merge, Sort

(* What the four properties below follow from. *)
THEOREM Invariance == Spec => []IInv
  BY InitInv, NextInv, PTL DEF Spec

(* shl_gref_session_setup never leaves its tables: the stack, the marks, the *)
(* layers and the indices stay what their types say.                         *)
THEOREM TypeCorrect == Spec => []TypeOK
<1>1. IInv => TypeOK
  BY DEF IInv
<1> QED
  BY <1>1, Invariance, PTL

LEMMA MembersCount ==
  ASSUME IInv, NEW n \in Op, NEW l \in DOMAIN layer
  PROVE  Cardinality({k \in DOMAIN layer[l].ops : layer[l].ops[k] = n})
           = IF subgraph_idx[n] = l THEN 1 ELSE 0
<1> DEFINE at == {k \in DOMAIN layer[l].ops : layer[l].ops[k] = n}
<1>1. Distinct(layer[l].ops) /\ (n \in Elems(layer[l].ops) <=> subgraph_idx[n] = l)
  BY DEF IInv, Members
<1>2. CASE subgraph_idx[n] = l
  <2>1. PICK k \in DOMAIN layer[l].ops : layer[l].ops[k] = n
    BY <1>1, <1>2 DEF Elems
  <2>2. at = {k}
    BY <1>1, <2>1 DEF Distinct
  <2> QED
    BY <1>2, <2>2, FS_Singleton
<1>3. CASE subgraph_idx[n] # l
  <2>1. at = {}
    BY <1>1, <1>3 DEF Elems
  <2> QED
    BY <1>3, <2>1, FS_EmptySet
<1> QED
  BY <1>2, <1>3

(* shl_subgraph_fvisit_fuse loses no op and duplicates none: whatever layers *)
(* were fused, an op is in one layer, once, and subgraph_idx names it.       *)
THEOREM OpsInOneLayer == Spec => []OneLayerEach
<1>1. IInv => OneLayerEach
  BY MembersCount DEF OneLayerEach
<1> QED
  BY <1>1, Invariance, PTL

(* A subgraph is of one device, that of every op in it, and never of the     *)
(* base API: one session can run it (shl_subgraph_setup).                    *)
THEOREM DeviceOnce == Spec => []OneDevice
<1>1. IInv => OneDevice
  <2> SUFFICES ASSUME IInv, NEW l \in Live, NEW k \in DOMAIN layer[l].ops
               PROVE  /\ g.ops[layer[l].ops[k]].api = g.ops[layer[l].ops[1]].api
                      /\ g.ops[layer[l].ops[k]].api = BaseApi <=> ~layer[l].sub
    BY DEF OneDevice
  <2>1. l \in DOMAIN layer /\ layer[l].ops # <<>> /\ l # 0 /\ layer[l].ops \in Seq(Op)
    BY LayerTypes DEF Live
  <2>2. 1 \in DOMAIN layer[l].ops
    BY <2>1
  <2>3. \A i \in DOMAIN layer[l].ops : layer[l].ops[i] \in Op /\ subgraph_idx[layer[l].ops[i]] = l
    BY <2>1, LayerTypes DEF IInv, Members, Elems
  <2> QED
    BY <2>1, <2>2, <2>3 DEF IInv, Devices
<1> QED
  BY <1>1, Invariance, PTL

(* The layer of an op is not empty. *)
LEMMA LayerInhabited ==
  ASSUME IInv, NEW n \in Op, subgraph_idx[n] # 0
  PROVE  subgraph_idx[n] \in DOMAIN layer /\ layer[subgraph_idx[n]].ops # <<>>
<1>1. subgraph_idx[n] \in DOMAIN layer
  BY LayerTypes
<1>2. n \in Elems(layer[subgraph_idx[n]].ops)
  BY <1>1 DEF IInv, Members
<1> QED
  BY <1>1, <1>2 DEF Elems

(* An op never joins a layer that was fused away: its index in a restricted  *)
(* map stays the index of nothing.                                           *)
THEOREM EmptiedStay == Spec => EmptiedForGood
<1> DEFINE Stays == \A l \in DOMAIN layer : layer[l].ops = <<>> => layer'[l].ops = <<>>
<1>1. IInv /\ [Next]_vars => [Stays]_vars
  <2> SUFFICES ASSUME IInv, Next PROVE Stays
    OBVIOUS
  <2>1. Len(layer) \in Nat /\ DOMAIN layer = 1 .. Len(layer)
    BY LayerTypes
  <2>2. CASE UNCHANGED layer
    BY <2>2
  <2>3. CASE FuseCpu \/ FuseRoot \/ FuseRestricted
    <3>1. PICK L : layer' = Append(layer, L)
      BY <2>3 DEF FuseCpu, FuseRoot, FuseRestricted, NewLayer
    <3>2. \A l \in DOMAIN layer : layer'[l] = layer[l]
      BY <2>1, <3>1 DEF IInv, TypeOK
    <3> QED
      BY <3>2
  <2>4. CASE FuseInto
    <3> DEFINE l == InLayer(Top, into')
    <3>1. /\ FirstWalk /\ stack # <<>> /\ InputsDone /\ into' \in ProducedIn(Top)
          /\ layer' = [layer EXCEPT ![l].ops = Append(@, Top)]
      BY <2>4 DEF FuseInto, Fusing, FirstWalk, CanFuse, SameDevice
    <3>2. PICK p \in Op : l = subgraph_idx[p] /\ l # 0
      BY <3>1, InputsPlaced
    <3>3. layer[l].ops # <<>>
      BY <3>2, LayerInhabited
    <3> HIDE DEF l
    <3>4. \A i \in DOMAIN layer : i # l => layer'[i] = layer[i]
      BY <3>1
    <3> QED
      BY <3>3, <3>4
  <2>5. CASE MergeInput
    <3> DEFINE src == InLayer(Top, m)
               dst == subgraph_idx[Top]
    <3>1. phase = "merge" /\ FirstWalk /\ stack # <<>>
      BY <2>5 DEF MergeInput, FirstWalk, IInv, WalkInv, Joining
    <3>2. Top \in Op /\ dst # 0
      <4>1. Top \in Op /\ Top \in visited
        BY <3>1, TopProperties
      <4> QED
        BY <3>1, <4>1 DEF IInv, WalkInv, Placed
    <3>3. layer[dst].ops # <<>>
      BY <3>2, LayerInhabited
    <3>4. \/ layer' = [layer EXCEPT ![dst].restricted_map = @ \cup {src}]
          \/ layer' = [layer EXCEPT ![src].restricted_map = @ \cup {dst}]
          \/ MergeLayers(src, dst)
      BY <2>5 DEF MergeInput
    <3> HIDE DEF src, dst
    <3>5. \A i \in DOMAIN layer :
            layer'[i].ops = layer[i].ops \/ i = dst \/ layer'[i].ops = <<>>
      <4>2. CASE layer' = [layer EXCEPT ![dst].restricted_map = @ \cup {src}]
        BY <4>2
      <4>3. CASE layer' = [layer EXCEPT ![src].restricted_map = @ \cup {dst}]
        <5> SUFFICES ASSUME NEW i \in DOMAIN layer PROVE layer'[i].ops = layer[i].ops
          OBVIOUS
        <5>1. i # src => layer'[i] = layer[i]
          BY <4>3
        <5>2. i = src => layer'[i] = [layer[i] EXCEPT !.restricted_map = @ \cup {dst}]
          BY <4>3
        <5>3. "ops" \in DOMAIN layer[i]
          BY LayerTypes
        <5> QED
          BY <5>1, <5>2, <5>3
      <4>4. CASE MergeLayers(src, dst)
        <5> SUFFICES ASSUME NEW i \in DOMAIN layer, i # dst
                     PROVE layer'[i].ops = layer[i].ops \/ layer'[i].ops = <<>>
          OBVIOUS
        <5>1. i # src => layer'[i] = layer[i]
          BY <4>4 DEF MergeLayers
        <5>2. i = src => layer'[i] = [layer[i] EXCEPT !.ops = <<>>]
          BY <4>4 DEF MergeLayers
        <5>3. "ops" \in DOMAIN layer[i]
          BY LayerTypes
        <5> QED
          BY <5>1, <5>2, <5>3
      <4> QED
        BY <3>4, <4>2, <4>3, <4>4
    <3> QED
      BY <3>3, <3>5
  <2> QED
    BY <2>2, <2>3, <2>4, <2>5
    DEF Next, Walk, Fuse, Merge, Sort, WalkOutput, WalkInput, MergeSkip, MergeDone,
        Rebuild, SortLayer, SortDone
<1>2. Spec => [][Stays]_vars
  BY <1>1, Invariance, PTL DEF Spec
<1> QED
  BY <1>2 DEF EmptiedForGood

-----------------------------------------------------------------------------
(* Sequences: the elements at some positions, and sequences joined. *)

LEMMA ElemsAppended ==
  ASSUME NEW T, NEW a \in Seq(T), NEW t \in T
  PROVE  /\ Append(a, t) \in Seq(T) /\ Elems(Append(a, t)) = Elems(a) \cup {t}
<1>1. /\ Append(a, t) \in Seq(T) /\ Len(a) \in Nat
      /\ DOMAIN Append(a, t) = 1 .. Len(a) + 1 /\ DOMAIN a = 1 .. Len(a)
      /\ \A k \in 1 .. Len(a) : Append(a, t)[k] = a[k]
      /\ Append(a, t)[Len(a) + 1] = t
  OBVIOUS
<1>2. 1 .. Len(a) + 1 = (1 .. Len(a)) \cup {Len(a) + 1} /\ Len(a) + 1 \notin 1 .. Len(a)
  BY <1>1
<1>3. Elems(Append(a, t)) = Elems(a) \cup {t}
  BY <1>1, <1>2 DEF Elems
<1> QED
  BY <1>1, <1>3

LEMMA ElemsJoined ==
  ASSUME NEW T, NEW a \in Seq(T), NEW b \in Seq(T)
  PROVE  a \o b \in Seq(T) /\ Elems(a \o b) = Elems(a) \cup Elems(b)
<1> DEFINE c == a \o b
           p == Len(a)
           q == Len(b)
<1>1. /\ c \in Seq(T) /\ p \in Nat /\ q \in Nat /\ Len(c) = p + q
      /\ DOMAIN c = 1 .. p + q /\ DOMAIN a = 1 .. p /\ DOMAIN b = 1 .. q
      /\ (\A k \in 1 .. p : c[k] = a[k]) /\ \A k \in 1 .. q : c[p + k] = b[k]
  OBVIOUS
<1> HIDE DEF c, p, q
<1>2. \A x \in 1 .. p + q : x \in 1 .. p \/ (x - p \in 1 .. q /\ x = p + (x - p))
  BY <1>1
<1>3. (\A x \in 1 .. p : x \in 1 .. p + q) /\ \A k \in 1 .. q : p + k \in 1 .. p + q
  BY <1>1
<1>4. Elems(c) \subseteq Elems(a) \cup Elems(b)
  <2>1. \A x \in 1 .. p + q : c[x] \in Elems(a) \cup Elems(b)
    <3> SUFFICES ASSUME NEW x \in 1 .. p + q PROVE c[x] \in Elems(a) \cup Elems(b)
      OBVIOUS
    <3>1. CASE x \in 1 .. p
      BY <1>1, <3>1 DEF Elems
    <3>2. CASE x - p \in 1 .. q /\ x = p + (x - p)
      <4>1. c[x] = b[x - p] /\ x - p \in DOMAIN b
        BY <1>1, <3>2
      <4> QED
        BY <4>1 DEF Elems
    <3> QED
      BY <1>2, <3>1, <3>2
  <2> QED
    BY <1>1, <2>1 DEF Elems
<1>5. Elems(a) \subseteq Elems(c) /\ Elems(b) \subseteq Elems(c)
  BY <1>1, <1>3 DEF Elems
<1> QED
  BY <1>1, <1>4, <1>5 DEF c

(* The sequences of a sequence, one after the other. *)
LEMMA Flattened ==
  ASSUME NEW T, NEW q \in Seq(Seq(T))
  PROVE  /\ FlattenSeq(q) \in Seq(T)
         /\ Elems(FlattenSeq(q)) = UNION {Elems(q[k]) : k \in DOMAIN q}
         /\ Len(q) = 1 => FlattenSeq(q) = q[1]
<1> DEFINE n == Len(q)
           V == Seq(T)
           it == CHOOSE f : f = [x \in 1 .. n |-> IF x = 1 THEN q[x] ELSE f[x - 1] \o q[x]]
           F == [x \in (1 .. n) \X V |-> x[2] \o q[x[1]]]
           Good(s, k) == s \in V /\ Elems(s) = UNION {Elems(q[o]) : o \in 1 .. k}
<1>1. n \in Nat /\ DOMAIN q = 1 .. n /\ \A x \in 1 .. n : q[x] \in V
  OBVIOUS
<1>2. CASE n = 0
  <2>1. FlattenSeq(q) = q /\ q = <<>>
    <3>1. FlattenSeq(q) = q
      BY <1>2, Zenon DEF FlattenSeq
    <3>2. q = <<>>
      BY <1>2
    <3> QED
      BY <3>1, <3>2
  <2>2. Elems(<<>>) = {}
    BY DEF Elems
  <2> QED
    BY <1>1, <1>2, <2>1, <2>2
<1>3. CASE n # 0
  <2>1. FlattenSeq(q) = it[n]
    BY <1>3, Zenon DEF FlattenSeq
  <2>2. <<>> \in V /\ \A v \in V, k \in 1 .. n : v \o q[k] \in V
    BY <1>1
  <2>3. F \in [(1 .. n) \X V -> V] /\ \A v \in V, k \in 1 .. n : F[<<k, v>>] = v \o q[k]
    BY <2>2
  <2> HIDE DEF F, n, V
  <2>4. PICK h : IsFold(h, V, <<>>, n, F)
    <3>1. n \in Nat /\ <<>> \in V /\ F \in Steps(V, n)
      BY <1>1, <2>2, <2>3 DEF Steps
    <3> HIDE DEF it
    <3> QED
      BY <3>1, FoldExists
  <2> DEFINE w == [x \in 1 .. n |-> h[1 .. x]]
  <2>5. ASSUME NEW x \in 1 .. n PROVE h[1 .. x] = IF x = 1 THEN q[x] ELSE h[1 .. x - 1] \o q[x]
    <3>1. /\ 1 .. x \in SUBSET (1 .. n) /\ 1 .. x # {}
          /\ Max(1 .. x) = x /\ (1 .. x) \ {x} = 1 .. x - 1
      BY <1>1, Prefix
    <3>2. h[1 .. x] = F[<<x, h[1 .. x - 1]>>]
      <4> DEFINE P == 1 .. x
      <4>1. P \in SUBSET (1 .. n) /\ P # {} /\ Max(P) = x /\ P \ {x} = 1 .. x - 1
        BY <3>1
      <4> HIDE DEF P
      <4>2. h[P] = F[<<Max(P), h[P \ {Max(P)}]>>]
        BY <2>4, <4>1 DEF IsFold
      <4> QED
        BY <4>1, <4>2, Zenon DEF P
    <3>3. h[1 .. x - 1] \in V
      <4>1. (1 .. x - 1) \in SUBSET (1 .. n)
        BY <3>1
      <4> QED
        BY <2>4, <4>1 DEF IsFold
    <3>4. h[1 .. x] = h[1 .. x - 1] \o q[x]
      BY <2>3, <3>2, <3>3
    <3>5. CASE x = 1
      <4>1. 1 .. x - 1 = {} /\ {} \in SUBSET (1 .. n)
        BY <3>5
      <4>2. h[1 .. x - 1] = <<>>
        BY <2>4, <4>1 DEF IsFold
      <4>3. <<>> \o q[x] = q[x]
        BY <1>1 DEF V
      <4> QED
        BY <3>4, <3>5, <4>2, <4>3
    <3> QED
      BY <3>4, <3>5
  <2>6. w = [x \in 1 .. n |-> IF x = 1 THEN q[x] ELSE w[x - 1] \o q[x]]
    <3>1. \A x \in 1 .. n : x # 1 => x - 1 \in 1 .. n
      BY <1>1
    <3>2. \A x \in 1 .. n : w[x] = IF x = 1 THEN q[x] ELSE w[x - 1] \o q[x]
      BY <2>5, <3>1
    <3> QED
      BY <3>2
  <2> HIDE DEF w
  <2>7. it = [x \in 1 .. n |-> IF x = 1 THEN q[x] ELSE it[x - 1] \o q[x]]
    BY <2>6
  <2> HIDE DEF it
  <2> DEFINE S == {k \in 0 .. n : k = 0 \/ Good(it[k], k)}
  <2>8. 0 \in S
    BY <1>1
  <2>9. ASSUME NEW k \in 0 .. n - 1, k \in S PROVE k + 1 \in S
    <3>1. k + 1 \in 1 .. n /\ k + 1 \in 0 .. n /\ (k + 1) - 1 = k /\ k \in Nat /\ (k # 0 => k + 1 # 1)
      BY <1>1
    <3>2. it[k + 1] = IF k = 0 THEN q[k + 1] ELSE it[k] \o q[k + 1]
      <4> DEFINE x == k + 1
      <4>1. x \in 1 .. n /\ x - 1 = k /\ (x = 1 <=> k = 0)
        BY <3>1
      <4> HIDE DEF x
      <4>2. it[x] = IF x = 1 THEN q[x] ELSE it[x - 1] \o q[x]
        BY <2>7, <4>1
      <4> QED
        BY <4>1, <4>2 DEF x
    <3>3. q[k + 1] \in Seq(T)
      BY <1>1, <3>1 DEF V
    <3>4. 1 .. k + 1 = (1 .. k) \cup {k + 1}
      BY <3>1
    <3>5. UNION {Elems(q[o]) : o \in 1 .. k + 1} = (UNION {Elems(q[o]) : o \in 1 .. k}) \cup Elems(q[k + 1])
      BY <3>4
    <3>6. CASE k = 0
      <4>1. UNION {Elems(q[o]) : o \in 1 .. k} = {}
        BY <3>6
      <4>2. Good(it[k + 1], k + 1)
        BY <3>2, <3>3, <3>5, <3>6, <4>1 DEF V
      <4> QED
        BY <3>1, <4>2
    <3>7. CASE k # 0
      <4>1. Good(it[k], k)
        BY <2>9, <3>7
      <4>2. it[k] \in Seq(T)
        BY <4>1 DEF V
      <4>3. it[k + 1] \in Seq(T) /\ Elems(it[k + 1]) = Elems(it[k]) \cup Elems(q[k + 1])
        BY <3>2, <3>3, <3>7, <4>2, ElemsJoined
      <4>4. Good(it[k + 1], k + 1)
        BY <3>5, <4>1, <4>3 DEF V
      <4> QED
        BY <3>1, <4>4
    <3> QED
      BY <3>6, <3>7
  <2>10. \A k \in 0 .. n : k \in S
    <3> HIDE DEF S
    <3> QED
      BY <1>1, <2>8, <2>9, Counting
  <2>11. Good(it[n], n)
    <3>1. n \in 0 .. n
      BY <1>1
    <3> QED
      BY <1>3, <2>10, <3>1
  <2>12. n = 1 => it[n] = q[1]
    <3>1. n \in 1 .. n
      BY <1>1, <1>3
    <3> QED
      BY <2>7, <3>1
  <2> QED
    BY <1>1, <2>1, <2>11, <2>12 DEF V, n
<1> QED
  BY <1>2, <1>3

(* The elements at some of the positions of a sequence. *)
LEMMA Selected ==
  ASSUME NEW S, NEW s \in Seq(S), NEW P
  PROVE  At(s, P) \in Seq(S) /\ Elems(At(s, P)) = {s[k] : k \in P \cap DOMAIN s}
<1> DEFINE n == Len(s)
           idx == [k \in DOMAIN s |-> k]
           V == Seq(S)
           it == CHOOSE f : f = [x \in SUBSET (1 .. n) |->
                   IF x = {} THEN <<>>
                   ELSE IF idx[Max(x)] \in P
                     THEN Append(f[x \ {Max(x)}], s[idx[Max(x)]]) ELSE f[x \ {Max(x)}]]
           Step(v, k) == IF idx[k] \in P THEN Append(v, s[idx[k]]) ELSE v
           F == [x \in (1 .. n) \X V |-> Step(x[2], x[1])]
           Good(v, k) == v \in V /\ Elems(v) = {s[q] : q \in (1 .. k) \cap P}
<1>1. /\ n \in Nat /\ DOMAIN s = 1 .. n /\ \A k \in 1 .. n : s[k] \in S
      /\ DOMAIN idx = 1 .. n /\ \A k \in 1 .. n : idx[k] = k
  OBVIOUS
<1>2. At(s, P) = it[1 .. n]
  <2>1. At(s, P) = FoldLeft(LAMBDA kept, k : IF k \in P THEN Append(kept, s[k]) ELSE kept, <<>>, idx)
    BY DEF At
  <2> HIDE DEF idx
  <2> QED
    BY <1>1, <2>1, Zenon DEF FoldLeft, MapThenFoldSet
<1> HIDE DEF idx
<1>3. <<>> \in V /\ \A v \in V, k \in 1 .. n : Step(v, k) \in V
  BY <1>1
<1> HIDE DEF n
<1>4. F \in [(1 .. n) \X V -> V] /\ \A v \in V, k \in 1 .. n : F[<<k, v>>] = Step(v, k)
  <2> HIDE DEF Step
  <2> QED
    BY <1>3
<1> HIDE DEF F, V
<1>5. PICK h : IsFold(h, V, <<>>, n, F)
  <2>1. n \in Nat /\ <<>> \in V /\ F \in Steps(V, n)
    BY <1>1, <1>3, <1>4 DEF Steps
  <2> HIDE DEF it
  <2> QED
    BY <2>1, FoldExists
<1>6. h = [x \in SUBSET (1 .. n) |-> IF x = {} THEN <<>> ELSE Step(h[x \ {Max(x)}], Max(x))]
  <2> HIDE DEF Step
  <2>1. ASSUME NEW x \in SUBSET (1 .. n), x # {}
        PROVE  h[x] = Step(h[x \ {Max(x)}], Max(x))
    <3>1. Max(x) \in 1 .. n /\ x \ {Max(x)} \in SUBSET (1 .. n)
      BY <1>1, <2>1, MaxFacts
    <3> QED
      BY <1>4, <1>5, <2>1, <3>1 DEF IsFold
  <2>2. h[{}] = <<>>
    BY <1>5 DEF IsFold
  <2> QED
    BY <1>5, <2>1, <2>2 DEF IsFold
<1>7. it = [x \in SUBSET (1 .. n) |-> IF x = {} THEN <<>> ELSE Step(it[x \ {Max(x)}], Max(x))]
  BY <1>6
<1> HIDE DEF it
<1>8. it[{}] = <<>> /\ \A k \in 1 .. n : it[1 .. k] = Step(it[1 .. k - 1], k)
  <2> HIDE DEF Step
  <2>1. it[{}] = <<>>
    BY <1>7
  <2>2. ASSUME NEW k \in 1 .. n PROVE it[1 .. k] = Step(it[1 .. k - 1], k)
    <3>1. /\ 1 .. k \in SUBSET (1 .. n) /\ 1 .. k # {}
          /\ Max(1 .. k) = k /\ (1 .. k) \ {k} = 1 .. k - 1
      BY <1>1, Prefix
    <3> DEFINE D == 1 .. k
    <3>2. it[D] = Step(it[D \ {Max(D)}], Max(D))
      <4> HIDE DEF D
      <4>1. D \in SUBSET (1 .. n) /\ D # {}
        BY <3>1 DEF D
      <4> QED
        BY <1>7, <4>1
    <3> QED
      BY <3>1, <3>2
  <2> QED
    BY <2>1, <2>2
<1> DEFINE R == {k \in 0 .. n : Good(it[1 .. k], k)}
<1>9. 0 \in R
  <2>1. 1 .. 0 = {} /\ 0 \in 0 .. n
    BY <1>1
  <2>2. Elems(<<>>) = {}
    BY DEF Elems
  <2> QED
    BY <1>3, <1>8, <2>1, <2>2
<1>10. ASSUME NEW k \in 0 .. n - 1, k \in R PROVE k + 1 \in R
  <2>1. k + 1 \in 1 .. n /\ k + 1 \in 0 .. n /\ (k + 1) - 1 = k /\ k \in Nat
    BY <1>1
  <2>2. Good(it[1 .. k], k)
    BY <1>10
  <2>3. it[1 .. k + 1] = Step(it[1 .. k], k + 1)
    BY <1>8, <2>1
  <2>4. 1 .. k + 1 = (1 .. k) \cup {k + 1}
    BY <2>1
  <2>5. {s[q] : q \in (1 .. k + 1) \cap P} =
          {s[q] : q \in (1 .. k) \cap P} \cup (IF k + 1 \in P THEN {s[k + 1]} ELSE {})
    BY <2>4
  <2> DEFINE v == it[1 .. k]
             t == s[k + 1]
             E == {s[q] : q \in (1 .. k) \cap P}
             in == k + 1 \in P
  <2>6. v \in Seq(S) /\ t \in S /\ Elems(v) = E
    BY <1>1, <2>1, <2>2 DEF V
  <2>7. it[1 .. k + 1] = IF in THEN Append(v, t) ELSE v
    BY <1>1, <2>1, <2>3
  <2> HIDE DEF v, t, E, in
  <2>8. Append(v, t) \in Seq(S) /\ Elems(Append(v, t)) = Elems(v) \cup {t}
    BY <2>6, ElemsAppended
  <2>9. Elems(it[1 .. k + 1]) = E \cup (IF in THEN {t} ELSE {})
    BY <2>6, <2>7, <2>8
  <2>10. it[1 .. k + 1] \in V
    BY <2>6, <2>7, <2>8 DEF V
  <2>11. Good(it[1 .. k + 1], k + 1)
    BY <2>5, <2>9, <2>10 DEF E, t, in
  <2> QED
    BY <2>1, <2>11
<1>11. \A k \in 0 .. n : k \in R
  <2> HIDE DEF R
  <2> QED
    BY <1>1, <1>9, <1>10, Counting
<1>12. Good(it[1 .. n], n)
  <2>1. n \in 0 .. n
    BY <1>1
  <2> QED
    BY <1>11, <2>1
<1>13. {s[q] : q \in (1 .. n) \cap P} = {s[k] : k \in P \cap DOMAIN s}
  BY <1>1
<1> QED
  BY <1>2, <1>12, <1>13 DEF V

(* What a subgraph reads from outside: where each tensor is first named. *)
LEMMA SubgraphReads ==
  ASSUME NEW S, NEW L, AllIn(L) \in Seq(S)
  PROVE  /\ SubgraphIn(L) \in Seq(S)
         /\ Elems(SubgraphIn(L)) = {t \in Elems(AllIn(L)) : Producer(t) \notin Elems(L.ops)}
<1> DEFINE s == AllIn(L)
           in == Elems(L.ops)
           New(k) == \A j \in 1 .. k - 1 : s[j] # s[k]
           P == {k \in DOMAIN s : New(k) /\ Producer(s[k]) \notin in}
<1>1. s \in Seq(S)
  OBVIOUS
<1>2. SubgraphIn(L) = At(s, P)
  BY DEF SubgraphIn
<1> HIDE DEF s, in
<1>3. At(s, P) \in Seq(S) /\ Elems(At(s, P)) = {s[k] : k \in P \cap DOMAIN s}
  <2> HIDE DEF P
  <2> QED
    BY <1>1, Selected
<1>4. ASSUME NEW k \in DOMAIN s, Producer(s[k]) \notin in
      PROVE  \E j \in P : s[j] = s[k]
  <2> DEFINE Same == {j \in DOMAIN s : s[j] = s[k]}
  <2>1. Same \in SUBSET Nat /\ Same # {}
    BY <1>1
  <2>2. PICK j \in Same : \A x \in Same : j <= x
    <3> HIDE DEF Same
    <3> QED
      BY <2>1, Least
  <2>3. DOMAIN s = 1 .. Len(s) /\ Len(s) \in Nat /\ j \in DOMAIN s /\ s[j] = s[k]
    BY <1>1
  <2>4. \A x \in 1 .. j - 1 : x \in DOMAIN s /\ ~(j <= x)
    BY <2>3
  <2>5. New(j)
    BY <2>2, <2>3, <2>4
  <2> QED
    BY <1>4, <2>3, <2>5
<1>5. {s[k] : k \in P \cap DOMAIN s} = {t \in Elems(s) : Producer(t) \notin in}
  BY <1>4 DEF Elems
<1> QED
  BY <1>2, <1>3, <1>5 DEF s, in

(* What a layer reads, of a graph that is given. *)
MakerOf(x, t) ==
  LET made == {n \in 1 .. Len(x.ops) : t \in Elems(x.ops[n].out)} IN
  IF made = {} THEN 0 ELSE CHOOSE n \in made : TRUE

ReadsOf(x, L) == FlattenSeq([k \in DOMAIN L.ops |-> x.ops[L.ops[k]].in])

InOf(x, L) ==
  LET s     == ReadsOf(x, L)
      New(k) == \A j \in 1 .. k - 1 : s[j] # s[k]
  IN  IF L.sub THEN At(s, {k \in DOMAIN s : New(k) /\ MakerOf(x, s[k]) \notin Elems(L.ops)}) ELSE s

LEMMA LayerInOf == \A L : LayerIn(L) = InOf(g, L)
  BY DEF LayerIn, SubgraphIn, InOf, AllIn, ReadsOf, Producer, MakerOf, Op

LEMMA SameReads == (\A L : LayerIn(L) = InOf(g, L))'
  BY LayerInOf, PTL

LEMMA SameLayers ==
  ASSUME UNCHANGED <<g, layer, subgraph_idx>>
  PROVE  /\ \A t : Above(t)' = Above(t)
         /\ \A l : LayerIn(layer[l])' = LayerIn(layer[l])
         /\ \A l : Feeders(l)' = Feeders(l)
<1>1. \A t : Above(t)' = Above(t)
  BY SameGraph DEF Above
<1>2. \A l : LayerIn(layer[l])' = LayerIn(layer[l])
  <2> SUFFICES ASSUME NEW l PROVE LayerIn(layer[l])' = LayerIn(layer[l])
    OBVIOUS
  <2>1. LayerIn(layer[l]) = InOf(g, layer[l])
    BY LayerInOf
  <2>2. LayerIn(layer[l])' = InOf(g', layer'[l])
    BY SameReads
  <2> QED
    BY <2>1, <2>2
<1>3. \A l : Feeders(l)' = Feeders(l)
  BY <1>1, <1>2 DEF Feeders
<1> QED
  BY <1>1, <1>2, <1>3

-----------------------------------------------------------------------------
(* Layers: the tensors they name. *)

(* An op of the base API is alone in its layer. *)
Alone == \A l \in DOMAIN layer : ~layer[l].sub => Len(layer[l].ops) <= 1

LEMMA OpTensorTypes ==
  ASSUME g \in OpGraph, NEW n \in Op
  PROVE  g.ops[n].in \in Seq(Tensor) /\ g.ops[n].out \in Seq(Tensor)
  BY OpGraphAssumption DEF OpGraphOK, Op

LEMMA Held ==
  ASSUME IInv, NEW l \in Index
  PROVE  /\ Elems(layer[l].ops) = {n \in Op : subgraph_idx[n] = l}
         /\ Len(layer[l].ops) \in Nat /\ DOMAIN layer[l].ops = 1 .. Len(layer[l].ops)
         /\ \A k \in DOMAIN layer[l].ops : layer[l].ops[k] \in Op
         /\ layer[l].sub \in BOOLEAN
<1>1. l \in DOMAIN layer
  BY DEF Index
<1>2. /\ layer[l].ops \in Seq(Op) /\ layer[l].sub \in BOOLEAN
      /\ \A k \in DOMAIN layer[l].ops : layer[l].ops[k] \in Op
  BY <1>1, LayerTypes
<1>3. \A n \in Op : n \in Elems(layer[l].ops) <=> subgraph_idx[n] = l
  BY <1>1 DEF IInv, Members
<1>4. \A n \in Elems(layer[l].ops) : n \in Op
  BY <1>2 DEF Elems
<1>5. Len(layer[l].ops) \in Nat /\ DOMAIN layer[l].ops = 1 .. Len(layer[l].ops)
  <2> DEFINE s == layer[l].ops
  <2>1. s \in Seq(Op)
    BY <1>2
  <2> HIDE DEF s
  <2>2. Len(s) \in Nat /\ DOMAIN s = 1 .. Len(s)
    BY <2>1
  <2> QED
    BY <2>2 DEF s
<1> QED
  BY <1>2, <1>3, <1>4, <1>5

(* The tensors the ops of a layer name. *)
LEMMA LayerTensors ==
  ASSUME IInv, NEW l \in Index
  PROVE  /\ AllIn(layer[l]) \in Seq(Tensor) /\ AllOut(layer[l]) \in Seq(Tensor)
         /\ \A t : t \in Elems(AllIn(layer[l])) <=>
                     \E n \in Op : subgraph_idx[n] = l /\ t \in Elems(g.ops[n].in)
         /\ \A t : t \in Elems(AllOut(layer[l])) <=>
                     \E n \in Op : subgraph_idx[n] = l /\ t \in Elems(g.ops[n].out)
         /\ Len(layer[l].ops) = 1 => /\ AllIn(layer[l]) = g.ops[layer[l].ops[1]].in
                                     /\ AllOut(layer[l]) = g.ops[layer[l].ops[1]].out
<1> DEFINE s == layer[l].ops
           qin == [k \in DOMAIN s |-> g.ops[s[k]].in]
           qout == [k \in DOMAIN s |-> g.ops[s[k]].out]
<1>1. /\ Elems(s) = {n \in Op : subgraph_idx[n] = l} /\ Len(s) \in Nat /\ DOMAIN s = 1 .. Len(s)
      /\ \A k \in DOMAIN s : s[k] \in Op
  BY Held
<1>2. AllIn(layer[l]) = FlattenSeq(qin) /\ AllOut(layer[l]) = FlattenSeq(qout)
  BY DEF AllIn, AllOut
<1>3. \A n \in Op : g.ops[n].in \in Seq(Tensor) /\ g.ops[n].out \in Seq(Tensor)
  BY OpTensorTypes DEF IInv
<1> HIDE DEF s
<1>4. /\ qin \in Seq(Seq(Tensor)) /\ Len(qin) = Len(s)
      /\ qout \in Seq(Seq(Tensor)) /\ Len(qout) = Len(s)
  <2>1. /\ \A k \in DOMAIN s : g.ops[s[k]].in \in Seq(Tensor)
        /\ \A k \in DOMAIN s : g.ops[s[k]].out \in Seq(Tensor)
    BY <1>1, <1>3
  <2> QED
    BY <1>1, <2>1
<1>5. /\ FlattenSeq(qin) \in Seq(Tensor)
      /\ Elems(FlattenSeq(qin)) = UNION {Elems(qin[k]) : k \in DOMAIN qin}
      /\ Len(qin) = 1 => FlattenSeq(qin) = qin[1]
  <2> HIDE DEF qin
  <2> QED
    BY <1>4, Flattened
<1>6. /\ FlattenSeq(qout) \in Seq(Tensor)
      /\ Elems(FlattenSeq(qout)) = UNION {Elems(qout[k]) : k \in DOMAIN qout}
      /\ Len(qout) = 1 => FlattenSeq(qout) = qout[1]
  <2> HIDE DEF qout
  <2> QED
    BY <1>4, Flattened
<1>7. UNION {Elems(qin[k]) : k \in DOMAIN qin} = UNION {Elems(g.ops[n].in) : n \in Elems(s)}
  BY DEF Elems
<1>8. UNION {Elems(qout[k]) : k \in DOMAIN qout} = UNION {Elems(g.ops[n].out) : n \in Elems(s)}
  BY DEF Elems
<1>9. Len(s) = 1 => qin[1] = g.ops[s[1]].in /\ qout[1] = g.ops[s[1]].out
  BY <1>1
<1> HIDE DEF qin, qout
<1>10. Elems(FlattenSeq(qin)) = UNION {Elems(g.ops[n].in) : n \in Elems(s)}
  BY <1>5, <1>7, Zenon
<1>11. Elems(FlattenSeq(qout)) = UNION {Elems(g.ops[n].out) : n \in Elems(s)}
  BY <1>6, <1>8, Zenon
<1>12. \A t : t \in Elems(AllIn(layer[l])) <=>
                \E n \in Op : subgraph_idx[n] = l /\ t \in Elems(g.ops[n].in)
  <2>1. Elems(AllIn(layer[l])) =
          UNION {Elems(g.ops[n].in) : n \in {o \in Op : subgraph_idx[o] = l}}
    BY <1>1, <1>2, <1>10, Zenon
  <2> QED
    BY <2>1
<1>13. \A t : t \in Elems(AllOut(layer[l])) <=>
                \E n \in Op : subgraph_idx[n] = l /\ t \in Elems(g.ops[n].out)
  <2>1. Elems(AllOut(layer[l])) =
          UNION {Elems(g.ops[n].out) : n \in {o \in Op : subgraph_idx[o] = l}}
    BY <1>1, <1>2, <1>11, Zenon
  <2> QED
    BY <2>1
<1>14. AllIn(layer[l]) \in Seq(Tensor) /\ AllOut(layer[l]) \in Seq(Tensor)
  BY <1>2, <1>5, <1>6
<1>15. Len(s) = 1 => AllIn(layer[l]) = g.ops[s[1]].in /\ AllOut(layer[l]) = g.ops[s[1]].out
  BY <1>2, <1>4, <1>5, <1>6, <1>9
<1> QED
  BY <1>12, <1>13, <1>14, <1>15 DEF s

(* What a layer reads comes from other layers or from outside the graph ... *)
LEMMA LayerInputs ==
  ASSUME IInv, Alone, NEW l \in Index
  PROVE  /\ LayerIn(layer[l]) \in Seq(Tensor)
         /\ Elems(LayerIn(layer[l])) = {t \in Elems(AllIn(layer[l])) : Above(t) # l}
<1>1. AllIn(layer[l]) \in Seq(Tensor)
  BY LayerTensors
<1>2. \A t \in Elems(AllIn(layer[l])) : \E n \in Op : subgraph_idx[n] = l /\ t \in Elems(g.ops[n].in)
  BY LayerTensors
<1>3. l # 0 /\ 0 \notin Op
  BY LayerTypes, OpPositive DEF Index, IInv
<1>4. CASE layer[l].sub
  <2>1. /\ SubgraphIn(layer[l]) \in Seq(Tensor)
        /\ Elems(SubgraphIn(layer[l])) =
             {t \in Elems(AllIn(layer[l])) : Producer(t) \notin Elems(layer[l].ops)}
    BY <1>1, SubgraphReads
  <2>2. LayerIn(layer[l]) = SubgraphIn(layer[l])
    BY <1>4 DEF LayerIn
  <2>3. ASSUME NEW t PROVE Producer(t) \notin Elems(layer[l].ops) <=> Above(t) # l
    <3>1. Producer(t) \in Op \cup {0}
      BY ProducerIsOp
    <3>2. Producer(t) \in Op => (Producer(t) \in Elems(layer[l].ops) <=> subgraph_idx[Producer(t)] = l)
      BY Held
    <3>3. \A n \in Elems(layer[l].ops) : n \in Op
      BY Held
    <3> QED
      BY <1>3, <3>1, <3>2, <3>3 DEF Above
  <2> QED
    BY <2>1, <2>2, <2>3
<1>5. CASE ~layer[l].sub
  <2>1. LayerIn(layer[l]) = AllIn(layer[l])
    BY <1>5 DEF LayerIn
  <2>2. ASSUME NEW t \in Elems(AllIn(layer[l])), Above(t) = l PROVE FALSE
    <3>1. PICK n \in Op : subgraph_idx[n] = l /\ t \in Elems(g.ops[n].in)
      BY <1>2
    <3>2. PICK k \in DOMAIN g.ops[n].in : g.ops[n].in[k] = t
      BY <3>1 DEF Elems
    <3>3. Producer(t) < n /\ Producer(t) \in Op \cup {0} /\ n \in Nat
      BY <3>2, ProducersBefore, ProducerIsOp, OpPositive DEF IInv
    <3>4. Producer(t) \in Op /\ subgraph_idx[Producer(t)] = l
      BY <1>3, <2>2, <3>3 DEF Above
    <3>5. n \in Elems(layer[l].ops) /\ Producer(t) \in Elems(layer[l].ops)
      BY <3>1, <3>4, Held
    <3>6. Len(layer[l].ops) <= 1 /\ Len(layer[l].ops) \in Nat
          /\ DOMAIN layer[l].ops = 1 .. Len(layer[l].ops)
      BY <1>5, Held DEF Alone, Index
    <3>7. \A i, j \in DOMAIN layer[l].ops : i = j
      BY <3>6
    <3>8. n = Producer(t)
      BY <3>5, <3>7 DEF Elems
    <3> QED
      BY <3>3, <3>8
  <2> QED
    BY <1>1, <2>1, <2>2
<1> QED
  BY <1>4, <1>5

(* ... and what another layer reads is handed out. *)
LEMMA LayerOutputs ==
  ASSUME IInv, NEW l \in Index
  PROVE  /\ LayerOut(layer[l]) \in Seq(Tensor)
         /\ Elems(LayerOut(layer[l])) \subseteq Elems(AllOut(layer[l]))
         /\ \A t \in Elems(AllOut(layer[l])) : Outside(layer[l], t) => t \in Elems(LayerOut(layer[l]))
         /\ ~layer[l].sub => LayerOut(layer[l]) = AllOut(layer[l])
<1>1. AllOut(layer[l]) \in Seq(Tensor)
  BY LayerTensors
<1>2. CASE layer[l].sub
  <2> DEFINE s == AllOut(layer[l])
             P == {k \in DOMAIN s : ~Inside(layer[l], s[k]) \/ Outside(layer[l], s[k])}
  <2>1. LayerOut(layer[l]) = At(s, P)
    BY <1>2 DEF LayerOut
  <2>2. s \in Seq(Tensor)
    BY <1>1
  <2> HIDE DEF s
  <2>3. At(s, P) \in Seq(Tensor) /\ Elems(At(s, P)) = {s[k] : k \in P \cap DOMAIN s}
    <3> HIDE DEF P
    <3> QED
      BY <2>2, Selected
  <2>4. \A k \in DOMAIN s : Outside(layer[l], s[k]) => k \in P
    OBVIOUS
  <2> HIDE DEF P
  <2>5. Elems(At(s, P)) \subseteq Elems(s)
    BY <2>3 DEF Elems
  <2>6. \A t \in Elems(s) : Outside(layer[l], t) => t \in Elems(At(s, P))
    BY <2>3, <2>4 DEF Elems
  <2> QED
    BY <1>2, <2>1, <2>3, <2>5, <2>6 DEF s
<1>3. CASE ~layer[l].sub
  BY <1>1, <1>3 DEF LayerOut
<1> QED
  BY <1>2, <1>3

-----------------------------------------------------------------------------
(* What depends on what: ops on ops, layers on layers, followed upwards. *)

(* The ops whose results an op reads. *)
Needs(n) == {Producer(g.ops[n].in[k]) : k \in ProducedIn(n)}

LEMMA NeedsOps ==
  ASSUME g \in OpGraph, NEW n \in Op
  PROVE  /\ Needs(n) \subseteq Op /\ n \notin Needs(n)
         /\ \A t \in Elems(g.ops[n].in) : Producer(t) \in Needs(n) \cup {0}
         /\ \A p \in Needs(n) : \E t \in Elems(g.ops[n].in) : Producer(t) = p
<1>1. \A k \in ProducedIn(n) : /\ k \in DOMAIN g.ops[n].in /\ Producer(g.ops[n].in[k]) # 0
                               /\ Producer(g.ops[n].in[k]) \in Op
  BY ProducerIsOp DEF ProducedIn
<1>2. \A k \in DOMAIN g.ops[n].in : Producer(g.ops[n].in[k]) < n
  BY ProducersBefore
<1>3. \A o \in Op : o \in Nat
  BY OpPositive
<1>4. n \notin Needs(n)
  <2>1. \A k \in ProducedIn(n) : Producer(g.ops[n].in[k]) # n
    BY <1>1, <1>2, <1>3
  <2> QED
    BY <2>1 DEF Needs
<1>5. \A t \in Elems(g.ops[n].in) : Producer(t) \in Needs(n) \cup {0}
  BY DEF Elems, Needs, ProducedIn
<1>6. \A p \in Needs(n) : \E t \in Elems(g.ops[n].in) : Producer(t) = p
  BY <1>1 DEF Elems, Needs
<1> QED
  BY <1>1, <1>4, <1>5, <1>6 DEF Needs

(* The layers a layer reads from, by the ops in them. *)
Reads(l, f) == \E n \in Op : subgraph_idx[n] = l /\ \E p \in Needs(n) : subgraph_idx[p] = f

FeedersRead ==
  \A l \in Index : \A f : f \in Feeders(l) <=> f # 0 /\ f # l /\ Reads(l, f)

LEMMA FeedersByOps == IInv /\ Alone => FeedersRead
<1> SUFFICES ASSUME IInv, Alone, NEW l \in Index, NEW f
             PROVE  f \in Feeders(l) <=> f # 0 /\ f # l /\ Reads(l, f)
  BY DEF FeedersRead
<1>1. Elems(LayerIn(layer[l])) = {t \in Elems(AllIn(layer[l])) : Above(t) # l}
  BY LayerInputs
<1>2. \A t : t \in Elems(AllIn(layer[l])) <=>
               \E n \in Op : subgraph_idx[n] = l /\ t \in Elems(g.ops[n].in)
  BY LayerTensors
<1>3. g \in OpGraph /\ 0 \notin Op
  BY OpPositive DEF IInv
<1>4. ASSUME f \in Feeders(l) PROVE f # 0 /\ f # l /\ Reads(l, f)
  <2>1. PICK t \in Elems(LayerIn(layer[l])) : f = Above(t) /\ f # 0
    BY <1>4 DEF Feeders
  <2>2. f # l /\ \E n \in Op : subgraph_idx[n] = l /\ t \in Elems(g.ops[n].in)
    BY <1>1, <1>2, <2>1
  <2>3. PICK n \in Op : subgraph_idx[n] = l /\ t \in Elems(g.ops[n].in)
    BY <2>2
  <2>4. Producer(t) # 0 /\ f = subgraph_idx[Producer(t)]
    BY <2>1 DEF Above
  <2>5. Producer(t) \in Needs(n)
    BY <1>3, <2>3, <2>4, NeedsOps
  <2> QED
    BY <2>1, <2>2, <2>3, <2>4, <2>5 DEF Reads
<1>5. ASSUME f # 0, f # l, Reads(l, f) PROVE f \in Feeders(l)
  <2>1. PICK n \in Op : subgraph_idx[n] = l /\ \E p \in Needs(n) : subgraph_idx[p] = f
    BY <1>5 DEF Reads
  <2>6. PICK p \in Needs(n) : subgraph_idx[p] = f
    BY <2>1
  <2>2. PICK t \in Elems(g.ops[n].in) : Producer(t) = p
    BY <1>3, <2>6, NeedsOps
  <2>3. p \in Op
    BY <1>3, <2>6, NeedsOps
  <2>4. Above(t) = f
    BY <1>3, <2>6, <2>2, <2>3 DEF Above
  <2>5. t \in Elems(LayerIn(layer[l]))
    BY <1>1, <1>2, <1>5, <2>1, <2>2, <2>4
  <2> QED
    BY <1>5, <2>4, <2>5 DEF Feeders
<1> QED
  BY <1>4, <1>5

(* What the recursive search finds is what can be reached. *)
ClosedUp(A) == \A u \in A : Feeders(u) \subseteq A

Reached ==
  \A l \in Index :
    /\ l \in Upstream(l) /\ Upstream(l) \subseteq Index /\ ClosedUp(Upstream(l))
    /\ \A A \in SUBSET Index : l \in A /\ ClosedUp(A) => Upstream(l) \subseteq A

LEMMA FeedersTyped ==
  ASSUME IInv, NEW l
  PROVE  Feeders(l) \subseteq Index
  BY AboveLayer DEF Feeders

LEMMA UpstreamReaches == IInv => Reached
<1> SUFFICES ASSUME IInv, NEW l \in Index
             PROVE  /\ l \in Upstream(l) /\ Upstream(l) \subseteq Index /\ ClosedUp(Upstream(l))
                    /\ \A A \in SUBSET Index : l \in A /\ ClosedUp(A) => Upstream(l) \subseteq A
  BY DEF Reached
<1> DEFINE n == Len(layer)
           V == SUBSET Index
           Rise(X) == UNION {{x} \cup Feeders(x) : x \in X}
           F == [X \in V |-> Rise(X)]
           it == CHOOSE up : up = [k \in Nat |-> IF k = 0 THEN {l}
                                     ELSE UNION {{x} \cup Feeders(x) : x \in up[k - 1]}]
<1>1. n \in Nat /\ Index = 1 .. n
  BY LayerTypes DEF Index
<1>2. Upstream(l) = it[n]
  BY DEF Upstream
<1>3. {l} \in V /\ F \in [V -> V] /\ \A X \in V : F[X] = Rise(X)
  <2>1. \A X \in V : Rise(X) \in V
    BY FeedersTyped
  <2> HIDE DEF Rise
  <2> QED
    BY <2>1
<1> HIDE DEF F, n, V
<1>4. PICK h \in [Nat -> V] : h[0] = {l} /\ \A k \in Nat : h[k + 1] = F[h[k]]
  <2> HIDE DEF it
  <2> QED
    BY <1>3, Iterated
<1>5. h = [k \in Nat |-> IF k = 0 THEN {l} ELSE Rise(h[k - 1])]
  <2> HIDE DEF Rise
  <2>1. ASSUME NEW k \in Nat, k # 0 PROVE h[k] = Rise(h[k - 1])
    <3>1. k - 1 \in Nat /\ (k - 1) + 1 = k
      BY <2>1
    <3>2. h[(k - 1) + 1] = F[h[k - 1]] /\ h[k - 1] \in V
      BY <1>4, <3>1
    <3> QED
      BY <1>3, <3>1, <3>2
  <2> QED
    BY <1>4, <2>1
<1>6. it = [k \in Nat |-> IF k = 0 THEN {l} ELSE Rise(it[k - 1])]
  BY <1>5
<1> HIDE DEF it
<1>7. it[0] = {l} /\ \A k \in Nat : it[k + 1] = Rise(it[k])
  <2> HIDE DEF Rise
  <2>1. it[0] = {l}
    BY <1>6
  <2>2. ASSUME NEW k \in Nat PROVE it[k + 1] = Rise(it[k])
    <3> DEFINE x == k + 1
    <3>1. x \in Nat /\ x # 0 /\ x - 1 = k
      OBVIOUS
    <3> HIDE DEF x
    <3>2. it[x] = Rise(it[x - 1])
      BY <1>6, <3>1
    <3> QED
      BY <3>1, <3>2 DEF x
  <2> QED
    BY <2>1, <2>2
<1>8. ASSUME NEW k \in Nat, it[k] \in V
      PROVE  it[k] \subseteq it[k + 1] /\ it[k + 1] \in V /\ (ClosedUp(it[k]) => it[k + 1] = it[k])
  <2>1. it[k + 1] = Rise(it[k])
    BY <1>7
  <2>2. \A x \in it[k] : Feeders(x) \subseteq Index
    BY FeedersTyped
  <2> QED
    BY <1>8, <2>1, <2>2 DEF V, ClosedUp
<1>9. ASSUME NEW k \in Nat, it[k] \in V, ~ClosedUp(it[k]) PROVE it[k + 1] # it[k]
  <2>1. PICK x \in it[k] : ~(Feeders(x) \subseteq it[k])
    BY <1>9 DEF ClosedUp
  <2>2. Feeders(x) \subseteq it[k + 1]
    BY <1>7, <2>1
  <2> QED
    BY <2>1, <2>2
<1> HIDE DEF Rise
<1>10. IsFiniteSet(Index) /\ Cardinality(Index) = n
  BY <1>1, FS_Interval
<1>11. \A X \in V : IsFiniteSet(X) /\ Cardinality(X) \in Nat /\ Cardinality(X) <= n
  BY <1>10, FS_Subset, FS_CardinalityType DEF V
<1> DEFINE S == {k \in 0 .. n : /\ it[k] \in V /\ l \in it[k]
                               /\ (ClosedUp(it[k]) \/ Cardinality(it[k]) >= k + 1)}
<1>12. 0 \in S
  <2>1. Cardinality({l}) = 1
    BY FS_Singleton
  <2>2. 0 \in 0 .. n
    BY <1>1
  <2>3. it[0] = {l}
    BY <1>7
  <2>4. it[0] \in V /\ l \in it[0] /\ Cardinality(it[0]) = 1
    BY <1>3, <2>1, <2>3
  <2>5. Cardinality(it[0]) >= 0 + 1
    BY <2>4
  <2> QED
    BY <2>2, <2>4, <2>5
<1>13. ASSUME NEW k \in 0 .. n - 1, k \in S PROVE k + 1 \in S
  <2>1. k \in Nat /\ k + 1 \in 0 .. n
    BY <1>1
  <2>2. it[k] \in V /\ l \in it[k] /\ (ClosedUp(it[k]) \/ Cardinality(it[k]) >= k + 1)
    BY <1>13
  <2>3. it[k] \subseteq it[k + 1] /\ it[k + 1] \in V /\ (ClosedUp(it[k]) => it[k + 1] = it[k])
    BY <1>8, <2>1, <2>2
  <2>4. CASE ClosedUp(it[k])
    BY <2>1, <2>2, <2>3, <2>4
  <2>5. CASE ~ClosedUp(it[k])
    <3>1. it[k + 1] # it[k]
      BY <1>9, <2>1, <2>2, <2>5
    <3> DEFINE a == Cardinality(it[k])
               b == Cardinality(it[k + 1])
    <3>2. a \in Nat /\ b \in Nat /\ a >= k + 1
      BY <1>11, <2>2, <2>3, <2>5
    <3>3. a < b
      <4>1. IsFiniteSet(it[k + 1])
        BY <1>11, <2>3
      <4>2. a <= b /\ (b = a => it[k + 1] = it[k])
        BY <2>3, <4>1, FS_Subset
      <4>3. a # b
        BY <3>1, <4>2
      <4> HIDE DEF a, b
      <4> QED
        BY <3>2, <4>2, <4>3
    <3> HIDE DEF a, b
    <3>4. b >= k + 1 + 1
      BY <2>1, <3>2, <3>3
    <3> QED
      BY <2>1, <2>2, <2>3, <3>4 DEF b
  <2> QED
    BY <2>4, <2>5
<1>14. \A k \in 0 .. n : k \in S
  <2> HIDE DEF S
  <2> QED
    BY <1>1, <1>12, <1>13, Counting
<1>15. it[n] \in V /\ l \in it[n] /\ ClosedUp(it[n])
  <2>1. n \in 0 .. n
    BY <1>1
  <2>2. it[n] \in V /\ l \in it[n] /\ (ClosedUp(it[n]) \/ Cardinality(it[n]) >= n + 1)
    BY <1>14, <2>1
  <2> DEFINE a == Cardinality(it[n])
  <2>3. a \in Nat /\ a <= n
    BY <1>11, <2>2
  <2> HIDE DEF a
  <2>4. ~(a >= n + 1)
    BY <1>1, <2>3
  <2> QED
    BY <2>2, <2>4 DEF a
<1>16. ASSUME NEW A \in SUBSET Index, l \in A, ClosedUp(A) PROVE it[n] \subseteq A
  <2> DEFINE R == {k \in 0 .. n : it[k] \subseteq A}
  <2>1. 0 \in R
    <3>1. it[0] = {l} /\ 0 \in 0 .. n
      BY <1>1, <1>7
    <3> QED
      BY <1>16, <3>1
  <2>2. ASSUME NEW k \in 0 .. n - 1, k \in R PROVE k + 1 \in R
    <3>1. k \in Nat /\ k + 1 \in 0 .. n /\ it[k] \subseteq A
      BY <1>1, <2>2
    <3>2. it[k + 1] = Rise(it[k])
      BY <1>7, <3>1
    <3> QED
      BY <1>16, <3>1, <3>2 DEF Rise, ClosedUp
  <2>3. \A k \in 0 .. n : k \in R
    <3> HIDE DEF R
    <3> QED
      BY <1>1, <2>1, <2>2, Counting
  <2>4. n \in 0 .. n
    BY <1>1
  <2> QED
    BY <2>3, <2>4
<1> QED
  BY <1>2, <1>15, <1>16 DEF V

-----------------------------------------------------------------------------
(* What each kind of step does to the layers. *)
Fresh == Len(layer) + 1

LEMMA TopUnplaced ==
  ASSUME IInv, Fusing
  PROVE  /\ Top \in Op /\ subgraph_idx[Top] = 0 /\ g \in OpGraph
         /\ \A p \in Needs(Top) : p \in Op /\ p # Top /\ subgraph_idx[p] \in Index /\ subgraph_idx[p] # 0
         /\ InLayers(Top) = {subgraph_idx[p] : p \in Needs(Top)}
<1>1. FirstWalk /\ stack # <<>> /\ InputsDone /\ phase = "fuse" /\ WalkInv /\ g \in OpGraph
  BY DEF FirstWalk, Fusing, IInv
<1>2. Top \in Op /\ Top \in visited
  BY <1>1, TopProperties
<1>3. OnStack(Top)
  BY <1>1, TopProperties DEF OnStack
<1>4. subgraph_idx[Top] = 0
  BY <1>1, <1>2, <1>3 DEF WalkInv, Placed
<1>5. \A k \in ProducedIn(Top) :
        /\ Producer(g.ops[Top].in[k]) \in Op \ {Top}
        /\ InLayer(Top, k) = subgraph_idx[Producer(g.ops[Top].in[k])]
        /\ InLayer(Top, k) # 0 /\ InLayer(Top, k) \in Index
  BY <1>1, InputsPlaced DEF Index
<1> QED
  BY <1>1, <1>2, <1>4, <1>5 DEF Needs, InLayers

LEMMA EffectNew ==
  ASSUME IInv, Fusing, NewLayer(Top, InLayers(Top))
  PROVE  /\ Fresh \notin Index /\ Fresh # 0 /\ Index' = Index \cup {Fresh}
         /\ \A l \in Index : layer'[l] = layer[l]
         /\ layer'[Fresh].ops = <<Top>> /\ layer'[Fresh].restricted_map = InLayers(Top)
         /\ \A n \in Op : subgraph_idx'[n] = IF n = Top THEN Fresh ELSE subgraph_idx[n]
<1> DEFINE S == [sub : BOOLEAN, ops : Seq(Op), restricted_map : SUBSET DOMAIN layer]
           L == [sub |-> g.ops[Top].api # BaseApi, ops |-> <<Top>>, restricted_map |-> InLayers(Top)]
<1>1. /\ layer \in Seq(S) /\ subgraph_idx \in [Op -> 0 .. Len(layer)] /\ Len(layer) \in Nat
      /\ layer' = Append(layer, L) /\ subgraph_idx' = [subgraph_idx EXCEPT ![Top] = Len(layer) + 1]
  BY LayerTypes DEF IInv, TypeOK, NewLayer
<1>2. /\ Top \in Op /\ InLayers(Top) \in SUBSET DOMAIN layer
  BY TopUnplaced, LayersOfInputs DEF Fusing, FirstWalk
<1>3. L \in S
  <2>1. <<Top>> \in Seq(Op) /\ (g.ops[Top].api # BaseApi) \in BOOLEAN
    BY <1>2
  <2> QED
    BY <1>2, <2>1
<1>4. L.ops = <<Top>> /\ L.restricted_map = InLayers(Top)
  OBVIOUS
<1> HIDE DEF S, L
<1>5. /\ DOMAIN layer' = 1 .. Len(layer) + 1 /\ DOMAIN layer = 1 .. Len(layer)
      /\ \A l \in 1 .. Len(layer) : layer'[l] = layer[l]
      /\ layer'[Len(layer) + 1] = L
  BY <1>1, <1>3, Appended
<1>6. \A n \in Op : subgraph_idx'[n] = IF n = Top THEN Fresh ELSE subgraph_idx[n]
  BY <1>1 DEF Fresh
<1>7. 1 .. Len(layer) + 1 = (1 .. Len(layer)) \cup {Len(layer) + 1} /\ Len(layer) + 1 \notin 1 .. Len(layer)
  BY <1>1
<1>8. Index' = DOMAIN layer'
  BY DEF Index
<1>9. Fresh # 0
  BY <1>1 DEF Fresh
<1> QED
  BY <1>4, <1>5, <1>6, <1>7, <1>8, <1>9 DEF Index, Fresh

LEMMA EffectJoin ==
  ASSUME IInv, FuseInto, NEW l, l = InLayer(Top, into')
  PROVE  /\ l \in Index /\ l \in InLayers(Top) /\ layer[l].ops # <<>> /\ layer[l].sub /\ Index' = Index
         /\ \A i \in Index : /\ layer'[i].restricted_map = layer[i].restricted_map
                             /\ layer'[i].sub = layer[i].sub
                             /\ (layer'[i].ops = <<>> <=> layer[i].ops = <<>>)
                             /\ i # l => layer'[i].ops = layer[i].ops
         /\ \A n \in Op : subgraph_idx'[n] = IF n = Top THEN l ELSE subgraph_idx[n]
<1> DEFINE p == Producer(g.ops[Top].in[into'])
<1>1. /\ FirstWalk /\ stack # <<>> /\ InputsDone
      /\ g.ops[Top].api # BaseApi
      /\ layer' = [layer EXCEPT ![l].ops = Append(@, Top)]
      /\ subgraph_idx' = [subgraph_idx EXCEPT ![Top] = l]
      /\ Fusing /\ Devices /\ subgraph_idx \in [Op -> 0 .. Len(layer)]
  BY DEF FuseInto, Fusing, FirstWalk, IInv, TypeOK
<1>2. into' \in ProducedIn(Top) /\ g.ops[p].api = g.ops[Top].api
  BY DEF FuseInto, CanFuse, SameDevice, InDevice
<1>3. p \in Op /\ l = subgraph_idx[p] /\ l # 0 /\ l \in DOMAIN layer
  BY <1>1, <1>2, InputsPlaced
<1>4. layer[l].ops # <<>>
  BY <1>3, LayerInhabited
<1>5. layer[l].sub
  BY <1>1, <1>2, <1>3 DEF Devices
<1>6. Top \in Op
  BY <1>1, TopUnplaced
<1>7. /\ layer[l].ops \in Seq(Op) /\ DOMAIN layer = 1 .. Len(layer)
      /\ \A i \in DOMAIN layer : layer[i] \in [sub : BOOLEAN, ops : Seq(Op), restricted_map : SUBSET DOMAIN layer]
  BY <1>3, LayerTypes
<1>8. Append(layer[l].ops, Top) # <<>>
  BY <1>6, <1>7, Appended
<1>9. /\ DOMAIN layer' = DOMAIN layer
      /\ \A i \in DOMAIN layer : i # l => layer'[i] = layer[i]
      /\ layer'[l] = [layer[l] EXCEPT !.ops = Append(layer[l].ops, Top)]
  BY <1>1, <1>3
<1>10. \A L \in [sub : BOOLEAN, ops : Seq(Op), restricted_map : SUBSET DOMAIN layer] : \A s :
          /\ [L EXCEPT !.ops = s].sub = L.sub /\ [L EXCEPT !.ops = s].ops = s
          /\ [L EXCEPT !.ops = s].restricted_map = L.restricted_map
  OBVIOUS
<1>11. /\ layer'[l].sub = layer[l].sub /\ layer'[l].restricted_map = layer[l].restricted_map
       /\ layer'[l].ops = Append(layer[l].ops, Top)
  BY <1>3, <1>7, <1>9, <1>10
<1>12. \A n \in Op : subgraph_idx'[n] = IF n = Top THEN l ELSE subgraph_idx[n]
  BY <1>1
<1>13. l \in InLayers(Top)
  BY <1>2 DEF InLayers
<1> QED
  BY <1>3, <1>4, <1>5, <1>8, <1>9, <1>11, <1>12, <1>13 DEF Index

LEMMA MergeTypes ==
  ASSUME IInv, MergeInput
  PROVE  /\ phase = "merge" /\ phase' = "merge" /\ m' = m + 1
         /\ UNCHANGED <<g, stack, into>> /\ Top' = Top /\ Top \in Op
         /\ m \in ProducedIn(Top) \ {into}
         /\ InLayer(Top, m) \in Index /\ InLayer(Top, m) # 0
         /\ InLayer(Top, m) = subgraph_idx[Producer(g.ops[Top].in[m])]
         /\ Producer(g.ops[Top].in[m]) \in Needs(Top)
         /\ Producer(g.ops[Top].in[m]) \in Op
         /\ subgraph_idx[Top] \in Index /\ subgraph_idx[Top] # 0
         /\ subgraph_idx[Top] # InLayer(Top, m)
         /\ layer[subgraph_idx[Top]].sub
<1>1. /\ phase = "merge" /\ phase' = "merge" /\ FirstWalk /\ m' = m + 1
      /\ UNCHANGED <<g, stack, into>>
      /\ stack # <<>> /\ InputsDone /\ g.ops[Top].api # BaseApi
      /\ m \in ProducedIn(Top) \ {into} /\ InLayer(Top, m) # subgraph_idx[Top]
  BY DEF MergeInput, Merging, walk, FirstWalk, IInv, WalkInv, Joining
<1>2. /\ Producer(g.ops[Top].in[m]) \in Op
      /\ InLayer(Top, m) = subgraph_idx[Producer(g.ops[Top].in[m])]
      /\ InLayer(Top, m) # 0 /\ InLayer(Top, m) \in DOMAIN layer /\ Top \in Op /\ Top \in visited
  BY <1>1, InputsPlaced, TopProperties
<1>3. subgraph_idx[Top] # 0
  BY <1>1, <1>2 DEF IInv, WalkInv, Placed
<1>4. subgraph_idx[Top] \in DOMAIN layer
  BY <1>2, <1>3, LayerTypes
<1>5. layer[subgraph_idx[Top]].sub
  BY <1>1, <1>2, <1>3 DEF IInv, Devices
<1> QED
  BY <1>1, <1>2, <1>3, <1>4, <1>5 DEF Needs, Index, Top

LEMMA EffectMerge ==
  ASSUME IInv, MergeInput, NEW src, src = InLayer(Top, m), NEW dst, dst = subgraph_idx[Top],
         MergeLayers(src, dst)
  PROVE  /\ Index' = Index /\ layer[src].ops # <<>> /\ layer[dst].ops # <<>>
         /\ layer'[src].ops = <<>> /\ layer'[dst].ops # <<>>
         /\ \A i \in Index : /\ layer'[i].sub = layer[i].sub
                             /\ i # dst => layer'[i].restricted_map = layer[i].restricted_map
                             /\ i # src /\ i # dst => layer'[i].ops = layer[i].ops
         /\ layer'[dst].restricted_map = layer[dst].restricted_map \cup layer[src].restricted_map
         /\ \A n \in Op : subgraph_idx'[n] = IF subgraph_idx[n] = src THEN dst ELSE subgraph_idx[n]
<1> DEFINE S   == [sub : BOOLEAN, ops : Seq(Op), restricted_map : SUBSET DOMAIN layer]
<1>1. /\ src \in Index /\ dst \in Index /\ src # dst /\ src # 0 /\ dst # 0 /\ Top \in Op
      /\ Producer(g.ops[Top].in[m]) \in Op /\ src = subgraph_idx[Producer(g.ops[Top].in[m])]
  BY MergeTypes
<1>2. layer[src].ops # <<>> /\ layer[dst].ops # <<>>
  BY <1>1, LayerInhabited
<1>3. \A i \in DOMAIN layer : layer[i] \in S /\ layer[i].ops \in Seq(Op)
  BY LayerTypes
<1> DEFINE ops == layer[dst].ops \o layer[src].ops
           map == layer[dst].restricted_map \cup layer[src].restricted_map
<1>4. ops # <<>>
  <2> DEFINE a == layer[dst].ops
             b == layer[src].ops
  <2>1. a \in Seq(Op) /\ b \in Seq(Op) /\ a # <<>>
    BY <1>1, <1>2, <1>3 DEF Index
  <2> HIDE DEF a, b
  <2>2. a \o b # <<>>
    BY <2>1
  <2> QED
    BY <2>2 DEF a, b
<1>5. /\ DOMAIN layer' = DOMAIN layer
      /\ \A i \in DOMAIN layer : i # src /\ i # dst => layer'[i] = layer[i]
      /\ layer'[dst] = [[layer[dst] EXCEPT !.ops = ops] EXCEPT !.restricted_map = map]
      /\ layer'[src] = [layer[src] EXCEPT !.ops = <<>>]
  BY <1>1 DEF MergeLayers, Index
<1>6. \A n \in Op : subgraph_idx'[n] = IF subgraph_idx[n] = src THEN dst ELSE subgraph_idx[n]
  BY DEF MergeLayers
<1> HIDE DEF ops, map
<1>7. layer'[dst].sub = layer[dst].sub /\ layer'[dst].ops = ops /\ layer'[dst].restricted_map = map
  BY <1>1, <1>3, <1>5 DEF Index
<1>8. /\ layer'[src].sub = layer[src].sub /\ layer'[src].ops = <<>>
      /\ layer'[src].restricted_map = layer[src].restricted_map
  BY <1>1, <1>3, <1>5 DEF Index
<1>9. Index' = Index
  BY <1>5 DEF Index
<1>10. \A i \in Index : /\ layer'[i].sub = layer[i].sub
                        /\ i # dst => layer'[i].restricted_map = layer[i].restricted_map
                        /\ i # src /\ i # dst => layer'[i].ops = layer[i].ops
  BY <1>5, <1>7, <1>8 DEF Index
<1> QED
  BY <1>2, <1>4, <1>6, <1>7, <1>8, <1>9, <1>10 DEF map

LEMMA EffectMap ==
  ASSUME IInv, NEW a \in Index, NEW b \in Index, layer' = [layer EXCEPT ![a].restricted_map = @ \cup {b}]
  PROVE  /\ Index' = Index
         /\ \A i \in Index : /\ layer'[i].sub = layer[i].sub /\ layer'[i].ops = layer[i].ops
                             /\ layer'[i].restricted_map =
                                  IF i = a THEN layer[i].restricted_map \cup {b} ELSE layer[i].restricted_map
<1>1. /\ DOMAIN layer' = DOMAIN layer
      /\ \A i \in DOMAIN layer : layer'[i].sub = layer[i].sub /\ layer'[i].ops = layer[i].ops
  BY MapGrows DEF Index
<1>2. /\ \A i \in DOMAIN layer : i # a => layer'[i] = layer[i]
      /\ layer'[a] = [layer[a] EXCEPT !.restricted_map = layer[a].restricted_map \cup {b}]
  BY DEF Index
<1>3. \A i \in DOMAIN layer : layer[i] \in [sub : BOOLEAN, ops : Seq(Op), restricted_map : SUBSET DOMAIN layer]
  BY LayerTypes
<1>4. layer'[a].restricted_map = layer[a].restricted_map \cup {b}
  BY <1>2, <1>3 DEF Index
<1> QED
  BY <1>1, <1>2, <1>4 DEF Index

LEMMA RootAlone ==
  ASSUME g \in OpGraph, NEW n \in Op, IsRoot(n)
  PROVE  InLayers(n) = {}
<1>1. \A k \in DOMAIN g.ops[n].in : g.ops[n].in[k] \in Elems(g.input)
  BY DEF IsRoot, Elems
<1>2. \A t \in Elems(g.input) : \A o \in Op : t \notin Elems(g.ops[o].out)
  BY OpGraphAssumption DEF OpGraphOK, BuildOK, Op
<1>3. ASSUME NEW k \in DOMAIN g.ops[n].in PROVE Producer(g.ops[n].in[k]) = 0
  <2>1. \A o \in Op : g.ops[n].in[k] \notin Elems(g.ops[o].out)
    BY <1>1, <1>2
  <2> QED
    BY <2>1, ProducerIsOp
<1> QED
  BY <1>3 DEF InLayers, ProducedIn

LEMMA LayerSteps ==
  ASSUME IInv, [Next]_vars
  PROVE  \/ UNCHANGED <<g, layer, subgraph_idx>>
         \/ Fusing /\ NewLayer(Top, InLayers(Top)) /\ g' = g /\ phase' = "fuse"
         \/ FuseInto
         \/ MergeInput
<1>1. CASE FuseCpu \/ FuseRestricted
  BY <1>1 DEF FuseCpu, FuseRestricted, Visited, Fusing
<1>2. CASE FuseRoot
  <2>1. Fusing /\ NewLayer(Top, {}) /\ g' = g /\ phase' = "fuse" /\ IsRoot(Top)
    BY <1>2 DEF FuseRoot, Visited, Fusing
  <2>2. InLayers(Top) = {}
    BY <2>1, RootAlone, TopUnplaced
  <2> QED
    BY <2>1, <2>2
<1> QED
  BY <1>1, <1>2
  DEF Next, Walk, Fuse, Merge, Sort, WalkOutput, WalkInput, MergeSkip, MergeDone, Rebuild, SortLayer,
      SortDone, Visited, vars

(* An op has its layer after the ops it reads from. *)
Laid == \A n \in Op : subgraph_idx[n] # 0 => \A p \in Needs(n) : subgraph_idx[p] # 0

LEMMA SameNeeds ==
  ASSUME g' = g
  PROVE  Op' = Op /\ \A n : Needs(n)' = Needs(n) /\ ProducedIn(n)' = ProducedIn(n)
  BY SameGraph DEF Needs, ProducedIn

LEMMA InitLaid == Init => Laid /\ Alone
  BY DEF Init, Laid, Alone

LEMMA NextLaid == IInv /\ Laid /\ Alone /\ [Next]_vars => Laid' /\ Alone'
<1> SUFFICES ASSUME IInv, Laid, Alone, [Next]_vars PROVE Laid' /\ Alone'
  OBVIOUS
<1>1. g \in OpGraph
  BY DEF IInv
<1>2. \A l \in Index : layer[l].ops \in Seq(Op)
  BY LayerTypes DEF Index
<1>3. \A n \in Op : \A p \in Needs(n) : p \in Op
  BY <1>1, NeedsOps
<1>4. CASE UNCHANGED <<g, layer, subgraph_idx>>
  BY <1>4, SameNeeds DEF Laid, Alone
<1>5. CASE Fusing /\ NewLayer(Top, InLayers(Top)) /\ g' = g
  <2>1. /\ Fresh # 0 /\ Index' = Index \cup {Fresh}
        /\ \A l \in Index : layer'[l] = layer[l]
        /\ layer'[Fresh].ops = <<Top>>
        /\ \A n \in Op : subgraph_idx'[n] = IF n = Top THEN Fresh ELSE subgraph_idx[n]
    BY <1>5, EffectNew
  <2>2. \A p \in Needs(Top) : subgraph_idx[p] # 0
    BY <1>5, TopUnplaced
  <2>3. Laid'
    BY <1>3, <1>5, <2>1, <2>2, SameNeeds DEF Laid
  <2>4. Alone'
    <3>1. Len(<<Top>>) <= 1
      OBVIOUS
    <3>2. \A l \in Index : ~layer'[l].sub => Len(layer'[l].ops) <= 1
      BY <2>1 DEF Alone, Index
    <3>3. \A l \in Index' : ~layer'[l].sub => Len(layer'[l].ops) <= 1
      BY <2>1, <3>1, <3>2
    <3> QED
      BY <3>3 DEF Alone, Index
  <2> QED
    BY <2>3, <2>4
<1>6. CASE FuseInto
  <2> DEFINE l == InLayer(Top, into')
  <2>1. /\ l \in Index /\ layer[l].sub /\ Index' = Index
        /\ \A i \in Index : layer'[i].sub = layer[i].sub /\ (i # l => layer'[i].ops = layer[i].ops)
        /\ \A n \in Op : subgraph_idx'[n] = IF n = Top THEN l ELSE subgraph_idx[n]
    <3> HIDE DEF l
    <3>1. l = InLayer(Top, into')
      BY DEF l
    <3> QED
      BY <1>6, <3>1, EffectJoin
  <2>2. \A p \in Needs(Top) : subgraph_idx[p] # 0
    BY <1>6, TopUnplaced DEF FuseInto
  <2>3. l # 0 /\ g' = g
    BY <1>6, <2>1, LayerTypes DEF Index, FuseInto
  <2> HIDE DEF l
  <2>4. Laid'
    BY <1>3, <2>1, <2>2, <2>3, SameNeeds DEF Laid
  <2>5. Alone'
    BY <2>1 DEF Alone, Index
  <2> QED
    BY <2>4, <2>5
<1>7. CASE MergeInput
  <2> DEFINE src == InLayer(Top, m)
             dst == subgraph_idx[Top]
  <2>1. /\ g' = g /\ src \in Index /\ dst \in Index /\ dst # 0 /\ layer[dst].sub
    BY <1>7, MergeTypes
  <2>2. \/ layer' = [layer EXCEPT ![dst].restricted_map = @ \cup {src}] /\ UNCHANGED subgraph_idx
        \/ layer' = [layer EXCEPT ![src].restricted_map = @ \cup {dst}] /\ UNCHANGED subgraph_idx
        \/ MergeLayers(src, dst)
    BY <1>7 DEF MergeInput
  <2>4. src = InLayer(Top, m) /\ dst = subgraph_idx[Top]
    OBVIOUS
  <2> HIDE DEF src, dst
  <2>5. CASE layer' = [layer EXCEPT ![dst].restricted_map = @ \cup {src}] /\ UNCHANGED subgraph_idx
    <3>1. Index' = Index /\ \A i \in Index : layer'[i].sub = layer[i].sub /\ layer'[i].ops = layer[i].ops
      BY <2>1, <2>5, EffectMap
    <3> QED
      BY <2>1, <2>5, <3>1, SameNeeds DEF Laid, Alone, Index
  <2>6. CASE layer' = [layer EXCEPT ![src].restricted_map = @ \cup {dst}] /\ UNCHANGED subgraph_idx
    <3>1. Index' = Index /\ \A i \in Index : layer'[i].sub = layer[i].sub /\ layer'[i].ops = layer[i].ops
      BY <2>1, <2>6, EffectMap
    <3> QED
      BY <2>1, <2>6, <3>1, SameNeeds DEF Laid, Alone, Index
  <2>7. CASE MergeLayers(src, dst)
    <3>1. /\ Index' = Index /\ layer'[src].ops = <<>>
          /\ \A i \in Index : /\ layer'[i].sub = layer[i].sub
                              /\ i # src /\ i # dst => layer'[i].ops = layer[i].ops
          /\ \A n \in Op : subgraph_idx'[n] = IF subgraph_idx[n] = src THEN dst ELSE subgraph_idx[n]
      BY <1>7, <2>4, <2>7, EffectMerge
    <3>2. Laid'
      BY <1>3, <2>1, <3>1, SameNeeds, MergeTypes, <1>7 DEF Laid
    <3>3. Alone'
      <4>1. Len(<<>>) <= 1
        OBVIOUS
      <4> QED
        BY <2>1, <3>1, <4>1 DEF Alone, Index
    <3> QED
      BY <3>2, <3>3
  <2> QED
    BY <2>2, <2>5, <2>6, <2>7
<1> QED
  BY <1>4, <1>5, <1>6, <1>7, LayerSteps

(* What follows from the search being complete and exact. *)
Upwards ==
  /\ \A l \in Index : \A u \in Upstream(l) : Upstream(u) \subseteq Upstream(l)
  /\ \A l \in Index : \A x \in Upstream(l) \ {l} : \E f \in Feeders(l) : x \in Upstream(f)
  /\ \A l \in Index : \A f \in Feeders(l) : f \in Upstream(l) /\ f \in Index

LEMMA UpstreamFacts == IInv => Upwards
<1> SUFFICES ASSUME IInv PROVE Upwards
  OBVIOUS
<1>1. Reached
  BY UpstreamReaches
<1>2. \A l : Feeders(l) \subseteq Index
  BY FeedersTyped
<1>3. ASSUME NEW l \in Index, NEW u \in Upstream(l) PROVE Upstream(u) \subseteq Upstream(l)
  BY <1>1 DEF Reached
<1>4. ASSUME NEW l \in Index, NEW x \in Upstream(l) \ {l} PROVE \E f \in Feeders(l) : x \in Upstream(f)
  <2> DEFINE A == {l} \cup UNION {Upstream(f) : f \in Feeders(l)}
  <2>1. \A f \in Feeders(l) : f \in Upstream(f) /\ Upstream(f) \subseteq Index /\ ClosedUp(Upstream(f))
    BY <1>1, <1>2 DEF Reached
  <2>2. A \in SUBSET Index
    BY <2>1
  <2>3. ClosedUp(A)
    BY <2>1 DEF ClosedUp
  <2>4. Upstream(l) \subseteq A
    BY <1>1, <2>2, <2>3 DEF Reached
  <2> QED
    BY <2>4
<1>5. \A l \in Index : \A f \in Feeders(l) : f \in Upstream(l) /\ f \in Index
  BY <1>1, <1>2 DEF Reached, ClosedUp
<1> QED
  BY <1>3, <1>4, <1>5 DEF Upwards

(* Layers depend on layers that hold ops. *)
LiveUp == \A l \in Live : Upstream(l) \subseteq Live

LEMMA UpstreamLive == IInv /\ Alone => LiveUp /\ \A l \in Index : Feeders(l) \subseteq Live
<1> SUFFICES ASSUME IInv, Alone PROVE LiveUp /\ \A l \in Index : Feeders(l) \subseteq Live
  OBVIOUS
<1>1. Reached /\ FeedersRead
  BY UpstreamReaches, FeedersByOps
<1>2. ASSUME NEW l \in Index, NEW f \in Feeders(l) PROVE f \in Live
  <2>1. f # 0 /\ Reads(l, f)
    BY <1>1 DEF FeedersRead
  <2>2. PICK n \in Op : \E p \in Needs(n) : subgraph_idx[p] = f
    BY <2>1 DEF Reads
  <2>3. PICK p \in Needs(n) : subgraph_idx[p] = f
    BY <2>2
  <2>4. p \in Op
    BY <2>3, NeedsOps DEF IInv
  <2> QED
    BY <2>1, <2>3, <2>4, LayerInhabited DEF Live
<1>3. ASSUME NEW l \in Live PROVE Upstream(l) \subseteq Live
  <2>1. Live \in SUBSET Index /\ l \in Index /\ ClosedUp(Live)
    BY <1>2 DEF Live, Index, ClosedUp
  <2> QED
    BY <1>1, <2>1 DEF Reached
<1> QED
  BY <1>2, <1>3 DEF LiveUp

-----------------------------------------------------------------------------
(* A dependency is noted down, unless what is noted down cannot be trusted; *)
(* while an op merges layers, those it has not come to yet are still owed.  *)
Noted(x, l) == IsRestrictedBy(x, l) \/ \E u \in Upstream(l) : Misled(u)

Owed(x, l) ==
  /\ phase = "merge"
  /\ subgraph_idx[Top] \in Upstream(l) /\ x # subgraph_idx[Top]
  /\ \E k \in ProducedIn(Top) \ {into} : k >= m /\ InLayer(Top, k) = x

NotedOrOwed ==
  FirstWalk => \A l \in Live : \A x \in Upstream(l) \ {l} : Noted(x, l) \/ Owed(x, l)

LEMMA MapsTyped ==
  ASSUME IInv, NEW l \in Index
  PROVE  layer[l].restricted_map \subseteq Index
<1>1. layer[l] \in [sub : BOOLEAN, ops : Seq(Op), restricted_map : SUBSET DOMAIN layer]
  BY LayerTypes DEF Index
<1> QED
  BY <1>1 DEF Index

NotedSpreads == \A l \in Index : \A u \in Upstream(l) : \A x : Noted(x, u) => Noted(x, l)

LEMMA NotedBelow == IInv => NotedSpreads
  BY UpstreamFacts DEF NotedSpreads, Upwards, Noted, IsRestrictedBy

(* Layers that read no other layers than before are reached from the same.  *)
LEMMA SameFeeders ==
  ASSUME Reached, Reached', Index \subseteq Index', \A l \in Index : Feeders(l)' = Feeders(l)
  PROVE  \A l \in Index : Upstream(l)' = Upstream(l)
<1> SUFFICES ASSUME NEW l \in Index PROVE Upstream(l)' = Upstream(l)
  OBVIOUS
<1>1. /\ l \in Upstream(l) /\ Upstream(l) \subseteq Index /\ ClosedUp(Upstream(l))
      /\ \A A \in SUBSET Index : l \in A /\ ClosedUp(A) => Upstream(l) \subseteq A
  BY DEF Reached
<1>2. /\ l \in Upstream(l)' /\ \A u \in Upstream(l)' : Feeders(u)' \subseteq Upstream(l)'
      /\ \A A \in SUBSET Index' : l \in A /\ (\A u \in A : Feeders(u)' \subseteq A) => Upstream(l)' \subseteq A
  BY DEF Reached, ClosedUp
<1>3. \A u \in Upstream(l) : Feeders(u)' \subseteq Upstream(l)
  BY <1>1 DEF ClosedUp
<1>4. Upstream(l) \in SUBSET Index'
  BY <1>1
<1>5. Upstream(l)' \subseteq Upstream(l)
  BY <1>1, <1>2, <1>3, <1>4
<1> DEFINE A == Upstream(l)'
<1>6. A \in SUBSET Index /\ l \in A /\ \A u \in A : Feeders(u) \subseteq A
  BY <1>1, <1>2, <1>5
<1> HIDE DEF A
<1>7. Upstream(l) \subseteq A
  BY <1>1, <1>6 DEF ClosedUp
<1> QED
  BY <1>5, <1>7 DEF A

LEMMA NotedGrows ==
  ASSUME IInv,
         \A l \in Index : /\ Upstream(l) \subseteq Upstream(l)'
                          /\ Feeders(l) \subseteq Feeders(l)'
                          /\ layer[l].restricted_map \subseteq layer'[l].restricted_map
                          /\ layer[l].ops = <<>> => layer'[l].ops = <<>>
  PROVE  \A l \in Index : \A x : Noted(x, l) => Noted(x, l)'
<1>1. \A u \in Index : Misled(u) => Misled(u)'
  BY MapsTyped DEF Misled
<1>2. \A l \in Index : Upstream(l) \subseteq Index
  BY UpstreamReaches DEF Reached
<1> QED
  BY <1>1, <1>2 DEF Noted, IsRestrictedBy

(* The three ways in which what a layer reads changes: a layer is added ... *)
LEMMA FeedersNew ==
  ASSUME IInv, Laid, FeedersRead, FeedersRead', Fusing, NewLayer(Top, InLayers(Top)), g' = g,
         NEW new, new = Fresh
  PROVE  /\ \A l \in Index : Feeders(l)' = Feeders(l)
         /\ Feeders(new)' = InLayers(Top)
<1>1. /\ Fresh \notin Index /\ Fresh # 0 /\ Index' = Index \cup {Fresh}
      /\ \A n \in Op : subgraph_idx'[n] = IF n = Top THEN Fresh ELSE subgraph_idx[n]
  BY EffectNew
<1>2. /\ Top \in Op /\ subgraph_idx[Top] = 0 /\ g \in OpGraph
      /\ \A p \in Needs(Top) : p \in Op /\ p # Top /\ subgraph_idx[p] \in Index /\ subgraph_idx[p] # 0
      /\ InLayers(Top) = {subgraph_idx[p] : p \in Needs(Top)}
  BY TopUnplaced
<1>3. \A n \in Op : \A p \in Needs(n) : p \in Op
  BY <1>2, NeedsOps
<1>4. Op' = Op /\ \A n : Needs(n)' = Needs(n)
  BY SameNeeds
<1>5. \A l, f : Reads(l, f)' <=> \E n \in Op : subgraph_idx'[n] = l /\ \E p \in Needs(n) : subgraph_idx'[p] = f
  BY <1>4 DEF Reads
<1>6. 0 \notin Index /\ \A n \in Op : subgraph_idx[n] # Fresh
  BY <1>1, LayerTypes DEF Index, Fresh
<1>7. ASSUME NEW l \in Index PROVE Feeders(l)' = Feeders(l)
  <2>1. ASSUME NEW n \in Op, NEW p \in Needs(n)
        PROVE  /\ subgraph_idx[n] = l => subgraph_idx'[n] = l /\ subgraph_idx'[p] = subgraph_idx[p]
               /\ subgraph_idx'[n] = l => subgraph_idx[n] = l
    <3>1. subgraph_idx'[n] = l => n # Top
      BY <1>1, <1>2
    <3>2. subgraph_idx[n] = l => n # Top /\ p # Top
      BY <1>2, <1>6 DEF Laid
    <3> QED
      BY <1>1, <1>3, <3>1, <3>2
  <2>2. \A f : Reads(l, f)' <=> Reads(l, f)
    BY <1>5, <2>1 DEF Reads
  <2>3. \A f : f \in Feeders(l)' <=> f \in Feeders(l)
    BY <1>1, <2>2 DEF FeedersRead
  <2> QED
    BY <2>3 DEF Feeders
<1>8. Feeders(new)' = InLayers(Top)
  <2>1. \A n \in Op : subgraph_idx'[n] = new <=> n = Top
    BY <1>1, <1>6
  <2>2. \A p \in Needs(Top) : subgraph_idx'[p] = subgraph_idx[p]
    BY <1>1, <1>2
  <2>3. \A f : Reads(new, f)' <=> \E p \in Needs(Top) : subgraph_idx[p] = f
    BY <1>2, <1>5, <2>1, <2>2
  <2>4. \A f : f \in Feeders(new)' <=> f \in InLayers(Top)
    BY <1>1, <1>2, <1>6, <2>3 DEF FeedersRead
  <2> QED
    BY <2>4 DEF Feeders
<1> QED
  BY <1>7, <1>8

(* ... an op joins a layer ... *)
LEMMA FeedersJoin ==
  ASSUME IInv, Laid, FeedersRead, FeedersRead', FuseInto, NEW l, l = InLayer(Top, into')
  PROVE  /\ \A i \in Index : i # l => Feeders(i)' = Feeders(i)
         /\ Feeders(l)' = Feeders(l) \cup (InLayers(Top) \ {l})
<1>1. /\ l \in Index /\ Index' = Index /\ g' = g
      /\ \A n \in Op : subgraph_idx'[n] = IF n = Top THEN l ELSE subgraph_idx[n]
  BY EffectJoin DEF FuseInto
<1>2. /\ Top \in Op /\ subgraph_idx[Top] = 0 /\ g \in OpGraph
      /\ \A p \in Needs(Top) : p \in Op /\ p # Top /\ subgraph_idx[p] \in Index /\ subgraph_idx[p] # 0
      /\ InLayers(Top) = {subgraph_idx[p] : p \in Needs(Top)}
  BY TopUnplaced DEF FuseInto
<1>3. \A n \in Op : \A p \in Needs(n) : p \in Op
  BY <1>2, NeedsOps
<1>4. Op' = Op /\ \A n : Needs(n)' = Needs(n)
  BY <1>1, SameNeeds
<1>5. \A i, f : Reads(i, f)' <=> \E n \in Op : subgraph_idx'[n] = i /\ \E p \in Needs(n) : subgraph_idx'[p] = f
  BY <1>4 DEF Reads
<1>6. 0 \notin Index
  BY LayerTypes DEF Index
<1>7. ASSUME NEW i \in Index, NEW f
      PROVE  Reads(i, f)' <=> Reads(i, f) \/ (i = l /\ f \in InLayers(Top))
  <2>1. ASSUME NEW n \in Op, NEW p \in Needs(n), n # Top
        PROVE  subgraph_idx[n] = i => subgraph_idx'[n] = i /\ subgraph_idx'[p] = subgraph_idx[p]
    <3>1. subgraph_idx[n] = i => p # Top
      BY <1>2, <1>6 DEF Laid
    <3> QED
      BY <1>1, <1>3, <2>1, <3>1
  <2>2. \A n \in Op : n # Top => (subgraph_idx'[n] = i <=> subgraph_idx[n] = i)
    BY <1>1
  <2>3. \A p \in Needs(Top) : subgraph_idx'[p] = subgraph_idx[p]
    BY <1>1, <1>2
  <2>4. subgraph_idx'[Top] = l /\ subgraph_idx[Top] # i
    BY <1>1, <1>2, <1>6
  <2>5. ASSUME Reads(i, f)' PROVE Reads(i, f) \/ (i = l /\ f \in InLayers(Top))
    <3>1. PICK n \in Op : subgraph_idx'[n] = i /\ \E p \in Needs(n) : subgraph_idx'[p] = f
      BY <1>5, <2>5
    <3>2. PICK p \in Needs(n) : subgraph_idx'[p] = f
      BY <3>1
    <3>3. CASE n = Top
      BY <1>2, <2>3, <2>4, <3>1, <3>2, <3>3
    <3>4. CASE n # Top
      BY <2>1, <2>2, <3>1, <3>2, <3>4 DEF Reads
    <3> QED
      BY <3>3, <3>4
  <2>6. ASSUME Reads(i, f) PROVE Reads(i, f)'
    <3>1. PICK n \in Op : subgraph_idx[n] = i /\ \E p \in Needs(n) : subgraph_idx[p] = f
      BY <2>6 DEF Reads
    <3>2. PICK p \in Needs(n) : subgraph_idx[p] = f
      BY <3>1
    <3>3. n # Top
      BY <2>4, <3>1
    <3>4. subgraph_idx'[n] = i /\ subgraph_idx'[p] = f
      BY <2>1, <3>1, <3>2, <3>3
    <3> QED
      BY <1>5, <3>4
  <2>7. ASSUME i = l, f \in InLayers(Top) PROVE Reads(i, f)'
    <3>1. PICK p \in Needs(Top) : f = subgraph_idx[p]
      BY <1>2, <2>7
    <3> QED
      BY <1>2, <1>5, <2>3, <2>4, <2>7, <3>1
  <2> QED
    BY <2>5, <2>6, <2>7
<1>8. \A i \in Index, f \in Index : f \in Feeders(i)' <=> f # i /\ Reads(i, f)'
  BY <1>1, <1>6 DEF FeedersRead
<1>9. \A i \in Index, f \in Index : f \in Feeders(i) <=> f # i /\ Reads(i, f)
  BY <1>6 DEF FeedersRead
<1>10. \A i \in Index : Feeders(i) \subseteq Index
  BY FeedersTyped
<1>11. \A i \in Index : Feeders(i)' \subseteq Index
  <2>1. \A i \in Index : \A f : f \in Feeders(i)' => f # 0 /\ Reads(i, f)'
    BY <1>1 DEF FeedersRead
  <2>2. \A i \in Index : \A f : f # 0 /\ Reads(i, f) => f \in Index
    BY <1>3, LayerTypes DEF Reads, Index
  <2>3. InLayers(Top) \subseteq Index
    BY <1>2
  <2> QED
    BY <1>7, <2>1, <2>2, <2>3
<1>12. InLayers(Top) \subseteq Index
  BY <1>2
<1>13. ASSUME NEW i \in Index, i # l PROVE Feeders(i)' = Feeders(i)
  <2>1. \A f \in Index : f \in Feeders(i)' <=> f \in Feeders(i)
    BY <1>7, <1>8, <1>9, <1>13
  <2> QED
    BY <1>10, <1>11, <2>1
<1>14. Feeders(l)' = Feeders(l) \cup (InLayers(Top) \ {l})
  <2>1. \A f \in Index : f \in Feeders(l)' <=> f \in Feeders(l) \/ (f \in InLayers(Top) /\ f # l)
    BY <1>1, <1>7, <1>8, <1>9
  <2> QED
    BY <1>1, <1>10, <1>11, <1>12, <2>1
<1> QED
  BY <1>13, <1>14

(* ... or one layer takes over the ops of another. *)
Moved(src, dst, u) == IF u = src THEN dst ELSE u

LEMMA FeedersMerge ==
  ASSUME IInv, Laid, FeedersRead, FeedersRead', MergeInput,
         NEW src, src = InLayer(Top, m), NEW dst, dst = subgraph_idx[Top], MergeLayers(src, dst)
  PROVE  /\ \A i \in Index \ {src, dst} : Feeders(i)' = {Moved(src, dst, f) : f \in Feeders(i)}
         /\ Feeders(src)' = {}
         /\ Feeders(dst)' = (Feeders(src) \cup Feeders(dst)) \ {src, dst}
<1>1. /\ src \in Index /\ dst \in Index /\ src # dst /\ src # 0 /\ dst # 0 /\ g' = g
  BY MergeTypes
<1>2. /\ Index' = Index
      /\ \A n \in Op : subgraph_idx'[n] = Moved(src, dst, subgraph_idx[n])
  BY EffectMerge DEF Moved
<1>3. \A n \in Op : \A p \in Needs(n) : p \in Op
  BY NeedsOps DEF IInv
<1>4. Op' = Op /\ \A n : Needs(n)' = Needs(n)
  BY <1>1, SameNeeds
<1>5. \A i, f : Reads(i, f)' <=>
        \E n \in Op : Moved(src, dst, subgraph_idx[n]) = i
                      /\ \E p \in Needs(n) : Moved(src, dst, subgraph_idx[p]) = f
  <2>1. \A i, f : Reads(i, f)' <=> \E n \in Op : subgraph_idx'[n] = i /\ \E p \in Needs(n) : subgraph_idx'[p] = f
    BY <1>4 DEF Reads
  <2> QED
    BY <1>2, <1>3, <2>1
<1>6. 0 \notin Index
  BY LayerTypes DEF Index
<1>7. \A i, f : Reads(i, f)' <=> \E x, y : Moved(src, dst, x) = i /\ Moved(src, dst, y) = f /\ Reads(x, y)
  <2> SUFFICES ASSUME NEW i, NEW f
               PROVE  Reads(i, f)' <=> \E x, y : Moved(src, dst, x) = i /\ Moved(src, dst, y) = f /\ Reads(x, y)
    OBVIOUS
  <2>1. ASSUME Reads(i, f)' PROVE \E x, y : Moved(src, dst, x) = i /\ Moved(src, dst, y) = f /\ Reads(x, y)
    <3>1. PICK n \in Op : Moved(src, dst, subgraph_idx[n]) = i
                          /\ \E p \in Needs(n) : Moved(src, dst, subgraph_idx[p]) = f
      BY <1>5, <2>1
    <3>2. PICK p \in Needs(n) : Moved(src, dst, subgraph_idx[p]) = f
      BY <3>1
    <3>3. Reads(subgraph_idx[n], subgraph_idx[p])
      BY <3>1, <3>2 DEF Reads
    <3> QED
      BY <3>1, <3>2, <3>3
  <2>2. ASSUME NEW x, NEW y, Moved(src, dst, x) = i, Moved(src, dst, y) = f, Reads(x, y) PROVE Reads(i, f)'
    BY <1>5, <2>2 DEF Reads
  <2> QED
    BY <2>1, <2>2
<1>8. \A i \in Index : \A f : f \in Feeders(i)' <=> f # 0 /\ f # i /\ Reads(i, f)'
  BY <1>2 DEF FeedersRead
<1>9. \A i \in Index : \A f : f \in Feeders(i) <=> f # 0 /\ f # i /\ Reads(i, f)
  BY DEF FeedersRead
<1>10. ASSUME NEW i \in Index \ {src, dst}, NEW f
       PROVE  f \in Feeders(i)' <=> \E y \in Feeders(i) : f = Moved(src, dst, y)
  <2>1. \A x : Moved(src, dst, x) = i <=> x = i
    BY DEF Moved
  <2>2. \A y : Moved(src, dst, y) = 0 <=> y = 0
    BY <1>1 DEF Moved
  <2>3. Reads(i, f)' <=> \E y : Moved(src, dst, y) = f /\ Reads(i, y)
    BY <1>7, <2>1
  <2>4. ASSUME f \in Feeders(i)' PROVE \E y \in Feeders(i) : f = Moved(src, dst, y)
    <3>1. PICK y : Moved(src, dst, y) = f /\ Reads(i, y)
      BY <1>8, <2>3, <2>4
    <3>2. y # 0 /\ y # i
      BY <1>8, <2>1, <2>2, <2>4, <3>1
    <3> QED
      BY <1>9, <3>1, <3>2
  <2>5. ASSUME NEW y \in Feeders(i), f = Moved(src, dst, y) PROVE f \in Feeders(i)'
    <3>1. y # 0 /\ y # i /\ Reads(i, y)
      BY <1>9
    <3>2. f # 0 /\ f # i /\ Reads(i, f)'
      BY <2>1, <2>2, <2>3, <2>5, <3>1
    <3> QED
      BY <1>8, <3>2
  <2> QED
    BY <2>4, <2>5
<1>11. Feeders(src)' = {}
  <2>1. \A x : Moved(src, dst, x) # src
    BY <1>1 DEF Moved
  <2>2. \A f : f \notin Feeders(src)'
    BY <1>1, <1>7, <1>8, <2>1
  <2> QED
    BY <2>2 DEF Feeders
<1>12. ASSUME NEW f
       PROVE  f \in Feeders(dst)' <=> f \in (Feeders(src) \cup Feeders(dst)) \ {src, dst}
  <2>1. \A x : Moved(src, dst, x) = dst <=> x = src \/ x = dst
    BY DEF Moved
  <2>2. \A y : Moved(src, dst, y) # src
    BY <1>1 DEF Moved
  <2>3. f \notin {src, dst} => \A y : Moved(src, dst, y) = f <=> y = f
    BY DEF Moved
  <2>4. f \notin {src, dst} => (Reads(dst, f)' <=> Reads(src, f) \/ Reads(dst, f))
    BY <1>7, <2>1, <2>3
  <2>5. Reads(dst, f)' => f # src
    BY <1>7, <2>2
  <2>6. f \in Feeders(dst)' => f \notin {src, dst}
    BY <1>1, <1>8, <2>5
  <2>7. f \notin {src, dst} =>
          (f \in Feeders(dst)' <=> f \in Feeders(src) \/ f \in Feeders(dst))
    BY <1>1, <1>8, <1>9, <2>4
  <2> QED
    BY <2>6, <2>7
<1>13. \A i \in Index \ {src, dst} : Feeders(i)' = {Moved(src, dst, f) : f \in Feeders(i)}
  BY <1>10 DEF Feeders
<1>14. Feeders(dst)' = (Feeders(src) \cup Feeders(dst)) \ {src, dst}
  BY <1>12 DEF Feeders
<1> QED
  BY <1>11, <1>13, <1>14

(* Adding to a restricted map changes nothing that is read. *)
LEMMA FeedersMap ==
  ASSUME FeedersRead, FeedersRead', Index' = Index, UNCHANGED <<g, subgraph_idx>>
  PROVE  \A i \in Index : Feeders(i)' = Feeders(i)
<1>1. \A i, f : Reads(i, f)' <=> Reads(i, f)
  BY SameNeeds DEF Reads
<1>2. \A i \in Index : \A f : f \in Feeders(i)' <=> f \in Feeders(i)
  BY <1>1 DEF FeedersRead
<1> QED
  BY <1>2 DEF Feeders

-----------------------------------------------------------------------------
(* What holds of the layers before and after every step. *)
Sound == IInv /\ Laid /\ Alone /\ FeedersRead /\ Reached /\ Upwards /\ LiveUp /\ NotedSpreads

LEMMA SoundLayers == IInv /\ Laid /\ Alone => Sound
  BY FeedersByOps, UpstreamReaches, UpstreamFacts, UpstreamLive, NotedBelow DEF Sound

LEMMA ReachedSets ==
  ASSUME Reached, NEW l \in Index
  PROVE  /\ l \in Upstream(l) /\ Upstream(l) \subseteq Index
         /\ \A u \in Upstream(l) : Feeders(u) \subseteq Upstream(l)
         /\ \A A \in SUBSET Index : l \in A /\ (\A u \in A : Feeders(u) \subseteq A) => Upstream(l) \subseteq A
  BY DEF Reached, ClosedUp

(* The same of the state after a step. *)
LEMMA ReachedAfter ==
  ASSUME Reached', NEW l \in Index'
  PROVE  /\ l \in Upstream(l)' /\ Upstream(l)' \subseteq Index'
         /\ \A u \in Upstream(l)' : Feeders(u)' \subseteq Upstream(l)'
         /\ \A A \in SUBSET Index' : l \in A /\ (\A u \in A : Feeders(u)' \subseteq A) => Upstream(l)' \subseteq A
  BY DEF Reached, ClosedUp

(* A layer is added: nothing is above it that its inputs were not below of. *)
LEMMA UpstreamNew ==
  ASSUME Sound, Sound', Fusing, NewLayer(Top, InLayers(Top)), g' = g, NEW new, new = Fresh
  PROVE  /\ Index' = Index \cup {new} /\ new \notin Index /\ InLayers(Top) \subseteq Live
         /\ \A l \in Index : Upstream(l)' = Upstream(l) /\ Feeders(l)' = Feeders(l) /\ layer'[l] = layer[l]
         /\ Feeders(new)' = InLayers(Top) /\ layer'[new].restricted_map = InLayers(Top)
<1>1. /\ Index' = Index \cup {new} /\ new \notin Index
      /\ \A l \in Index : layer'[l] = layer[l]
      /\ layer'[new].restricted_map = InLayers(Top)
  BY EffectNew DEF Sound
<1>2. (\A l \in Index : Feeders(l)' = Feeders(l)) /\ Feeders(new)' = InLayers(Top)
  BY FeedersNew DEF Sound
<1>3. \A l \in Index : Upstream(l)' = Upstream(l)
  BY <1>1, <1>2, SameFeeders DEF Sound
<1>4. InLayers(Top) \subseteq Live
  BY TopUnplaced, LayerInhabited DEF Sound, Live
<1> QED
  BY <1>1, <1>2, <1>3, <1>4

LEMMA NotedNew ==
  ASSUME Sound, Sound', NotedOrOwed, Fusing, NewLayer(Top, InLayers(Top)), g' = g, NEW new, new = Fresh
  PROVE  \A l \in Live' : \A x \in Upstream(l)' \ {l} : Noted(x, l)'
<1>1. /\ Index' = Index \cup {new} /\ new \notin Index /\ InLayers(Top) \subseteq Live
      /\ \A l \in Index : Upstream(l)' = Upstream(l) /\ Feeders(l)' = Feeders(l) /\ layer'[l] = layer[l]
      /\ Feeders(new)' = InLayers(Top) /\ layer'[new].restricted_map = InLayers(Top)
  BY UpstreamNew
<1>2. \A l \in Index : \A x : Noted(x, l) => Noted(x, l)'
  BY <1>1, NotedGrows DEF Sound
<1>3. \A l \in Live : \A x \in Upstream(l) \ {l} : Noted(x, l)
  <2>1. FirstWalk /\ phase # "merge"
    BY DEF Fusing, FirstWalk
  <2> QED
    BY <2>1 DEF NotedOrOwed, Owed
<1>4. ASSUME NEW l \in Live', NEW x \in Upstream(l)' \ {l}, l \in Index PROVE Noted(x, l)'
  <2>1. l \in Live
    BY <1>1, <1>4 DEF Live, Index
  <2> QED
    BY <1>1, <1>2, <1>3, <1>4, <2>1
<1>5. ASSUME NEW x \in Upstream(new)' \ {new} PROVE Noted(x, new)'
  <2>1. PICK f \in Feeders(new)' : x \in Upstream(f)'
    BY <1>1, <1>5 DEF Sound, Upwards
  <2>2. f \in InLayers(Top) /\ f \in Live /\ f \in Index
    BY <1>1, <2>1 DEF Live, Index
  <2>3. new \in Upstream(new)' /\ f \in Upstream(new)'
    BY <1>1, <2>1 DEF Sound, Reached, Upwards
  <2>4. CASE x = f
    BY <1>1, <2>2, <2>3, <2>4 DEF Noted, IsRestrictedBy
  <2>5. CASE x # f
    <3>1. Noted(x, f)'
      BY <1>1, <1>2, <1>3, <2>1, <2>2, <2>5
    <3> QED
      BY <1>1, <2>3, <3>1 DEF Sound, NotedSpreads
  <2> QED
    BY <2>4, <2>5
<1>6. \A l \in Live' : l \in Index \/ l = new
  BY <1>1 DEF Live, Index
<1> QED
  BY <1>4, <1>5, <1>6

(* An op joins a layer: what its inputs are below of comes above it. *)
LEMMA UpstreamJoin ==
  ASSUME Sound, Sound', FuseInto, NEW l, l = InLayer(Top, into')
  PROVE  /\ l \in Live /\ l \in InLayers(Top) /\ InLayers(Top) \subseteq Live /\ Index' = Index /\ Live' = Live
         /\ \A i \in Index : /\ Upstream(i) \subseteq Upstream(i)' /\ Feeders(i) \subseteq Feeders(i)'
                             /\ layer'[i].restricted_map = layer[i].restricted_map
                             /\ (layer'[i].ops = <<>> <=> layer[i].ops = <<>>)
                             /\ i # l => Feeders(i)' = Feeders(i)
         /\ Feeders(l)' = Feeders(l) \cup (InLayers(Top) \ {l})
         /\ \A i \in Index : \A x \in Upstream(i)' :
              x \in Upstream(i) \/ (l \in Upstream(i) /\ \E y \in InLayers(Top) : x \in Upstream(y))
<1>1. /\ l \in Index /\ l \in InLayers(Top) /\ layer[l].ops # <<>> /\ Index' = Index
      /\ \A i \in Index : /\ layer'[i].restricted_map = layer[i].restricted_map
                          /\ (layer'[i].ops = <<>> <=> layer[i].ops = <<>>)
  BY EffectJoin DEF Sound
<1>2. /\ \A i \in Index : i # l => Feeders(i)' = Feeders(i)
      /\ Feeders(l)' = Feeders(l) \cup (InLayers(Top) \ {l})
  BY FeedersJoin DEF Sound
<1>3. InLayers(Top) \subseteq Live /\ Live \subseteq Index
  BY TopUnplaced, LayerInhabited DEF Sound, Live, FuseInto, Index
<1>4. Live' = Live /\ l \in Live
  BY <1>1 DEF Live, Index
<1>5. \A i \in Index : Feeders(i) \subseteq Feeders(i)'
  BY <1>2
<1>6. ASSUME NEW i \in Index PROVE Upstream(i) \subseteq Upstream(i)'
  <2> DEFINE A == Upstream(i)'
  <2>1. i \in A /\ A \subseteq Index /\ \A u \in A : Feeders(u)' \subseteq A
    BY <1>1, ReachedAfter DEF Sound
  <2>2. \A u \in A : Feeders(u) \subseteq A
    BY <1>5, <2>1
  <2> HIDE DEF A
  <2>3. Upstream(i) \subseteq A
    BY <2>1, <2>2, ReachedSets DEF Sound
  <2> QED
    BY <2>3 DEF A
<1>7. ASSUME NEW i \in Index, NEW x \in Upstream(i)'
      PROVE  x \in Upstream(i) \/ (l \in Upstream(i) /\ \E y \in InLayers(Top) : x \in Upstream(y))
  <2> DEFINE A == {u \in Index : u \in Upstream(i)
                                 \/ (l \in Upstream(i) /\ \E y \in InLayers(Top) : u \in Upstream(y))}
  <2>1. i \in A /\ A \in SUBSET Index'
    BY <1>1, ReachedSets DEF Sound
  <2>2. ASSUME NEW u \in A PROVE Feeders(u)' \subseteq A
    <3>1. Feeders(u) \subseteq A
      <4>1. \A y \in InLayers(Top) : y \in Index
        BY <1>3
      <4>2. \A y \in InLayers(Top) : u \in Upstream(y) => Feeders(u) \subseteq Upstream(y)
        BY <4>1, ReachedSets DEF Sound
      <4>3. u \in Upstream(i) => Feeders(u) \subseteq Upstream(i)
        BY ReachedSets DEF Sound
      <4>4. Feeders(u) \subseteq Index
        BY FeedersTyped DEF Sound
      <4> QED
        BY <4>2, <4>3, <4>4
    <3>2. CASE u = l
      <4>1. l \in Upstream(i)
        BY <3>2
      <4>2. InLayers(Top) \subseteq A
        BY <1>3, <4>1, ReachedSets DEF Sound
      <4> QED
        BY <1>2, <3>1, <3>2, <4>2
    <3>3. CASE u # l
      BY <1>2, <3>1, <3>3
    <3> QED
      BY <3>2, <3>3
  <2>3. i \in Index'
    BY <1>1
  <2>4. Upstream(i)' \subseteq A
    <3> HIDE DEF A
    <3> QED
      BY <2>1, <2>2, <2>3, ReachedAfter DEF Sound
  <2> QED
    BY <2>4
<1> QED
  BY <1>1, <1>2, <1>3, <1>4, <1>5, <1>6, <1>7

LEMMA InLayerOf ==
  ASSUME IInv, NEW n \in Op, NEW k \in ProducedIn(n)
  PROVE  /\ InLayer(n, k) = subgraph_idx[Producer(g.ops[n].in[k])]
         /\ Producer(g.ops[n].in[k]) \in Op
  BY ProducerIsOp DEF InLayer, Above, ProducedIn

(* The inputs the merging loop has still to come to, by the layers they are in. *)
OpInLayer == \A n \in Op : \A k \in ProducedIn(n) :
               /\ InLayer(n, k) = subgraph_idx[Producer(g.ops[n].in[k])]
               /\ Producer(g.ops[n].in[k]) \in Op

LEMMA InLayersOf == IInv => OpInLayer
  BY InLayerOf DEF OpInLayer

LEMMA NotedJoin ==
  ASSUME Sound, Sound', NotedOrOwed, FuseInto, NEW l, l = InLayer(Top, into')
  PROVE  NotedOrOwed'
<1>1. /\ l \in Live /\ l \in InLayers(Top) /\ InLayers(Top) \subseteq Live /\ Index' = Index /\ Live' = Live
      /\ \A i \in Index : /\ Upstream(i) \subseteq Upstream(i)' /\ Feeders(i) \subseteq Feeders(i)'
                          /\ layer'[i].restricted_map = layer[i].restricted_map
                          /\ (layer'[i].ops = <<>> <=> layer[i].ops = <<>>)
      /\ Feeders(l)' = Feeders(l) \cup (InLayers(Top) \ {l})
      /\ \A i \in Index : \A x \in Upstream(i)' :
           x \in Upstream(i) \/ (l \in Upstream(i) /\ \E y \in InLayers(Top) : x \in Upstream(y))
  BY UpstreamJoin
<1>2. /\ phase = "fuse" /\ phase' = "merge" /\ m' = 1 /\ Top' = Top /\ g' = g /\ FirstWalk
      /\ into' \in ProducedIn(Top) /\ subgraph_idx' = [subgraph_idx EXCEPT ![Top] = l]
  BY DEF FuseInto, Fusing, FirstWalk, walk, Top, CanFuse, SameDevice
<1>3. Top \in Op /\ \A p \in Needs(Top) : p \in Op /\ p # Top
  BY TopUnplaced DEF FuseInto, Sound
<1>4. subgraph_idx'[Top] = l
  BY <1>2, <1>3 DEF Sound, IInv, TypeOK
<1>5. \A k \in ProducedIn(Top) : InLayer(Top, k)' = InLayer(Top, k)
  <2>1. OpInLayer /\ OpInLayer'
    BY InLayersOf, PTL DEF Sound
  <2>2. Op' = Op /\ ProducedIn(Top)' = ProducedIn(Top) /\ \A t : Producer(t)' = Producer(t)
    BY <1>2, SameNeeds, SameGraph DEF ProducedIn
  <2>3. \A k \in ProducedIn(Top) : Producer(g.ops[Top].in[k]) \in Op \ {Top}
    BY <1>3 DEF Needs
  <2>4. \A k \in ProducedIn(Top) : /\ InLayer(Top, k) = subgraph_idx[Producer(g.ops[Top].in[k])]
                                   /\ InLayer(Top, k)' = subgraph_idx'[Producer(g.ops[Top].in[k])]
    BY <1>2, <1>3, <2>1, <2>2 DEF OpInLayer
  <2>5. \A n \in Op \ {Top} : subgraph_idx'[n] = subgraph_idx[n]
    BY <1>2 DEF Sound, IInv, TypeOK
  <2> QED
    BY <2>3, <2>4, <2>5
<1>6. ProducedIn(Top)' = ProducedIn(Top) /\ \A k \in ProducedIn(Top) : k \in Nat /\ k >= 1
  <2>1. DOMAIN g.ops[Top].in = 1 .. Len(g.ops[Top].in)
    BY <1>3, GraphTypes DEF Sound, IInv
  <2> QED
    BY <1>2, <2>1, SameGraph DEF ProducedIn
<1>7. \A i \in Index : \A x : Noted(x, i) => Noted(x, i)'
  BY <1>1, NotedGrows DEF Sound
<1>8. \A i \in Live : \A x \in Upstream(i) \ {i} : Noted(x, i)
  BY <1>2 DEF NotedOrOwed, Owed
<1>9. ASSUME NEW i \in Live, NEW x \in Upstream(i)' \ {i} PROVE Noted(x, i)' \/ Owed(x, i)'
  <2>1. i \in Index /\ Live \subseteq Index
    BY DEF Live, Index
  <2>2. CASE x \in Upstream(i)
    BY <1>7, <1>8, <2>1, <2>2
  <2>3. CASE x \notin Upstream(i)
    <3>1. l \in Upstream(i) /\ \E y \in InLayers(Top) : x \in Upstream(y)
      BY <1>1, <2>1, <2>3
    <3>2. PICK y \in InLayers(Top) : x \in Upstream(y)
      BY <3>1
    <3>3. y \in Live /\ y \in Index
      BY <1>1, <2>1
    <3>4. l \in Upstream(i)' /\ l # x
      BY <1>1, <2>1, <2>3, <3>1
    <3>5. y \in Upstream(i)'
      <4>1. CASE y = l
        BY <3>4, <4>1
      <4>2. CASE y # l
        BY <1>1, <2>1, <3>4, <4>2, ReachedAfter DEF Sound
      <4> QED
        BY <4>1, <4>2
    <3>6. CASE x = y
      <4>1. PICK k \in ProducedIn(Top) : InLayer(Top, k) = y
        BY DEF InLayers
      <4>2. k # into'
        BY <3>4, <3>6, <4>1
      <4>3. k >= m'
        BY <1>2, <1>6
      <4> QED
        BY <1>2, <1>4, <1>5, <1>6, <3>4, <3>6, <4>1, <4>2, <4>3 DEF Owed
    <3>7. CASE x # y
      <4>1. Noted(x, y)'
        BY <1>7, <1>8, <3>2, <3>3, <3>7
      <4> QED
        BY <1>1, <2>1, <3>5, <4>1 DEF Sound, NotedSpreads
    <3> QED
      BY <3>6, <3>7
  <2> QED
    BY <2>2, <2>3
<1> QED
  BY <1>1, <1>9 DEF NotedOrOwed

(* One layer takes over the ops of another: everything above either comes   *)
(* above what is left of them.                                              *)
LEMMA UpstreamMerge ==
  ASSUME Sound, Sound', MergeInput,
         NEW src, src = InLayer(Top, m), NEW dst, dst = subgraph_idx[Top], MergeLayers(src, dst)
  PROVE  /\ src \in Live /\ dst \in Live /\ src # dst /\ Index' = Index /\ Live' = Live \ {src}
         /\ \A i \in Index : \A u \in Upstream(i) : Moved(src, dst, u) \in Upstream(Moved(src, dst, i))'
         /\ \A i \in Live' : \A x \in Upstream(i)' : \E s \in Live : \E z \in Upstream(s) :
              /\ x = Moved(src, dst, z)
              /\ s = i \/ (s \in {src, dst} /\ \E w \in {src, dst} : w \in Upstream(i))
         /\ \A i \in Index : \A x : Noted(x, i) => Noted(Moved(src, dst, x), Moved(src, dst, i))'
<1>1. /\ src \in Index /\ dst \in Index /\ src # dst /\ Index' = Index
      /\ layer[src].ops # <<>> /\ layer[dst].ops # <<>> /\ layer'[src].ops = <<>> /\ layer'[dst].ops # <<>>
      /\ \A i \in Index : /\ i # dst => layer'[i].restricted_map = layer[i].restricted_map
                          /\ i # src /\ i # dst => layer'[i].ops = layer[i].ops
      /\ layer'[dst].restricted_map = layer[dst].restricted_map \cup layer[src].restricted_map
  BY MergeTypes, EffectMerge DEF Sound
<1>2. /\ \A i \in Index \ {src, dst} : Feeders(i)' = {Moved(src, dst, f) : f \in Feeders(i)}
      /\ Feeders(dst)' = (Feeders(src) \cup Feeders(dst)) \ {src, dst}
  BY FeedersMerge DEF Sound
<1>3. src \in Live /\ dst \in Live /\ Live' = Live \ {src}
  BY <1>1 DEF Live, Index
<1>4. \A u \in Index : Moved(src, dst, u) \in Index
  BY <1>1 DEF Moved
<1>5. ASSUME NEW u \in Index, NEW f \in Feeders(u)
      PROVE  Moved(src, dst, f) = Moved(src, dst, u) \/ Moved(src, dst, f) \in Feeders(Moved(src, dst, u))'
  <2>1. CASE u \in {src, dst}
    <3>1. Moved(src, dst, u) = dst
      BY <2>1 DEF Moved
    <3>2. CASE f \in {src, dst}
      BY <3>1, <3>2 DEF Moved
    <3>3. CASE f \notin {src, dst}
      BY <1>2, <2>1, <3>1, <3>3 DEF Moved
    <3> QED
      BY <3>2, <3>3
  <2>2. CASE u \notin {src, dst}
    <3>1. Moved(src, dst, u) = u
      BY <2>2 DEF Moved
    <3> QED
      BY <1>2, <2>2, <3>1
  <2> QED
    BY <2>1, <2>2
<1>6. ASSUME NEW i \in Index, NEW u \in Upstream(i) PROVE Moved(src, dst, u) \in Upstream(Moved(src, dst, i))'
  <2> DEFINE A == {y \in Index : Moved(src, dst, y) \in Upstream(Moved(src, dst, i))'}
  <2>1. /\ Moved(src, dst, i) \in Upstream(Moved(src, dst, i))'
        /\ \A y \in Upstream(Moved(src, dst, i))' : Feeders(y)' \subseteq Upstream(Moved(src, dst, i))'
    BY <1>1, <1>4, ReachedAfter DEF Sound
  <2>2. A \in SUBSET Index /\ i \in A
    BY <2>1
  <2>3. ASSUME NEW y \in A, NEW f \in Feeders(y) PROVE f \in A
    <3>1. f \in Index /\ y \in Index
      BY FeedersTyped DEF Sound
    <3> QED
      BY <1>5, <2>1, <3>1
  <2> HIDE DEF A
  <2>4. Upstream(i) \subseteq A
    BY <2>2, <2>3, ReachedSets DEF Sound
  <2> QED
    BY <2>4 DEF A
<1>7. ASSUME NEW i \in Live', NEW x \in Upstream(i)'
      PROVE  \E s \in Live : \E z \in Upstream(s) :
               /\ x = Moved(src, dst, z)
               /\ s = i \/ (s \in {src, dst} /\ \E w \in {src, dst} : w \in Upstream(i))
  <2> DEFINE P(y) == \E s \in Live : \E z \in Upstream(s) :
                       /\ y = Moved(src, dst, z)
                       /\ s = i \/ (s \in {src, dst} /\ \E w \in {src, dst} : w \in Upstream(i))
             A == {y \in Index : P(y)}
  <2>1. i \in Live /\ i \in Index /\ i # src /\ Live \subseteq Index
    BY <1>3 DEF Live, Index
  <2>2. i \in A
    <3>1. i \in Upstream(i) /\ i = Moved(src, dst, i)
      BY <2>1, ReachedSets DEF Sound, Moved
    <3> QED
      BY <2>1, <3>1
  <2>3. ASSUME NEW y \in A, NEW f \in Feeders(y)' PROVE f \in A
    <3>1. PICK s \in Live : \E z \in Upstream(s) :
                       /\ y = Moved(src, dst, z)
                       /\ s = i \/ (s \in {src, dst} /\ \E w \in {src, dst} : w \in Upstream(i))
      OBVIOUS
    <3>2. PICK z \in Upstream(s) :
                       /\ y = Moved(src, dst, z)
                       /\ s = i \/ (s \in {src, dst} /\ \E w \in {src, dst} : w \in Upstream(i))
      BY <3>1
    <3>3. z \in Index /\ Feeders(z) \subseteq Upstream(s)
      BY <2>1, ReachedSets DEF Sound
    <3>4. CASE z \in {src, dst}
      <4>1. y = dst
        BY <3>2, <3>4 DEF Moved
      <4>2. PICK v \in {src, dst} : f \in Feeders(v) /\ f \notin {src, dst}
        BY <1>2, <4>1
      <4>3. f = Moved(src, dst, f) /\ v \in Live
        BY <1>3, <4>2 DEF Moved
      <4>4. f \in Upstream(v) /\ f \in Index
        BY <2>1, <4>2, <4>3, FeedersTyped DEF Sound, Upwards
      <4>5. \E w \in {src, dst} : w \in Upstream(i)
        BY <3>2, <3>4
      <4> QED
        BY <4>3, <4>4, <4>5
    <3>5. CASE z \notin {src, dst}
      <4>1. y = z
        BY <3>2, <3>5 DEF Moved
      <4>2. PICK e \in Feeders(z) : f = Moved(src, dst, e)
        BY <1>2, <3>3, <3>5, <4>1
      <4>3. e \in Upstream(s) /\ e \in Index
        BY <3>3, <4>2, FeedersTyped DEF Sound
      <4>4. f \in Index
        BY <1>4, <4>2, <4>3
      <4> QED
        BY <3>2, <4>2, <4>3, <4>4
    <3> QED
      BY <3>4, <3>5
  <2>4. A \in SUBSET Index' /\ i \in Index'
    BY <1>1, <2>1
  <2>5. Upstream(i)' \subseteq A
    <3> HIDE DEF A
    <3> QED
      BY <2>2, <2>3, <2>4, ReachedAfter DEF Sound
  <2> QED
    BY <2>5
<1>8. \A u \in Index : layer[u].restricted_map \subseteq layer'[Moved(src, dst, u)].restricted_map
  BY <1>1 DEF Moved
<1>9. ASSUME NEW u \in Index, Misled(u) PROVE Misled(Moved(src, dst, u))'
  <2>1. PICK x \in layer[u].restricted_map : layer[x].ops = <<>> \/ x = u \/ u \in Feeders(x)
    BY <1>9 DEF Misled
  <2>2. x \in Index /\ x \in layer'[Moved(src, dst, u)].restricted_map
    BY <1>8, <2>1, MapsTyped DEF Sound
  <2>3. layer'[x].ops = <<>> \/ x = Moved(src, dst, u) \/ Moved(src, dst, u) \in Feeders(x)'
    <3>1. CASE x = src
      BY <1>1, <3>1
    <3>2. CASE x # src /\ layer[x].ops = <<>>
      BY <1>1, <2>2, <3>2
    <3>3. CASE x # src /\ x = u
      BY <3>3 DEF Moved
    <3>4. CASE x = dst /\ u \in Feeders(x)
      BY <1>2, <3>4 DEF Moved
    <3>5. CASE x \notin {src, dst} /\ u \in Feeders(x)
      BY <1>2, <2>2, <3>5
    <3> QED
      BY <2>1, <3>1, <3>2, <3>3, <3>4, <3>5
  <2> QED
    BY <2>2, <2>3 DEF Misled
<1>10. ASSUME NEW i \in Index, NEW x, Noted(x, i)
       PROVE  Noted(Moved(src, dst, x), Moved(src, dst, i))'
  <2>1. Upstream(i) \subseteq Index
    BY ReachedSets DEF Sound
  <2>2. CASE \E u \in Upstream(i) : Misled(u)
    BY <1>6, <1>9, <2>1, <2>2 DEF Noted
  <2>3. CASE IsRestrictedBy(x, i)
    <3>1. PICK u \in Upstream(i) : x \in layer[u].restricted_map
      BY <2>3 DEF IsRestrictedBy
    <3>2. Moved(src, dst, u) \in Upstream(Moved(src, dst, i))' /\ x \in layer'[Moved(src, dst, u)].restricted_map
      BY <1>6, <1>8, <2>1, <3>1
    <3>3. CASE x = src
      <4>1. Misled(Moved(src, dst, u))'
        BY <1>1, <3>2, <3>3 DEF Misled
      <4> QED
        BY <3>2, <4>1 DEF Noted
    <3>4. CASE x # src
      <4>1. Moved(src, dst, x) = x
        BY <3>4 DEF Moved
      <4> QED
        BY <3>2, <4>1 DEF Noted, IsRestrictedBy
    <3> QED
      BY <3>3, <3>4
  <2> QED
    BY <1>10, <2>2, <2>3 DEF Noted
<1> QED
  BY <1>1, <1>3, <1>6, <1>7, <1>10

(* While layers are merged the inputs of the op stay where they are, but    *)
(* for those in the layer that goes away.                                   *)
LEMMA InputsMoved ==
  ASSUME Sound, Sound', MergeInput,
         NEW src, src = InLayer(Top, m), NEW dst, dst = subgraph_idx[Top], MergeLayers(src, dst)
  PROVE  /\ subgraph_idx'[Top] = dst /\ ProducedIn(Top)' = ProducedIn(Top)
         /\ \A k \in ProducedIn(Top) : InLayer(Top, k)' = Moved(src, dst, InLayer(Top, k))
<1>1. /\ g' = g /\ Top' = Top /\ Top \in Op
  BY MergeTypes DEF Sound
<1>2. \A n \in Op : subgraph_idx'[n] = Moved(src, dst, subgraph_idx[n])
  BY EffectMerge DEF Sound, Moved
<1>3. OpInLayer /\ OpInLayer'
  BY InLayersOf, PTL DEF Sound
<1>4. Op' = Op /\ ProducedIn(Top)' = ProducedIn(Top) /\ \A t : Producer(t)' = Producer(t)
  BY <1>1, SameNeeds, SameGraph DEF ProducedIn
<1>5. \A k \in ProducedIn(Top) : /\ InLayer(Top, k) = subgraph_idx[Producer(g.ops[Top].in[k])]
                                 /\ InLayer(Top, k)' = subgraph_idx'[Producer(g.ops[Top].in[k])]
                                 /\ Producer(g.ops[Top].in[k]) \in Op
  BY <1>1, <1>3, <1>4 DEF OpInLayer
<1>6. subgraph_idx'[Top] = dst
  BY <1>1, <1>2 DEF Moved
<1> QED
  BY <1>2, <1>4, <1>5, <1>6

LEMMA NotedMerge ==
  ASSUME Sound, Sound', NotedOrOwed, MergeInput,
         NEW src, src = InLayer(Top, m), NEW dst, dst = subgraph_idx[Top], MergeLayers(src, dst)
  PROVE  NotedOrOwed'
<1>1. /\ src \in Live /\ dst \in Live /\ src # dst /\ Index' = Index /\ Live' = Live \ {src}
      /\ \A i \in Index : \A u \in Upstream(i) : Moved(src, dst, u) \in Upstream(Moved(src, dst, i))'
      /\ \A i \in Live' : \A x \in Upstream(i)' : \E s \in Live : \E z \in Upstream(s) :
           /\ x = Moved(src, dst, z)
           /\ s = i \/ (s \in {src, dst} /\ \E w \in {src, dst} : w \in Upstream(i))
      /\ \A i \in Index : \A x : Noted(x, i) => Noted(Moved(src, dst, x), Moved(src, dst, i))'
  BY UpstreamMerge
<1>2. /\ phase = "merge" /\ phase' = "merge" /\ m' = m + 1 /\ into' = into /\ Top' = Top /\ FirstWalk
      /\ Live \subseteq Index /\ Top \in Op
  BY MergeTypes DEF Sound, FirstWalk, Live, Index
<1>3. /\ subgraph_idx'[Top] = dst /\ ProducedIn(Top)' = ProducedIn(Top)
      /\ \A k \in ProducedIn(Top) : InLayer(Top, k)' = Moved(src, dst, InLayer(Top, k))
  BY InputsMoved
<1>4. \A k \in ProducedIn(Top) : k \in Nat
  BY <1>2, GraphTypes DEF ProducedIn, Sound, IInv
<1>5. m \in Nat
  BY DEF Sound, IInv, TypeOK
<1>6. \A s \in Live : \A z \in Upstream(s) \ {s} : Noted(z, s) \/ Owed(z, s)
  BY <1>2 DEF NotedOrOwed
<1>7. \A z, s : Owed(z, s) => /\ dst \in Upstream(s) /\ z # dst
                              /\ \E k \in ProducedIn(Top) \ {into} : k >= m /\ InLayer(Top, k) = z
  BY DEF Owed
<1>8. ASSUME NEW s \in Live, dst \in Upstream(s), s # dst, s # src PROVE Noted(dst, s)'
  <2>1. Noted(dst, s)
    BY <1>6, <1>7, <1>8
  <2>2. Moved(src, dst, dst) = dst /\ Moved(src, dst, s) = s
    BY <1>8 DEF Moved
  <2>3. Noted(Moved(src, dst, dst), Moved(src, dst, s))'
    BY <1>1, <1>2, <2>1
  <2> QED
    BY <2>2, <2>3
<1>9. ASSUME NEW l \in Live', NEW x \in Upstream(l)' \ {l} PROVE Noted(x, l)' \/ Owed(x, l)'
  <2>1. PICK s \in Live : \E z \in Upstream(s) :
           /\ x = Moved(src, dst, z)
           /\ s = l \/ (s \in {src, dst} /\ \E w \in {src, dst} : w \in Upstream(l))
    BY <1>1
  <2>2. PICK z \in Upstream(s) :
           /\ x = Moved(src, dst, z)
           /\ s = l \/ (s \in {src, dst} /\ \E w \in {src, dst} : w \in Upstream(l))
    BY <2>1
  <2>3. /\ l \in Live /\ l \in Index /\ l # src /\ Moved(src, dst, l) = l
        /\ s \in Index /\ l \in Index' /\ z \in Upstream(s)
    BY <1>1, <1>2 DEF Moved
  <2>4. l \in Upstream(l)
    BY <2>3, ReachedSets DEF Sound
  <2>5. Moved(src, dst, s) \in Upstream(l)'
    <3>1. CASE s = l
      BY <1>1, <2>3, <2>4, <3>1
    <3>2. CASE s \in {src, dst} /\ \E w \in {src, dst} : w \in Upstream(l)
      <4>1. PICK w \in {src, dst} : w \in Upstream(l)
        BY <3>2
      <4>2. Moved(src, dst, w) \in Upstream(Moved(src, dst, l))'
        BY <1>1, <2>3, <4>1
      <4>3. Moved(src, dst, w) = dst /\ Moved(src, dst, s) = dst
        BY <3>2 DEF Moved
      <4> QED
        BY <2>3, <4>2, <4>3
    <3> QED
      BY <2>2, <3>1, <3>2
  <2>6. \A y : Noted(y, Moved(src, dst, s))' => Noted(y, l)'
    BY <2>3, <2>5 DEF Sound, NotedSpreads
  <2>7. CASE x = Moved(src, dst, s)
    <3>1. s # l
      BY <2>3, <2>7
    <3>2. x = dst /\ \E w \in {src, dst} : w \in Upstream(l)
      BY <2>2, <2>7, <3>1 DEF Moved
    <3>3. PICK w \in {src, dst} : w \in Upstream(l)
      BY <3>2
    <3>4. w # l /\ l # dst
      BY <2>3, <3>2
    <3>5. CASE Noted(w, l)
      <4>1. Moved(src, dst, w) = dst
        BY DEF Moved
      <4>2. Noted(Moved(src, dst, w), Moved(src, dst, l))'
        BY <1>1, <2>3, <3>5
      <4> QED
        BY <2>3, <3>2, <4>1, <4>2
    <3>6. CASE Owed(w, l)
      BY <1>7, <1>8, <2>3, <3>2, <3>4, <3>6
    <3> QED
      BY <1>6, <2>3, <3>3, <3>4, <3>5, <3>6
  <2>8. CASE x # Moved(src, dst, s)
    <3>1. z # s
      BY <2>2, <2>8
    <3>2. CASE Noted(z, s)
      <4>1. Noted(Moved(src, dst, z), Moved(src, dst, s))'
        BY <1>1, <2>3, <3>2
      <4> QED
        BY <2>2, <2>6, <4>1
    <3>3. CASE Owed(z, s) /\ z = src
      <4>1. x = dst /\ dst \in Upstream(s)
        BY <1>7, <2>2, <3>3 DEF Moved
      <4>2. s # src /\ s # dst
        BY <2>8, <4>1 DEF Moved
      <4>3. Noted(dst, s)' /\ Moved(src, dst, s) = s
        BY <1>8, <4>1, <4>2 DEF Moved
      <4> QED
        BY <2>6, <4>1, <4>3
    <3>4. CASE Owed(z, s) /\ z # src
      <4>1. x = z /\ x # dst /\ dst \in Upstream(s)
        BY <1>7, <2>2, <3>4 DEF Moved
      <4>2. PICK k \in ProducedIn(Top) \ {into} : k >= m /\ InLayer(Top, k) = z
        BY <1>7, <3>4
      <4>3. k # m
        BY <3>4, <4>2
      <4>4. k >= m + 1
        <5>1. k \in Nat
          BY <1>4, <4>2
        <5> QED
          BY <1>5, <4>2, <4>3, <5>1
      <4>5. InLayer(Top, k)' = x
        BY <1>3, <2>2, <4>2
      <4>6. dst \in Upstream(l)'
        <5>1. Moved(src, dst, dst) = dst
          BY DEF Moved
        <5>2. dst \in Upstream(Moved(src, dst, s))'
          BY <1>1, <2>3, <4>1, <5>1
        <5> QED
          BY <2>3, <2>5, <5>2 DEF Sound, Upwards
      <4> QED
        BY <1>2, <1>3, <4>1, <4>2, <4>4, <4>5, <4>6 DEF Owed
    <3> QED
      BY <1>6, <3>1, <3>2, <3>3, <3>4
  <2> QED
    BY <2>7, <2>8
<1> QED
  BY <1>9 DEF NotedOrOwed

(* A restriction is noted down: nothing is read from elsewhere. *)
LEMMA UpstreamMap ==
  ASSUME Sound, Sound', Index' = Index, UNCHANGED <<g, subgraph_idx>>,
         \A i \in Index : /\ layer'[i].ops = layer[i].ops
                          /\ layer[i].restricted_map \subseteq layer'[i].restricted_map
  PROVE  /\ Live' = Live
         /\ \A i \in Index : Feeders(i)' = Feeders(i) /\ Upstream(i)' = Upstream(i)
         /\ \A i \in Index : \A x : Noted(x, i) => Noted(x, i)'
<1>1. \A i \in Index : Feeders(i)' = Feeders(i)
  BY FeedersMap DEF Sound
<1>2. \A i \in Index : Upstream(i)' = Upstream(i)
  BY <1>1, SameFeeders DEF Sound
<1>3. \A i \in Index : \A x : Noted(x, i) => Noted(x, i)'
  BY <1>1, <1>2, NotedGrows DEF Sound
<1> QED
  BY <1>1, <1>2, <1>3 DEF Live, Index

LEMMA SameInputs ==
  ASSUME Sound, Sound', Top \in Op, UNCHANGED <<g, stack, subgraph_idx>>
  PROVE  /\ ProducedIn(Top)' = ProducedIn(Top) /\ subgraph_idx[Top]' = subgraph_idx[Top]
         /\ \A k \in ProducedIn(Top) : InLayer(Top, k)' = InLayer(Top, k)
<1>1. OpInLayer /\ OpInLayer'
  BY InLayersOf, PTL DEF Sound
<1>2. /\ Op' = Op /\ ProducedIn(Top)' = ProducedIn(Top) /\ Top' = Top
      /\ \A t : Producer(t)' = Producer(t)
  BY SameNeeds, SameGraph DEF ProducedIn, Top
<1>3. \A k \in ProducedIn(Top) : /\ InLayer(Top, k) = subgraph_idx[Producer(g.ops[Top].in[k])]
                                 /\ InLayer(Top, k)' = subgraph_idx'[Producer(g.ops[Top].in[k])]
  BY <1>1, <1>2 DEF OpInLayer
<1> QED
  BY <1>2, <1>3

LEMMA NotedMap ==
  ASSUME Sound, Sound', NotedOrOwed, MergeInput,
         NEW src, src = InLayer(Top, m), NEW dst, dst = subgraph_idx[Top], UNCHANGED subgraph_idx,
         NEW a, NEW b, layer' = [layer EXCEPT ![a].restricted_map = @ \cup {b}],
         (a = dst /\ b = src) \/ (a = src /\ b = dst)
  PROVE  NotedOrOwed'
<1>1. /\ phase = "merge" /\ phase' = "merge" /\ m' = m + 1 /\ UNCHANGED <<g, stack, into>>
      /\ Top' = Top /\ FirstWalk /\ Top \in Op /\ m \in ProducedIn(Top)
      /\ src \in Index /\ dst \in Index /\ src # 0 /\ src # dst
      /\ src = subgraph_idx[Producer(g.ops[Top].in[m])] /\ Producer(g.ops[Top].in[m]) \in Needs(Top)
  BY MergeTypes DEF Sound, FirstWalk
<1>2. /\ Index' = Index
      /\ \A i \in Index : /\ layer'[i].ops = layer[i].ops
                          /\ layer[i].restricted_map \subseteq layer'[i].restricted_map
      /\ b \in layer'[a].restricted_map
  <2>1. a \in Index /\ b \in Index
    BY <1>1
  <2>2. /\ Index' = Index
        /\ \A i \in Index : /\ layer'[i].ops = layer[i].ops
                            /\ layer'[i].restricted_map =
                                 IF i = a THEN layer[i].restricted_map \cup {b} ELSE layer[i].restricted_map
    BY <2>1, EffectMap DEF Sound
  <2> QED
    BY <2>1, <2>2
<1>3. /\ Live' = Live
      /\ \A i \in Index : Feeders(i)' = Feeders(i) /\ Upstream(i)' = Upstream(i)
      /\ \A i \in Index : \A x : Noted(x, i) => Noted(x, i)'
  BY <1>1, <1>2, UpstreamMap
<1>4. /\ ProducedIn(Top)' = ProducedIn(Top) /\ subgraph_idx'[Top] = dst
      /\ \A k \in ProducedIn(Top) : InLayer(Top, k)' = InLayer(Top, k)
  BY <1>1, SameInputs
<1>5. src \in Feeders(dst)
  <2>1. Reads(dst, src)
    BY <1>1 DEF Reads
  <2> QED
    BY <1>1, <2>1 DEF Sound, FeedersRead
<1>6. \A k \in ProducedIn(Top) : k \in Nat
  BY <1>1, GraphTypes DEF ProducedIn, Sound, IInv
<1>7. m \in Nat
  BY DEF Sound, IInv, TypeOK
<1>8. ASSUME NEW l \in Live, NEW x \in Upstream(l) \ {l} PROVE Noted(x, l)' \/ Owed(x, l)'
  <2>1. l \in Index
    BY DEF Live, Index
  <2>2. CASE Noted(x, l)
    BY <1>3, <2>1, <2>2
  <2>3. CASE Owed(x, l)
    <3>1. dst \in Upstream(l) /\ x # dst
      BY <2>3 DEF Owed
    <3>2. PICK k \in ProducedIn(Top) \ {into} : k >= m /\ InLayer(Top, k) = x
      BY <2>3 DEF Owed
    <3>3. CASE k = m
      <4>1. CASE a = dst /\ b = src
        BY <1>2, <1>3, <2>1, <3>1, <3>2, <3>3, <4>1 DEF Noted, IsRestrictedBy
      <4>2. CASE a = src /\ b = dst
        <5>1. Misled(src)'
          <6>1. dst \in layer'[src].restricted_map
            BY <1>2, <4>2
          <6>2. src \in Feeders(dst)'
            BY <1>1, <1>3, <1>5
          <6> QED
            BY <6>1, <6>2 DEF Misled
        <5>2. src \in Upstream(l)'
          <6>1. src \in Upstream(dst)
            BY <1>1, <1>5 DEF Sound, Upwards
          <6>2. src \in Upstream(l)
            BY <2>1, <3>1, <6>1 DEF Sound, Upwards
          <6> QED
            BY <1>3, <2>1, <6>2
        <5> QED
          BY <5>1, <5>2 DEF Noted
      <4> QED
        BY <4>1, <4>2
    <3>4. CASE k # m
      <4>1. k >= m + 1
        <5>1. k \in Nat
          BY <1>6, <3>2
        <5> QED
          BY <1>7, <3>2, <3>4, <5>1
      <4>2. dst \in Upstream(l)'
        BY <1>3, <2>1, <3>1
      <4> QED
        BY <1>1, <1>4, <3>1, <3>2, <4>1, <4>2 DEF Owed
    <3> QED
      BY <3>3, <3>4
  <2> QED
    BY <1>1, <2>2, <2>3 DEF NotedOrOwed
<1>9. Live \subseteq Index
  BY DEF Live, Index
<1> QED
  BY <1>3, <1>8, <1>9 DEF NotedOrOwed

(* Steps of the walks, and those of the merging loop that find nothing to do. *)
LEMMA NotedElse ==
  ASSUME Sound, Sound', NotedOrOwed, [Next]_vars, UNCHANGED <<g, layer, subgraph_idx>>, ~MergeInput
  PROVE  NotedOrOwed'
<1>1. Index' = Index
  BY DEF Index
<1>2. /\ Live' = Live
      /\ \A i \in Index : Feeders(i)' = Feeders(i) /\ Upstream(i)' = Upstream(i)
      /\ \A i \in Index : \A x : Noted(x, i) => Noted(x, i)'
  BY <1>1, UpstreamMap
<1>3. Live \subseteq Index
  BY DEF Live, Index
<1>4. CASE phase = "merge"
  <2>1. FirstWalk /\ \A l \in Live : \A x \in Upstream(l) \ {l} : Noted(x, l) \/ Owed(x, l)
    BY <1>4 DEF NotedOrOwed, FirstWalk
  <2>2. stack # <<>> /\ Top \in Op
    BY <2>1, <1>4, TopProperties DEF Sound, IInv, WalkInv, Joining
  <2>3. \A k \in ProducedIn(Top) : k \in Nat /\ k \in 1 .. Len(g.ops[Top].in)
    BY <2>2, GraphTypes DEF ProducedIn, Sound, IInv
  <2>4. m \in Nat
    BY DEF Sound, IInv, TypeOK
  <2>5. CASE MergeDone
    <3>1. m > Len(g.ops[Top].in) /\ Len(g.ops[Top].in) \in Nat
      BY <2>2, <2>5, GraphTypes DEF MergeDone, Sound, IInv
    <3>2. ASSUME NEW k \in ProducedIn(Top) PROVE ~(k >= m)
      <4> DEFINE n == Len(g.ops[Top].in)
      <4>1. k \in Nat /\ k <= n /\ n \in Nat /\ m > n
        BY <2>3, <3>1
      <4> HIDE DEF n
      <4> QED
        BY <2>4, <4>1
    <3>3. \A l \in Live : \A x \in Upstream(l) \ {l} : Noted(x, l)
      BY <2>1, <3>2 DEF Owed
    <3> QED
      BY <1>2, <1>3, <3>3 DEF NotedOrOwed
  <2>6. CASE MergeSkip
    <3>1. m' = m + 1 /\ UNCHANGED <<phase, stack, into>> /\ Top' = Top /\ ~Merging(m)
      BY <2>6 DEF MergeSkip, walk, Top
    <3>2. /\ ProducedIn(Top)' = ProducedIn(Top) /\ subgraph_idx'[Top] = subgraph_idx[Top]
          /\ \A k \in ProducedIn(Top) : InLayer(Top, k)' = InLayer(Top, k)
      BY <2>2, <3>1, SameInputs
    <3>3. ASSUME NEW l \in Live, NEW x \in Upstream(l) \ {l}, Owed(x, l) PROVE Owed(x, l)'
      <4>1. /\ phase = "merge" /\ subgraph_idx[Top] \in Upstream(l) /\ x # subgraph_idx[Top]
        BY <3>3 DEF Owed
      <4>2. PICK k \in ProducedIn(Top) \ {into} : k >= m /\ InLayer(Top, k) = x
        BY <3>3 DEF Owed
      <4>3. k # m
        BY <3>1, <4>1, <4>2 DEF Merging
      <4>4. k >= m + 1
        <5>1. k \in Nat
          BY <2>3
        <5> QED
          BY <2>4, <4>2, <4>3, <5>1
      <4>5. subgraph_idx[Top] \in Upstream(l)'
        BY <1>2, <1>3, <4>1
      <4> QED
        BY <3>1, <3>2, <4>1, <4>2, <4>4, <4>5 DEF Owed
    <3> QED
      BY <1>2, <1>3, <2>1, <3>3 DEF NotedOrOwed
  <2>7. CASE UNCHANGED vars
    <3>1. UNCHANGED <<phase, stack, into, m>> /\ Top' = Top
      BY <2>7 DEF vars, Top
    <3>2. /\ ProducedIn(Top)' = ProducedIn(Top) /\ subgraph_idx'[Top] = subgraph_idx[Top]
          /\ \A k \in ProducedIn(Top) : InLayer(Top, k)' = InLayer(Top, k)
      BY <2>2, <3>1, SameInputs
    <3>3. ASSUME NEW l \in Live, NEW x \in Upstream(l) \ {l}, Owed(x, l) PROVE Owed(x, l)'
      <4>1. PICK k \in ProducedIn(Top) \ {into} : k >= m /\ InLayer(Top, k) = x
        BY <3>3 DEF Owed
      <4>2. Upstream(l)' = Upstream(l)
        BY <1>2, <1>3
      <4> QED
        BY <3>1, <3>2, <3>3, <4>1, <4>2 DEF Owed
    <3> QED
      BY <1>2, <1>3, <2>1, <3>3 DEF NotedOrOwed
  <2> QED
    BY <1>4, <2>5, <2>6, <2>7
    DEF Next, Walk, Fuse, Merge, Sort, WalkOutput, WalkInput, FuseCpu, FuseRoot, FuseInto, FuseRestricted,
        Fusing, Rebuild, SortLayer, SortDone
<1>5. CASE phase # "merge"
  <2>1. FirstWalk' => FirstWalk /\ phase = "fuse"
    BY <1>5
    DEF Next, Walk, Fuse, Merge, Sort, WalkOutput, WalkInput, FuseCpu, FuseRoot, FuseInto, FuseRestricted,
        Fusing, Rebuild, SortLayer, SortDone, MergeSkip, MergeInput, MergeDone, vars, FirstWalk
  <2>2. phase = "fuse" => \A l \in Live : \A x \in Upstream(l) \ {l} : Noted(x, l)
    BY <1>5 DEF NotedOrOwed, Owed, FirstWalk
  <2> QED
    BY <1>2, <1>3, <2>1, <2>2 DEF NotedOrOwed
<1> QED
  BY <1>4, <1>5

LEMMA InitNoted == Init => NotedOrOwed
  BY DEF Init, NotedOrOwed, Live

LEMMA NextNoted ==
  ASSUME Sound, Sound', NotedOrOwed, [Next]_vars
  PROVE  NotedOrOwed'
<1>1. CASE Fusing /\ NewLayer(Top, InLayers(Top)) /\ g' = g /\ phase' = "fuse"
  <2>1. PICK new : new = Fresh
    OBVIOUS
  <2> QED
    BY <1>1, <2>1, NotedNew DEF NotedOrOwed
<1>2. CASE FuseInto
  <2>1. PICK l : l = InLayer(Top, into')
    OBVIOUS
  <2> QED
    BY <1>2, <2>1, NotedJoin
<1>3. CASE MergeInput
  <2>1. PICK src : src = InLayer(Top, m)
    OBVIOUS
  <2>2. PICK dst : dst = subgraph_idx[Top]
    OBVIOUS
  <2>3. \/ layer' = [layer EXCEPT ![dst].restricted_map = @ \cup {src}] /\ UNCHANGED subgraph_idx
        \/ layer' = [layer EXCEPT ![src].restricted_map = @ \cup {dst}] /\ UNCHANGED subgraph_idx
        \/ MergeLayers(src, dst)
    BY <1>3, <2>1, <2>2 DEF MergeInput
  <2>4. CASE layer' = [layer EXCEPT ![dst].restricted_map = @ \cup {src}] /\ UNCHANGED subgraph_idx
    BY <1>3, <2>1, <2>2, <2>4, NotedMap
  <2>5. CASE layer' = [layer EXCEPT ![src].restricted_map = @ \cup {dst}] /\ UNCHANGED subgraph_idx
    BY <1>3, <2>1, <2>2, <2>5, NotedMap
  <2>6. CASE MergeLayers(src, dst)
    BY <1>3, <2>1, <2>2, <2>6, NotedMerge
  <2> QED
    BY <2>3, <2>4, <2>5, <2>6
<1>4. CASE UNCHANGED <<g, layer, subgraph_idx>> /\ ~MergeInput
  BY <1>4, NotedElse
<1>5. IInv
  BY DEF Sound
<1> QED
  BY <1>1, <1>2, <1>3, <1>4, <1>5, LayerSteps

-----------------------------------------------------------------------------
(* Nothing noted down is wrong: then what is noted down is what is above.   *)
Trusted == \A l \in Live : ~Misled(l)

LEMMA TrustedKnows ==
  ASSUME Sound, NotedOrOwed, Trusted, FirstWalk
  PROVE  \A l \in Live : \A x \in Upstream(l) \ {l} : IsRestrictedBy(x, l) \/ Owed(x, l)
<1>1. \A l \in Live : Upstream(l) \subseteq Live
  BY DEF Sound, LiveUp
<1> QED
  BY <1>1 DEF NotedOrOwed, Noted, Trusted

(* Upwards, around a circle and down again. *)
LEMMA NoCircle ==
  ASSUME Sound, Orderable
  PROVE  /\ \A l \in Live : \A f \in Feeders(l) : l \notin Upstream(f)
         /\ Live \subseteq Index
         /\ \A l \in Index : Feeders(l) \subseteq Live
         /\ \A l \in Index : \A u \in Upstream(l) : Upstream(u) \subseteq Upstream(l)
         /\ \A l \in Index : \A x \in Upstream(l) \ {l} : \E f \in Feeders(l) : x \in Upstream(f)
         /\ \A l \in Index : \A f \in Feeders(l) : f \in Upstream(l)
<1>1. \A l \in Index : Feeders(l) \subseteq Live
  BY UpstreamLive DEF Sound
<1> QED
  BY <1>1 DEF Sound, Orderable, OnCycle, Upwards, Live, Index

LEMMA OrderableNew ==
  ASSUME Sound, Sound', Orderable, Fusing, NewLayer(Top, InLayers(Top)), g' = g, NEW new, new = Fresh
  PROVE  Orderable'
<1>1. /\ Index' = Index \cup {new} /\ new \notin Index /\ InLayers(Top) \subseteq Live
      /\ \A l \in Index : Upstream(l)' = Upstream(l) /\ Feeders(l)' = Feeders(l) /\ layer'[l] = layer[l]
      /\ Feeders(new)' = InLayers(Top)
  BY UpstreamNew
<1>2. Live \subseteq Index /\ \A l \in Index : Upstream(l) \subseteq Index /\ Feeders(l) \subseteq Index
  BY FeedersTyped, ReachedSets DEF Sound, Live, Index
<1>3. ASSUME NEW l \in Live', NEW f \in Feeders(l)', l \in Upstream(f)' PROVE FALSE
  <2>1. CASE l = new
    <3>1. f \in Index /\ Upstream(f)' = Upstream(f)
      BY <1>1, <1>2, <2>1
    <3> QED
      BY <1>1, <1>2, <1>3, <2>1, <3>1
  <2>2. CASE l # new
    <3>1. l \in Live /\ l \in Index
      BY <1>1, <2>2 DEF Live, Index
    <3>2. f \in Feeders(l) /\ f \in Index /\ Upstream(f)' = Upstream(f)
      BY <1>1, <1>2, <3>1
    <3> QED
      BY <1>3, <3>1, <3>2, NoCircle
  <2> QED
    BY <2>1, <2>2
<1> QED
  BY <1>3 DEF Orderable, OnCycle

LEMMA OrderableJoin ==
  ASSUME Sound, Sound', NotedOrOwed, Trusted, Orderable, FuseInto, NEW l, l = InLayer(Top, into')
  PROVE  Orderable'
<1>1. /\ l \in Live /\ l \in InLayers(Top) /\ InLayers(Top) \subseteq Live /\ Index' = Index /\ Live' = Live
      /\ \A i \in Index : i # l => Feeders(i)' = Feeders(i)
      /\ Feeders(l)' = Feeders(l) \cup (InLayers(Top) \ {l})
      /\ \A i \in Index : \A x \in Upstream(i)' :
           x \in Upstream(i) \/ (l \in Upstream(i) /\ \E y \in InLayers(Top) : x \in Upstream(y))
  BY UpstreamJoin
<1>2. phase = "fuse" /\ FirstWalk /\ into' \in CanFuse(Top)
  BY DEF FuseInto, Fusing, FirstWalk
<1>3. \A i \in Live : \A x \in Upstream(i) \ {i} : IsRestrictedBy(x, i)
  BY <1>2, TrustedKnows DEF Owed
<1>4. ASSUME NEW y \in InLayers(Top), y # l PROVE l \notin Upstream(y)
  <2>1. PICK j \in ProducedIn(Top) : InLayer(Top, j) = y
    BY DEF InLayers
  <2>2. j # into'
    BY <1>4, <2>1
  <2>3. ~IsRestrictedBy(l, y)
    BY <1>2, <2>1, <2>2 DEF CanFuse
  <2> QED
    BY <1>1, <1>3, <1>4, <2>3
<1>5. /\ \A i \in Live : \A f \in Feeders(i) : i \notin Upstream(f)
      /\ Live \subseteq Index
      /\ \A i \in Index : Feeders(i) \subseteq Live
      /\ \A i \in Index : \A u \in Upstream(i) : Upstream(u) \subseteq Upstream(i)
      /\ \A i \in Index : \A f \in Feeders(i) : f \in Upstream(i)
  BY NoCircle
<1>6. ASSUME NEW i \in Live, NEW f \in Feeders(i)', i \in Upstream(f)' PROVE FALSE
  <2>1. f \in Index /\ i \in Index
    BY <1>1, <1>5
  <2>2. i \in Upstream(f) \/ (l \in Upstream(f) /\ \E y \in InLayers(Top) : i \in Upstream(y))
    BY <1>1, <1>6, <2>1
  <2>3. CASE i = l
    <3>1. l \in Upstream(f)
      BY <2>2, <2>3
    <3> QED
      BY <1>1, <1>4, <1>5, <2>3, <3>1
  <2>4. CASE i # l
    <3>1. f \in Feeders(i) /\ i \notin Upstream(f) /\ f \in Upstream(i)
      BY <1>1, <1>5, <2>1, <2>4
    <3>2. PICK y \in InLayers(Top) : i \in Upstream(y) /\ l \in Upstream(f)
      BY <2>2, <3>1
    <3>3. y \in Index
      BY <1>1, <1>5
    <3>4. f \in Upstream(y) /\ l \in Upstream(y)
      BY <1>5, <2>1, <3>1, <3>2, <3>3
    <3>5. y = l
      BY <1>4, <3>4
    <3> QED
      BY <1>5, <2>1, <3>1, <3>2, <3>5
  <2> QED
    BY <2>3, <2>4
<1> QED
  BY <1>1, <1>6 DEF Orderable, OnCycle

LEMMA OrderableMerge ==
  ASSUME Sound, Sound', NotedOrOwed, Trusted, Orderable, MergeInput,
         NEW src, src = InLayer(Top, m), NEW dst, dst = subgraph_idx[Top],
         MergeLayers(src, dst), Apart(src, dst)
  PROVE  Orderable'
<1>1. /\ src \in Live /\ dst \in Live /\ src # dst /\ Index' = Index /\ Live' = Live \ {src}
      /\ \A i \in Live' : \A x \in Upstream(i)' : \E s \in Live : \E z \in Upstream(s) :
           /\ x = Moved(src, dst, z)
           /\ s = i \/ (s \in {src, dst} /\ \E w \in {src, dst} : w \in Upstream(i))
  BY UpstreamMerge
<1>2. /\ \A i \in Index \ {src, dst} : Feeders(i)' = {Moved(src, dst, f) : f \in Feeders(i)}
      /\ Feeders(dst)' = (Feeders(src) \cup Feeders(dst)) \ {src, dst}
  BY FeedersMerge DEF Sound
<1>3. FirstWalk /\ \A i \in Live : \A x \in Upstream(i) \ {i} : IsRestrictedBy(x, i) \/ Owed(x, i)
  BY MergeTypes, TrustedKnows DEF FirstWalk, Sound
<1>4. /\ \A i \in Live : \A f \in Feeders(i) : i \notin Upstream(f)
      /\ Live \subseteq Index
      /\ \A i \in Index : Feeders(i) \subseteq Live
      /\ \A i \in Index : \A u \in Upstream(i) : Upstream(u) \subseteq Upstream(i)
      /\ \A i \in Index : \A x \in Upstream(i) \ {i} : \E f \in Feeders(i) : x \in Upstream(f)
      /\ \A i \in Index : \A f \in Feeders(i) : f \in Upstream(i)
  BY NoCircle
<1>5. src \in Feeders(dst)
  <2>1. /\ src \in Index /\ src # 0 /\ dst \in Index /\ Top \in Op
        /\ src = subgraph_idx[Producer(g.ops[Top].in[m])] /\ Producer(g.ops[Top].in[m]) \in Needs(Top)
    BY MergeTypes DEF Sound
  <2>2. Reads(dst, src)
    BY <2>1 DEF Reads
  <2> QED
    BY <1>1, <2>1, <2>2 DEF Sound, FeedersRead
<1>6. ASSUME NEW f \in Feeders(src) PROVE src \notin Upstream(f) /\ dst \notin Upstream(f)
  <2>1. src \notin Upstream(f) /\ f \in Index /\ src \in Upstream(dst)
    BY <1>1, <1>4, <1>5
  <2> QED
    BY <1>4, <2>1
<1>7. ASSUME NEW f \in Feeders(dst), f # src PROVE src \notin Upstream(f) /\ dst \notin Upstream(f)
  <2>1. dst \notin Upstream(f) /\ f \in Live
    BY <1>1, <1>4
  <2>2. ~IsRestrictedBy(src, f)
    BY DEF Apart
  <2>3. ~Owed(src, f)
    BY <2>1 DEF Owed
  <2> QED
    BY <1>3, <1>7, <2>1, <2>2, <2>3
<1>8. ASSUME NEW i \in Live', NEW f \in Feeders(i)', i \in Upstream(f)' PROVE FALSE
  <2>1. /\ i \in Live /\ i # src /\ i \in Index /\ i \in Index'
    BY <1>1, <1>4
  <2>2. f \in Live' /\ f # src /\ f \in Index
    <3>1. f \in Upstream(i)' /\ Upstream(i)' \subseteq Live'
      BY <1>8, <2>1 DEF Sound, Upwards, LiveUp
    <3> QED
      BY <1>1, <1>4, <3>1
  <2>3. PICK s \in Live : \E z \in Upstream(s) :
           /\ i = Moved(src, dst, z)
           /\ s = f \/ (s \in {src, dst} /\ \E w \in {src, dst} : w \in Upstream(f))
    BY <1>1, <1>8, <2>2
  <2>4. PICK z \in Upstream(s) :
           /\ i = Moved(src, dst, z)
           /\ s = f \/ (s \in {src, dst} /\ \E w \in {src, dst} : w \in Upstream(f))
    BY <2>3
  <2>5. CASE i = dst
    <3>1. f \in (Feeders(src) \cup Feeders(dst)) \ {src, dst}
      BY <1>2, <2>5
    <3>2. src \notin Upstream(f) /\ dst \notin Upstream(f)
      BY <1>6, <1>7, <3>1
    <3>3. s = f /\ z \in {src, dst}
      BY <2>4, <2>5, <3>2 DEF Moved
    <3> QED
      BY <3>2, <3>3
  <2>6. CASE i # dst
    <3>1. z = i
      BY <2>4, <2>6 DEF Moved
    <3>2. PICK e \in Feeders(i) : f = Moved(src, dst, e)
      BY <1>2, <2>1, <2>6
    <3>3. e \in Live /\ e \in Index /\ e \in Upstream(e) /\ i \notin Upstream(e) /\ e \in Upstream(i)
      BY <1>4, <2>1, ReachedSets DEF Sound
    <3>4. s \in {src, dst} /\ \E w \in {src, dst} : w \in Upstream(e)
      <4>1. CASE e \in {src, dst}
        BY <2>4, <3>2, <3>3, <4>1 DEF Moved
      <4>2. CASE e \notin {src, dst}
        <5>1. f = e
          BY <3>2, <4>2 DEF Moved
        <5> QED
          BY <2>4, <3>1, <3>3, <5>1
      <4> QED
        BY <4>1, <4>2
    <3>5. PICK w \in {src, dst} : w \in Upstream(e)
      BY <3>4
    <3>6. w \in Upstream(i) /\ w \in Index /\ s \in Index /\ i \in Upstream(s) /\ i # s
      BY <1>1, <1>4, <2>1, <2>4, <2>6, <3>1, <3>3, <3>4, <3>5
    <3>7. i \notin Upstream(w)
      BY <1>4, <3>3, <3>5
    <3>8. PICK h \in Feeders(s) : i \in Upstream(h)
      BY <1>4, <3>6
    <3>9. h \in Index /\ w \in Upstream(h)
      BY <1>4, <3>6, <3>8
    <3> QED
      BY <1>6, <1>7, <3>4, <3>6, <3>7, <3>8, <3>9
  <2> QED
    BY <2>5, <2>6
<1> QED
  BY <1>8 DEF Orderable, OnCycle

LEMMA OrderableStep ==
  ASSUME Sound, Sound', NotedOrOwed, Trusted, Orderable, [Next]_vars
  PROVE  Orderable'
<1>1. CASE Fusing /\ NewLayer(Top, InLayers(Top)) /\ g' = g
  <2>1. PICK new : new = Fresh
    OBVIOUS
  <2> QED
    BY <1>1, <2>1, OrderableNew
<1>2. CASE FuseInto
  <2>1. PICK l : l = InLayer(Top, into')
    OBVIOUS
  <2> QED
    BY <1>2, <2>1, OrderableJoin
<1>3. CASE Index' = Index /\ UNCHANGED <<g, subgraph_idx>>
           /\ \A i \in Index : /\ layer'[i].ops = layer[i].ops
                               /\ layer[i].restricted_map \subseteq layer'[i].restricted_map
  <2>1. Live' = Live /\ \A i \in Index : Feeders(i)' = Feeders(i) /\ Upstream(i)' = Upstream(i)
    BY <1>3, UpstreamMap
  <2>2. Live \subseteq Index /\ \A i \in Index : Feeders(i) \subseteq Index
    BY FeedersTyped DEF Sound, Live, Index
  <2> QED
    BY <2>1, <2>2 DEF Orderable, OnCycle
<1>4. CASE UNCHANGED <<g, layer, subgraph_idx>>
  BY <1>3, <1>4 DEF Index
<1>5. CASE MergeInput
  <2>1. PICK src : src = InLayer(Top, m)
    OBVIOUS
  <2>2. PICK dst : dst = subgraph_idx[Top]
    OBVIOUS
  <2>3. \/ layer' = [layer EXCEPT ![dst].restricted_map = @ \cup {src}] /\ UNCHANGED subgraph_idx
        \/ layer' = [layer EXCEPT ![src].restricted_map = @ \cup {dst}] /\ UNCHANGED subgraph_idx
        \/ MergeLayers(src, dst) /\ Apart(src, dst)
    BY <1>5, <2>1, <2>2 DEF MergeInput
  <2>4. src \in Index /\ dst \in Index /\ g' = g
    BY <1>5, <2>1, <2>2, MergeTypes DEF Sound
  <2>5. CASE layer' = [layer EXCEPT ![dst].restricted_map = @ \cup {src}] /\ UNCHANGED subgraph_idx
    <3>1. /\ Index' = Index
          /\ \A i \in Index : /\ layer'[i].ops = layer[i].ops
                              /\ layer'[i].restricted_map =
                                   IF i = dst THEN layer[i].restricted_map \cup {src} ELSE layer[i].restricted_map
      BY <2>4, <2>5, EffectMap DEF Sound
    <3>2. \A i \in Index : layer[i].restricted_map \subseteq layer'[i].restricted_map
      BY <3>1
    <3> QED
      BY <1>3, <2>4, <2>5, <3>1, <3>2
  <2>6. CASE layer' = [layer EXCEPT ![src].restricted_map = @ \cup {dst}] /\ UNCHANGED subgraph_idx
    <3>1. /\ Index' = Index
          /\ \A i \in Index : /\ layer'[i].ops = layer[i].ops
                              /\ layer'[i].restricted_map =
                                   IF i = src THEN layer[i].restricted_map \cup {dst} ELSE layer[i].restricted_map
      BY <2>4, <2>6, EffectMap DEF Sound
    <3>2. \A i \in Index : layer[i].restricted_map \subseteq layer'[i].restricted_map
      BY <3>1
    <3> QED
      BY <1>3, <2>4, <2>6, <3>1, <3>2
  <2>7. CASE MergeLayers(src, dst) /\ Apart(src, dst)
    BY <1>5, <2>1, <2>2, <2>7, OrderableMerge
  <2> QED
    BY <2>3, <2>5, <2>6, <2>7
<1> QED
  BY <1>1, <1>2, <1>4, <1>5, LayerSteps DEF Sound
-----------------------------------------------------------------------------
(* The second inductive invariant: ops are laid after what they read, those *)
(* of the base API alone, and what is above a layer is noted down.          *)
NotedInv == IInv /\ Laid /\ Alone /\ NotedOrOwed

LEMMA InitNotedInv == Init => NotedInv
  BY InitInv, InitLaid, InitNoted DEF NotedInv

LEMMA NextNotedInv == NotedInv /\ [Next]_vars => NotedInv'
<1> SUFFICES ASSUME NotedInv, [Next]_vars PROVE NotedInv'
  OBVIOUS
<1>1. IInv' /\ Laid' /\ Alone'
  BY NextInv, NextLaid DEF NotedInv
<1>2. Sound /\ Sound'
  BY <1>1, SoundLayers, PTL DEF NotedInv
<1> QED
  BY <1>1, <1>2, NextNoted DEF NotedInv

LEMMA NotedInvariance == Spec => []NotedInv
  BY InitNotedInv, NextNotedInv, PTL DEF Spec

(* shl_is_restricted_by_node, followed upwards, finds every layer that a     *)
(* layer depends on between two visits of shl_subgraph_fvisit_fuse, unless   *)
(* a wrong restriction is on the way.                                        *)
THEOREM RestrictionsKnownHolds == Spec => []RestrictionsKnown
<1>1. NotedInv => RestrictionsKnown
  BY DEF NotedInv, NotedOrOwed, FirstWalk, Noted, Owed, RestrictionsKnown
<1> QED
  BY <1>1, NotedInvariance, PTL

(* No join and no fusion of shl_subgraph_fvisit_fuse ties layers in a circle *)
(* where none was, as long as no restriction is wrong.                       *)
THEOREM AcyclicHolds == Spec => Acyclic
<1>1. ASSUME NotedInv, NotedInv', [Next]_vars
      PROVE  [layer' # layer /\ Orderable /\ (\A l \in Live : ~Misled(l)) => Orderable']_vars
  <2>1. Sound /\ Sound'
    BY <1>1, SoundLayers, PTL DEF NotedInv
  <2> QED
    BY <1>1, <2>1, OrderableStep DEF NotedInv, Trusted
<1> QED
  BY <1>1, NotedInvariance, PTL DEF Spec, Acyclic

-----------------------------------------------------------------------------
(* The second walk, over layers that no longer change. *)
StackNodes == {stack[k][1] : k \in DOMAIN stack}

Climbs == \A k, l \in DOMAIN stack : k <= l => stack[l][1] \in Upstream(stack[k][1])

Once == Distinct(plan) /\ \A k, l \in DOMAIN stack : stack[k][1] = stack[l][1] => k = l

Marks ==
  /\ visited = Elems(plan) \cup StackNodes /\ Elems(plan) \cap StackNodes = {}
  /\ visited \subseteq Live

GoneUp ==
  \A k \in DOMAIN stack : \A j \in DOMAIN LayerIn(layer[stack[k][1]]) :
    j < stack[k][2] => Above(LayerIn(layer[stack[k][1]])[j]) \in visited \cup {0}

OutputsSorted == \A o \in DOMAIN g.output : o < next => Above(g.output[o]) \in visited

InOrder ==
  Orderable => \A k \in DOMAIN plan : \A f \in Feeders(plan[k]) : \E j \in DOMAIN plan : j < k /\ plan[j] = f

Sorted ==
  /\ FirstWalk => plan = <<>>
  /\ ~FirstWalk => Climbs /\ Once /\ Marks /\ GoneUp /\ OutputsSorted /\ InOrder
  /\ phase = "ready" => stack = <<>> /\ next > Len(g.output)

(* What stays while layers are put in order. *)
LEMMA SameOrder ==
  ASSUME Sound, Sound', UNCHANGED <<g, layer, subgraph_idx>>
  PROVE  /\ Index' = Index /\ Live' = Live /\ (Orderable' <=> Orderable)
         /\ \A t : Above(t)' = Above(t)
         /\ \A l : LayerIn(layer[l])' = LayerIn(layer[l])
         /\ \A l : Feeders(l)' = Feeders(l)
         /\ \A l \in Index : Upstream(l)' = Upstream(l)
<1>1. Index' = Index /\ Live' = Live
  BY DEF Index, Live
<1>2. \A t : Above(t)' = Above(t)
  BY SameLayers
<1>3. \A l : LayerIn(layer[l])' = LayerIn(layer[l])
  BY SameLayers
<1>4. \A l : Feeders(l)' = Feeders(l)
  BY SameLayers
<1>5. \A l \in Index : Upstream(l)' = Upstream(l)
  BY <1>1, <1>4, SameFeeders DEF Sound
<1>6. Live \subseteq Index /\ \A l \in Index : Feeders(l) \subseteq Index
  BY FeedersTyped DEF Live, Index, Sound
<1>7. Orderable' <=> Orderable
  BY <1>1, <1>4, <1>5, <1>6 DEF Orderable, OnCycle
<1> QED
  BY <1>1, <1>2, <1>3, <1>4, <1>5, <1>7

LEMMA StackTypes ==
  ASSUME IInv, ~FirstWalk
  PROVE  /\ Len(stack) \in Nat /\ DOMAIN stack = 1 .. Len(stack)
         /\ \A k \in DOMAIN stack : stack[k][1] \in Index /\ stack[k][2] \in Nat \ {0}
         /\ plan \in Seq(Index)
         /\ stack # <<>> => /\ Len(stack) \in DOMAIN stack /\ Top = stack[Len(stack)][1]
                            /\ TopInput = stack[Len(stack)][2] /\ TopInput \in Nat \ {0}
                            /\ Top \in Index /\ Inputs(Top) = (IF phase = "sort" THEN LayerIn(layer[Top]) ELSE g.ops[Top].in)
<1>1. stack \in Seq(Index \X (Nat \ {0}))
  BY SecondTypes
<1>2. Len(stack) \in Nat /\ DOMAIN stack = 1 .. Len(stack)
  BY <1>1
<1>3. \A k \in DOMAIN stack : stack[k][1] \in Index /\ stack[k][2] \in Nat \ {0}
  BY <1>1, <1>2
<1>4. plan \in Seq(Index)
  BY DEF IInv, TypeOK, Index
<1>5. ASSUME stack # <<>>
      PROVE  /\ Len(stack) \in DOMAIN stack /\ Top = stack[Len(stack)][1] /\ TopInput = stack[Len(stack)][2]
  BY <1>1, <1>2, <1>5, EmptySeq DEF Top, TopInput, Last
<1> QED
  BY <1>2, <1>3, <1>4, <1>5 DEF Inputs

LEMMA OutputLive ==
  ASSUME IInv, ~FirstWalk, NEW o \in DOMAIN g.output
  PROVE  Above(g.output[o]) \in Live
<1>1. Producer(g.output[o]) \in Op /\ Producer(g.output[o]) # 0
  BY OutputsProduced DEF IInv
<1>2. Above(g.output[o]) = subgraph_idx[Producer(g.output[o])] /\ Above(g.output[o]) # 0
  BY <1>1 DEF Above, IInv, SortInv
<1> QED
  BY <1>1, <1>2, LayerInhabited DEF Live

InputsTyped == \A l \in Index : /\ LayerIn(layer[l]) \in Seq(Tensor)
                                 /\ \A j \in DOMAIN LayerIn(layer[l]) : j \in Nat \ {0}

LEMMA LayersTyped == IInv /\ Alone => InputsTyped
<1> SUFFICES ASSUME IInv, Alone, NEW l \in Index
             PROVE  /\ LayerIn(layer[l]) \in Seq(Tensor)
                    /\ \A j \in DOMAIN LayerIn(layer[l]) : j \in Nat \ {0}
  BY DEF InputsTyped
<1>1. LayerIn(layer[l]) \in Seq(Tensor)
  BY LayerInputs
<1> DEFINE s == LayerIn(layer[l])
<1> HIDE DEF s
<1>2. s \in Seq(Tensor)
  BY <1>1 DEF s
<1>3. \A j \in DOMAIN s : j \in Nat \ {0}
  BY <1>2
<1> QED
  BY <1>1, <1>3 DEF s

LEMMA SortedOutput ==
  ASSUME Sound, Sound', Sorted, WalkOutput, phase = "sort"
  PROVE  Sorted'
<1>0. PICK n : n = NodeOf(g.output[next])
  OBVIOUS
<1>1. /\ ~FirstWalk /\ ~FirstWalk' /\ phase' = "sort" /\ stack = <<>> /\ next \in DOMAIN g.output
      /\ next' = next + 1 /\ UNCHANGED <<g, layer, subgraph_idx, plan>> /\ next \in Nat
      /\ g.output \in Seq(Tensor)
  <2>1. g.output \in Seq(Tensor) /\ DOMAIN g.output = 1 .. Len(g.output) /\ Len(g.output) \in Nat
    BY GraphTypes DEF Sound, IInv
  <2> QED
    BY <2>1 DEF WalkOutput, FirstWalk, Sound, IInv, TypeOK
<1>2. /\ Index' = Index /\ Live' = Live /\ (Orderable' <=> Orderable)
      /\ \A t : Above(t)' = Above(t)
      /\ \A l : Feeders(l)' = Feeders(l)
      /\ \A l \in Index : Upstream(l)' = Upstream(l)
  BY <1>1, SameOrder
<1>3. n = Above(g.output[next]) /\ n \in Live /\ n \in Index
  BY <1>0, <1>1, OutputLive DEF Sound, NodeOf, Live, Index
<1>4. \/ n \in visited /\ UNCHANGED <<stack, visited>>
      \/ n \notin visited /\ stack' = << <<n, 1>> >> /\ visited' = visited \cup {n}
  BY <1>0 DEF WalkOutput
<1>5. /\ Distinct(plan) /\ visited = Elems(plan) /\ visited \subseteq Live /\ OutputsSorted /\ InOrder
  <2>1. StackNodes = {}
    BY <1>1 DEF StackNodes
  <2>2. Once /\ Marks /\ OutputsSorted /\ InOrder
    BY <1>1 DEF Sorted
  <2> QED
    BY <2>1, <2>2 DEF Once, Marks
<1>6. OutputsSorted'
  <2>1. n \in visited' /\ visited \subseteq visited'
    BY <1>4
  <2>2. \A o \in DOMAIN g.output : o < next + 1 => o < next \/ o = next
    <3>1. \A o \in DOMAIN g.output : o \in Nat
      BY <1>1
    <3> QED
      BY <1>1, <3>1
  <2> QED
    BY <1>1, <1>2, <1>3, <1>5, <2>1, <2>2 DEF OutputsSorted
<1>7. InOrder'
  BY <1>1, <1>2, <1>5 DEF InOrder
<1>8. CASE n \in visited /\ UNCHANGED <<stack, visited>>
  BY <1>1, <1>2, <1>5, <1>6, <1>7, <1>8 DEF Sorted, Climbs, Once, Marks, StackNodes, GoneUp
<1>9. CASE n \notin visited /\ stack' = << <<n, 1>> >> /\ visited' = visited \cup {n}
  <2>1. DOMAIN stack' = {1} /\ stack'[1][1] = n /\ stack'[1][2] = 1
    BY <1>9
  <2>2. n \in Upstream(n)'
    BY <1>2, <1>3, ReachedAfter DEF Sound
  <2>3. Climbs'
    BY <2>1, <2>2 DEF Climbs
  <2>4. StackNodes' = {n}
    BY <2>1 DEF StackNodes
  <2>5. Once' /\ Marks'
    BY <1>1, <1>2, <1>3, <1>5, <1>9, <2>1, <2>4 DEF Once, Marks
  <2>6. GoneUp'
    <3>1. InputsTyped'
      BY LayersTyped, PTL DEF Sound
    <3>2. \A j \in DOMAIN LayerIn(layer[n])' : j \in Nat \ {0}
      BY <1>2, <1>3, <3>1 DEF InputsTyped
    <3>3. \A j \in Nat \ {0} : ~(j < 1)
      OBVIOUS
    <3> QED
      BY <2>1, <3>2, <3>3 DEF GoneUp
  <2> QED
    BY <1>1, <1>6, <1>7, <2>3, <2>5, <2>6 DEF Sorted, FirstWalk
<1> QED
  BY <1>4, <1>8, <1>9

(* The pair of the walk that looks at an input moves on by one. *)
LEMMA Advanced ==
  ASSUME IInv, phase = "sort", stack # <<>>, NEW a, a = Append(Front(stack), <<Top, TopInput + 1>>)
  PROVE  /\ a \in Seq(Index \X (Nat \ {0})) /\ Len(a) = Len(stack) /\ DOMAIN a = DOMAIN stack
         /\ \A k \in DOMAIN stack : /\ a[k][1] = stack[k][1]
                                    /\ a[k][2] = IF k = Len(stack) THEN TopInput + 1 ELSE stack[k][2]
<1> DEFINE S == Index \X (Nat \ {0})
           e == <<Top, TopInput + 1>>
<1>1. stack \in Seq(S) /\ Top \in Index /\ TopInput \in Nat \ {0}
  BY SecondTypes DEF FirstWalk
<1>2. e \in S /\ e[1] = Top /\ e[2] = TopInput + 1
  BY <1>1
<1>3. Top = stack[Len(stack)][1]
  BY StackTypes DEF FirstWalk
<1> HIDE DEF S, e
<1>4. /\ a \in Seq(S) /\ Len(a) = Len(stack) /\ DOMAIN a = DOMAIN stack
      /\ \A k \in DOMAIN stack : a[k] = IF k = Len(stack) THEN e ELSE stack[k]
  BY <1>1, <1>2, Exchanged DEF e
<1> QED
  BY <1>2, <1>3, <1>4 DEF S

LEMMA SortedInput ==
  ASSUME Sound, Sound', Sorted, WalkInput, phase = "sort"
  PROVE  Sorted'
<1>0. PICK n : n = Above(LayerIn(layer[Top])[TopInput])
  OBVIOUS
<1>9. PICK a : a = Append(Front(stack), <<Top, TopInput + 1>>)
  OBVIOUS
<1>1. /\ ~FirstWalk /\ ~FirstWalk' /\ phase' = "sort" /\ stack # <<>> /\ ~InputsDone
      /\ UNCHANGED <<g, next, layer, subgraph_idx, plan>>
      /\ IInv /\ Alone /\ Climbs /\ Once /\ Marks /\ GoneUp /\ OutputsSorted /\ InOrder
  BY DEF WalkInput, FirstWalk, Sound, Sorted
<1>2. /\ Index' = Index /\ Live' = Live /\ (Orderable' <=> Orderable)
      /\ \A t : Above(t)' = Above(t)
      /\ \A l : LayerIn(layer[l])' = LayerIn(layer[l])
      /\ \A l : Feeders(l)' = Feeders(l)
      /\ \A l \in Index : Upstream(l)' = Upstream(l)
  BY <1>1, SameOrder
<1>3. /\ Len(stack) \in Nat /\ DOMAIN stack = 1 .. Len(stack)
      /\ \A k \in DOMAIN stack : stack[k][1] \in Index /\ stack[k][2] \in Nat \ {0}
      /\ Len(stack) \in DOMAIN stack /\ Top = stack[Len(stack)][1]
      /\ TopInput = stack[Len(stack)][2] /\ TopInput \in Nat \ {0}
      /\ Top \in Index /\ Inputs(Top) = LayerIn(layer[Top])
  BY <1>1, StackTypes DEF WalkInput
<1>4. /\ a \in Seq(Index \X (Nat \ {0})) /\ Len(a) = Len(stack) /\ DOMAIN a = DOMAIN stack
      /\ \A k \in DOMAIN stack : /\ a[k][1] = stack[k][1]
                                 /\ a[k][2] = IF k = Len(stack) THEN TopInput + 1 ELSE stack[k][2]
  BY <1>1, <1>9, Advanced DEF WalkInput
<1>5. /\ InputsTyped /\ TopInput \in DOMAIN LayerIn(layer[Top])
      /\ DOMAIN LayerIn(layer[Top]) \subseteq Nat
  <2>1. InputsTyped /\ LayerIn(layer[Top]) \in Seq(Tensor)
    BY <1>1, <1>3, LayersTyped DEF InputsTyped
  <2> DEFINE s == LayerIn(layer[Top])
  <2>2. ~(TopInput > Len(s))
    BY <1>1, <1>3 DEF InputsDone
  <2> HIDE DEF s
  <2>3. TopInput \in DOMAIN s /\ DOMAIN s \subseteq Nat
    BY <1>3, <2>1, <2>2 DEF s
  <2> QED
    BY <2>1, <2>3 DEF s
<1>6. n # 0 => n \in Feeders(Top) /\ n \in Live /\ n \in Index
  <2>1. LayerIn(layer[Top])[TopInput] \in Elems(LayerIn(layer[Top]))
    BY <1>5 DEF Elems
  <2>2. n # 0 => n \in Feeders(Top)
    BY <1>0, <2>1 DEF Feeders
  <2> QED
    BY <1>1, <1>3, <2>2, UpstreamLive DEF Live, Index
<1>7. \/ n \in visited \cup {0} /\ stack' = a /\ visited' = visited
      \/ n \notin visited \cup {0} /\ stack' = Append(a, <<n, 1>>) /\ visited' = visited \cup {n}
  BY <1>0, <1>1, <1>3, <1>9 DEF WalkInput, NodeOf
<1>8. n \in visited' \cup {0} /\ visited \subseteq visited'
  BY <1>7
(* Both ways: what is looked at is one further for the last of the stack. *)
<1>10. ASSUME NEW k \in DOMAIN stack, NEW j \in DOMAIN LayerIn(layer[stack[k][1]]), j < a[k][2]
       PROVE  Above(LayerIn(layer[stack[k][1]])[j]) \in visited' \cup {0}
  <2>1. CASE k = Len(stack) /\ j = TopInput
    BY <1>0, <1>3, <1>8, <2>1
  <2>2. CASE ~(k = Len(stack) /\ j = TopInput)
    <3>1. j < stack[k][2]
      <4>1. j \in Nat
        BY <1>3, <1>5 DEF InputsTyped
      <4>2. CASE k = Len(stack)
        <5>1. j < TopInput + 1 /\ j # TopInput
          BY <1>4, <1>10, <2>2, <4>2
        <5> QED
          BY <1>3, <4>1, <4>2, <5>1
      <4>3. CASE k # Len(stack)
        BY <1>4, <1>10, <4>3
      <4> QED
        BY <4>2, <4>3
    <3> QED
      BY <1>1, <1>8, <3>1 DEF GoneUp
  <2> QED
    BY <2>1, <2>2
<1>11. OutputsSorted' /\ InOrder'
  BY <1>1, <1>2, <1>8 DEF OutputsSorted, InOrder
<1>12. CASE n \in visited \cup {0} /\ stack' = a /\ visited' = visited
  <2>1. StackNodes' = StackNodes
    BY <1>4, <1>12 DEF StackNodes
  <2>2. Climbs'
    BY <1>1, <1>2, <1>3, <1>4, <1>12, SMTT(30) DEF Climbs
  <2>3. Once' /\ Marks'
    BY <1>1, <1>2, <1>4, <1>12, <2>1 DEF Once, Marks
  <2>4. GoneUp'
    <3>1. ASSUME NEW k \in DOMAIN stack, NEW x, x = stack[k][1], NEW j \in DOMAIN LayerIn(layer[x]), j < a[k][2]
          PROVE  Above(LayerIn(layer[x])[j])' \in visited' \cup {0}
      <4>1. Above(LayerIn(layer[x])[j]) \in visited' \cup {0}
        BY <1>10, <3>1
      <4> QED
        BY <1>2, <4>1
    <3>2. ASSUME NEW k \in DOMAIN stack', NEW x, x = stack'[k][1], NEW j \in DOMAIN LayerIn(layer[x])', j < stack'[k][2]
          PROVE  Above(LayerIn(layer[x])[j])' \in visited' \cup {0}
      <4>1. k \in DOMAIN stack /\ x = stack[k][1] /\ j < a[k][2]
        BY <1>4, <1>12, <3>2
      <4>2. j \in DOMAIN LayerIn(layer[x])
        BY <1>2, <3>2
      <4> QED
        BY <3>1, <4>1, <4>2
    <3> QED
      BY <3>2 DEF GoneUp
  <2> QED
    BY <1>1, <1>11, <2>2, <2>3, <2>4 DEF Sorted, FirstWalk
<1>13. CASE n \notin visited \cup {0} /\ stack' = Append(a, <<n, 1>>) /\ visited' = visited \cup {n}
  <2> DEFINE S == Index \X (Nat \ {0})
             e == <<n, 1>>
  <2>1. e \in S /\ e[1] = n /\ e[2] = 1
    BY <1>6, <1>13
  <2>2. /\ DOMAIN stack' = 1 .. Len(stack) + 1
        /\ (\A k \in DOMAIN stack : stack'[k] = a[k]) /\ stack'[Len(stack) + 1] = e
    <3> HIDE DEF S, e
    <3>1. stack' = Append(a, e)
      BY <1>13 DEF e
    <3>2. a \in Seq(S)
      BY <1>4 DEF S
    <3> QED
      BY <1>3, <1>4, <2>1, <3>1, <3>2, Appended
  <2> HIDE DEF e
  <2>3. DOMAIN stack' = DOMAIN stack \cup {Len(stack) + 1} /\ Len(stack) + 1 \notin DOMAIN stack
        /\ \A k \in DOMAIN stack : k <= Len(stack)
    BY <1>3, <2>2
  <2>4. /\ \A k \in DOMAIN stack : stack'[k][1] = stack[k][1] /\ stack'[k][2] = a[k][2]
        /\ stack'[Len(stack) + 1][1] = n /\ stack'[Len(stack) + 1][2] = 1
    BY <1>4, <2>1, <2>2
  <2>5. StackNodes' = StackNodes \cup {n}
    BY <2>3, <2>4 DEF StackNodes
  <2>6. \A k \in DOMAIN stack : stack[k][1] # n
    BY <1>1, <1>13 DEF Marks, StackNodes
  <2>7. Climbs'
    <3>1. ASSUME NEW k \in DOMAIN stack, NEW x, x = stack[k][1] PROVE n \in Upstream(x)'
      <4>1. Top \in Upstream(x) /\ x \in Index
        BY <1>1, <1>3, <2>3, <3>1 DEF Climbs
      <4>2. Feeders(Top) \subseteq Upstream(x)
        BY <4>1, ReachedSets DEF Sound
      <4>3. n \in Upstream(x)
        BY <1>6, <1>13, <4>2
      <4> QED
        BY <1>2, <4>1, <4>3
    <3>2. n \in Upstream(n)'
      BY <1>2, <1>6, <1>13, ReachedAfter DEF Sound
    <3>3. ASSUME NEW k \in DOMAIN stack, NEW l \in DOMAIN stack, k <= l, NEW x, x = stack[k][1]
          PROVE  stack[l][1] \in Upstream(x)'
      <4>1. stack[l][1] \in Upstream(x) /\ x \in Index
        BY <1>1, <1>3, <3>3 DEF Climbs
      <4> QED
        BY <1>2, <4>1
    <3>4. \A l \in DOMAIN stack : ~(Len(stack) + 1 <= l)
      BY <1>3
    <3>5. ASSUME NEW k \in DOMAIN stack', NEW l \in DOMAIN stack', k <= l, NEW x, x = stack'[k][1]
          PROVE  stack'[l][1] \in Upstream(x)'
      <4>1. CASE k \in DOMAIN stack /\ l \in DOMAIN stack
        <5>1. x = stack[k][1] /\ stack'[l][1] = stack[l][1]
          BY <2>4, <3>5, <4>1
        <5> QED
          BY <3>3, <3>5, <4>1, <5>1
      <4>2. CASE k \in DOMAIN stack /\ l = Len(stack) + 1
        <5>1. x = stack[k][1] /\ stack'[l][1] = n
          BY <2>4, <3>5, <4>2
        <5> QED
          BY <3>1, <4>2, <5>1
      <4>3. CASE k = Len(stack) + 1
        <5>1. l = Len(stack) + 1
          BY <2>3, <3>4, <3>5, <4>3
        <5>2. x = n /\ stack'[l][1] = n
          BY <2>4, <3>5, <4>3, <5>1
        <5> QED
          BY <3>2, <5>2
      <4> QED
        BY <2>3, <4>1, <4>2, <4>3
    <3> QED
      BY <3>5 DEF Climbs
  <2>8. Once'
    BY <1>1, <2>3, <2>4, <2>6 DEF Once
  <2>9. Marks'
    BY <1>1, <1>2, <1>6, <1>13, <2>5 DEF Marks
  <2>10. GoneUp'
    <3>1. \A j \in DOMAIN LayerIn(layer[n]) : ~(j < 1)
      <4>1. \A j \in DOMAIN LayerIn(layer[n]) : j \in Nat \ {0}
        BY <1>5, <1>6, <1>13 DEF InputsTyped
      <4>2. \A j \in Nat \ {0} : ~(j < 1)
        OBVIOUS
      <4> QED
        BY <4>1, <4>2
    <3> QED
      BY <1>2, <1>10, <2>3, <2>4, <3>1 DEF GoneUp
  <2> QED
    BY <1>1, <1>11, <2>7, <2>8, <2>9, <2>10 DEF Sorted, FirstWalk
<1> QED
  BY <1>7, <1>12, <1>13

LEMMA SortedLayer ==
  ASSUME Sound, Sound', Sorted, SortLayer
  PROVE  Sorted'
<1>1. /\ ~FirstWalk /\ ~FirstWalk' /\ phase' = "sort" /\ phase = "sort" /\ stack # <<>> /\ InputsDone
      /\ UNCHANGED <<g, next, visited, layer, subgraph_idx>>
      /\ plan' = Append(plan, Top) /\ stack' = Front(stack)
      /\ IInv /\ Alone /\ Climbs /\ Once /\ Marks /\ GoneUp /\ OutputsSorted /\ InOrder
  BY DEF SortLayer, FirstWalk, Sound, Sorted
<1>2. /\ Index' = Index /\ Live' = Live /\ (Orderable' <=> Orderable)
      /\ \A t : Above(t)' = Above(t)
      /\ \A l : LayerIn(layer[l])' = LayerIn(layer[l])
      /\ \A l : Feeders(l)' = Feeders(l)
      /\ \A l \in Index : Upstream(l)' = Upstream(l)
  BY <1>1, SameOrder
<1>3. /\ Len(stack) \in Nat /\ DOMAIN stack = 1 .. Len(stack)
      /\ \A k \in DOMAIN stack : stack[k][1] \in Index
      /\ Len(stack) \in DOMAIN stack /\ Top = stack[Len(stack)][1]
      /\ TopInput = stack[Len(stack)][2] /\ TopInput \in Nat \ {0}
      /\ Top \in Index /\ Inputs(Top) = LayerIn(layer[Top]) /\ plan \in Seq(Index)
  BY <1>1, StackTypes
<1>4. /\ DOMAIN stack' = 1 .. Len(stack) - 1 /\ DOMAIN stack' \subseteq DOMAIN stack
      /\ \A k \in DOMAIN stack' : stack'[k] = stack[k]
      /\ \A k \in DOMAIN stack : k \in DOMAIN stack' \/ k = Len(stack)
      /\ Len(stack) \notin DOMAIN stack'
  <2> DEFINE S == Index \X (Nat \ {0})
  <2>1. stack \in Seq(S)
    BY <1>1, SecondTypes
  <2> HIDE DEF S
  <2>2. /\ DOMAIN Front(stack) = 1 .. Len(stack) - 1
        /\ \A k \in 1 .. Len(stack) - 1 : Front(stack)[k] = stack[k]
    BY <1>1, <2>1, FrontProperties
  <2>3. /\ 1 .. Len(stack) - 1 \subseteq 1 .. Len(stack) /\ Len(stack) \notin 1 .. Len(stack) - 1
        /\ \A k \in 1 .. Len(stack) : k \in 1 .. Len(stack) - 1 \/ k = Len(stack)
    <3> DEFINE z == Len(stack)
    <3>1. z \in Nat
      BY <1>3
    <3> HIDE DEF z
    <3>2. /\ 1 .. z - 1 \subseteq 1 .. z /\ z \notin 1 .. z - 1
          /\ \A k \in 1 .. z : k \in 1 .. z - 1 \/ k = z
      BY <3>1
    <3> QED
      BY <3>2 DEF z
  <2> QED
    BY <1>1, <1>3, <2>2, <2>3
<1>5. /\ DOMAIN plan' = 1 .. Len(plan) + 1 /\ DOMAIN plan = 1 .. Len(plan) /\ Len(plan) \in Nat
      /\ \A k \in DOMAIN plan : plan'[k] = plan[k] /\ k \in DOMAIN plan' /\ k < Len(plan) + 1
      /\ plan'[Len(plan) + 1] = Top
      /\ \A k \in DOMAIN plan' : k \in DOMAIN plan \/ k = Len(plan) + 1
  <2>1. /\ DOMAIN plan' = 1 .. Len(plan) + 1 /\ DOMAIN plan = 1 .. Len(plan) /\ Len(plan) \in Nat
        /\ \A k \in 1 .. Len(plan) : plan'[k] = plan[k]
        /\ plan'[Len(plan) + 1] = Top
    BY <1>1, <1>3, Appended
  <2> QED
    BY <2>1
<1>6. Top \in StackNodes /\ Top \notin Elems(plan) /\ Top \in Live
  BY <1>1, <1>3 DEF StackNodes, Marks
<1>7. StackNodes' = StackNodes \ {Top}
  <2>1. \A k \in DOMAIN stack' : stack[k][1] # Top
    BY <1>1, <1>3, <1>4 DEF Once
  <2> QED
    BY <1>3, <1>4, <2>1 DEF StackNodes
<1>8. Distinct(plan') /\ Elems(plan') = Elems(plan) \cup {Top}
  BY <1>1, <1>3, <1>6, AppendedElems DEF Once
<1>9. Climbs'
  <2>1. ASSUME NEW k \in DOMAIN stack', NEW l \in DOMAIN stack', k <= l, NEW x, x = stack'[k][1]
        PROVE  stack'[l][1] \in Upstream(x)'
    <3>1. x = stack[k][1] /\ stack'[l][1] = stack[l][1] /\ k \in DOMAIN stack /\ l \in DOMAIN stack
      BY <1>4, <2>1
    <3>2. stack[l][1] \in Upstream(x) /\ x \in Index
      BY <1>1, <1>3, <2>1, <3>1 DEF Climbs
    <3> QED
      BY <1>2, <3>1, <3>2
  <2> QED
    BY <2>1 DEF Climbs
<1>10. Once'
  <2>1. \A k, l \in DOMAIN stack' : stack'[k][1] = stack'[l][1] => k = l
    BY <1>1, <1>4 DEF Once
  <2> QED
    BY <1>8, <2>1 DEF Once
<1>11. Marks'
  BY <1>1, <1>2, <1>6, <1>7, <1>8 DEF Marks
<1>12. GoneUp'
  <2>1. ASSUME NEW k \in DOMAIN stack', NEW x, x = stack'[k][1], NEW j \in DOMAIN LayerIn(layer[x])', j < stack'[k][2]
        PROVE  Above(LayerIn(layer[x])[j])' \in visited' \cup {0}
    <3>1. k \in DOMAIN stack /\ x = stack[k][1] /\ j < stack[k][2]
      BY <1>4, <2>1
    <3>2. j \in DOMAIN LayerIn(layer[x])
      BY <1>2, <2>1
    <3>3. Above(LayerIn(layer[x])[j]) \in visited \cup {0}
      BY <1>1, <3>1, <3>2 DEF GoneUp
    <3> QED
      BY <1>1, <1>2, <3>3
  <2> QED
    BY <2>1 DEF GoneUp
<1>13. OutputsSorted'
  BY <1>1, <1>2 DEF OutputsSorted
(* A layer that Top reads from is not under it on the stack: that would be a circle. *)
<1>14. ASSUME Orderable, NEW f \in Feeders(Top) PROVE f \in Elems(plan)
  <2>1. PICK t \in Elems(LayerIn(layer[Top])) : f = Above(t) /\ f # 0
    BY DEF Feeders
  <2>2. PICK j \in DOMAIN LayerIn(layer[Top]) : t = LayerIn(layer[Top])[j]
    BY <2>1 DEF Elems
  <2>3. j < TopInput
    <3> DEFINE s == LayerIn(layer[Top])
    <3>1. s \in Seq(Tensor)
      BY <1>1, <1>3, LayersTyped DEF InputsTyped
    <3>2. TopInput > Len(s)
      BY <1>1, <1>3 DEF InputsDone
    <3>3. j \in DOMAIN s
      OBVIOUS
    <3> HIDE DEF s
    <3>4. j \in 1 .. Len(s) /\ Len(s) \in Nat
      BY <3>1, <3>3
    <3> QED
      BY <1>3, <3>2, <3>4
  <2>4. f \in visited
    BY <1>1, <1>3, <2>1, <2>2, <2>3 DEF GoneUp
  <2>5. ASSUME f \in StackNodes PROVE FALSE
    <3>1. PICK k \in DOMAIN stack : stack[k][1] = f
      BY <2>5 DEF StackNodes
    <3>2. k <= Len(stack)
      BY <1>3
    <3>3. Top \in Upstream(f)
      BY <1>1, <1>3, <3>1, <3>2 DEF Climbs
    <3> QED
      BY <1>6, <1>14, <3>3 DEF Orderable, OnCycle
  <2> QED
    BY <1>1, <2>4, <2>5 DEF Marks
<1>15. InOrder'
  <2>1. ASSUME Orderable, NEW k \in DOMAIN plan', NEW x, x = plan'[k], NEW f \in Feeders(x)
        PROVE  \E j \in DOMAIN plan' : j < k /\ plan'[j] = f
    <3>1. CASE k \in DOMAIN plan
      <4>1. x = plan[k]
        BY <1>5, <2>1, <3>1
      <4>2. PICK j \in DOMAIN plan : j < k /\ plan[j] = f
        BY <1>1, <2>1, <3>1, <4>1 DEF InOrder
      <4> QED
        BY <1>5, <4>2
    <3>2. CASE k = Len(plan) + 1
      <4>1. x = Top
        BY <1>5, <2>1, <3>2
      <4>2. PICK j \in DOMAIN plan : plan[j] = f
        BY <1>14, <2>1, <4>1 DEF Elems
      <4> QED
        BY <1>5, <3>2, <4>2
    <3> QED
      BY <1>5, <3>1, <3>2
  <2>2. ASSUME Orderable', NEW k \in DOMAIN plan', NEW x, x = plan'[k], NEW f \in Feeders(x)'
        PROVE  \E j \in DOMAIN plan' : j < k /\ plan'[j] = f
    BY <1>2, <2>1, <2>2
  <2> QED
    BY <2>2 DEF InOrder
<1> QED
  BY <1>1, <1>9, <1>10, <1>11, <1>12, <1>13, <1>15 DEF Sorted, FirstWalk

LEMMA SortedRebuild ==
  ASSUME Sound, Sound', Sorted, Rebuild
  PROVE  Sorted'
<1>1. /\ ~FirstWalk' /\ phase' = "sort" /\ stack' = <<>> /\ next' = 1 /\ visited' = {} /\ plan' = <<>>
      /\ g' = g
  BY DEF Rebuild, FirstWalk, Sorted
<1>2. StackNodes' = {} /\ Elems(plan') = {}
  BY <1>1 DEF StackNodes, Elems
<1>3. Climbs' /\ GoneUp'
  BY <1>1 DEF Climbs, GoneUp
<1>4. Once' /\ Marks' /\ InOrder'
  BY <1>1, <1>2 DEF Once, Marks, InOrder, Distinct
<1>5. OutputsSorted'
  <2>1. g.output \in Seq(Tensor)
    BY GraphTypes DEF Sound, IInv
  <2>2. \A o \in DOMAIN g.output : ~(o < 1)
    BY <2>1
  <2> QED
    BY <1>1, <2>2 DEF OutputsSorted
<1> QED
  BY <1>1, <1>3, <1>4, <1>5 DEF Sorted

(* Nothing the order depends on has changed. *)
LEMMA SortedStill ==
  ASSUME Sound, Sound', Sorted, ~FirstWalk, UNCHANGED <<g, next, stack, visited, layer, subgraph_idx, plan>>,
         ~FirstWalk', phase' = "ready" => stack = <<>> /\ next > Len(g.output)
  PROVE  Sorted'
<1>1. /\ Index' = Index /\ Live' = Live /\ (Orderable' <=> Orderable)
      /\ \A t : Above(t)' = Above(t)
      /\ \A l : LayerIn(layer[l])' = LayerIn(layer[l])
      /\ \A l : Feeders(l)' = Feeders(l)
      /\ \A l \in Index : Upstream(l)' = Upstream(l)
  BY SameOrder
<1>2. Climbs /\ Once /\ Marks /\ GoneUp /\ OutputsSorted /\ InOrder
  BY DEF Sorted
<1>3. \A k \in DOMAIN stack : stack[k][1] \in Index
  BY StackTypes DEF Sound
<1>4. Climbs'
  <2>1. ASSUME NEW k \in DOMAIN stack', NEW l \in DOMAIN stack', k <= l, NEW x, x = stack'[k][1]
        PROVE  stack'[l][1] \in Upstream(x)'
    <3>1. stack[l][1] \in Upstream(x) /\ x \in Index
      BY <1>2, <1>3, <2>1 DEF Climbs
    <3> QED
      BY <1>1, <3>1
  <2> QED
    BY <2>1 DEF Climbs
<1>5. GoneUp'
  <2>1. ASSUME NEW k \in DOMAIN stack', NEW x, x = stack'[k][1], NEW j \in DOMAIN LayerIn(layer[x])', j < stack'[k][2]
        PROVE  Above(LayerIn(layer[x])[j])' \in visited' \cup {0}
    <3>1. j \in DOMAIN LayerIn(layer[x])
      BY <1>1, <2>1
    <3>2. Above(LayerIn(layer[x])[j]) \in visited \cup {0}
      BY <1>2, <2>1, <3>1 DEF GoneUp
    <3> QED
      BY <1>1, <3>2
  <2> QED
    BY <2>1 DEF GoneUp
<1>6. Once' /\ Marks' /\ OutputsSorted' /\ InOrder'
  BY <1>1, <1>2 DEF Once, Marks, StackNodes, OutputsSorted, InOrder
<1> QED
  BY <1>4, <1>5, <1>6 DEF Sorted

LEMMA InitSorted == Init => Sorted
  BY DEF Init, Sorted, FirstWalk

LEMMA NextSorted ==
  ASSUME Sound, Sound', Sorted, [Next]_vars
  PROVE  Sorted'
<1>1. CASE FirstWalk /\ FirstWalk'
  <2>1. plan' = plan /\ phase' # "ready"
    BY <1>1
    DEF Next, Walk, Fuse, Merge, Sort, WalkOutput, WalkInput, FuseCpu, FuseRoot, FuseInto, FuseRestricted,
        Visited, Rebuild, SortLayer, SortDone, MergeSkip, MergeInput, MergeDone, vars, FirstWalk
  <2> QED
    BY <1>1, <2>1 DEF Sorted
<1>2. CASE FirstWalk /\ ~FirstWalk'
  <2>1. Rebuild
    BY <1>2
    DEF Next, Walk, Fuse, Merge, Sort, WalkOutput, WalkInput, FuseCpu, FuseRoot, FuseInto, FuseRestricted,
        Visited, Rebuild, SortLayer, SortDone, MergeSkip, MergeInput, MergeDone, vars, FirstWalk, Fusing
  <2> QED
    BY <2>1, SortedRebuild
<1>3. CASE ~FirstWalk
  <2>1. \/ WalkOutput /\ phase = "sort"
        \/ WalkInput /\ phase = "sort"
        \/ SortLayer
        \/ SortDone
        \/ UNCHANGED vars
    BY <1>3
    DEF Next, Walk, Fuse, Merge, Sort, WalkOutput, WalkInput, FuseCpu, FuseRoot, FuseInto, FuseRestricted,
        Rebuild, SortLayer, SortDone, MergeSkip, MergeInput, MergeDone, FirstWalk, Fusing
  <2>2. CASE SortDone
    <3>1. /\ UNCHANGED <<g, next, stack, visited, layer, subgraph_idx, plan>>
          /\ ~FirstWalk' /\ stack = <<>> /\ next > Len(g.output)
      BY <2>2 DEF SortDone, walk, FirstWalk
    <3> QED
      BY <1>3, <3>1, SortedStill
  <2>3. CASE UNCHANGED vars
    <3>1. /\ UNCHANGED <<g, next, stack, visited, layer, subgraph_idx, plan>>
          /\ ~FirstWalk' /\ (phase' = "ready" => stack = <<>> /\ next > Len(g.output))
      BY <1>3, <2>3 DEF vars, FirstWalk, Sorted
    <3> QED
      BY <1>3, <3>1, SortedStill
  <2> QED
    BY <2>1, <2>2, <2>3, SortedOutput, SortedInput, SortedLayer
<1> QED
  BY <1>1, <1>2, <1>3

-----------------------------------------------------------------------------
(* The plan, position by position. *)
LEMMA PlanShape ==
  ASSUME IInv, Alone, NEW p, p = Partitioned
  PROVE  /\ Len(p.ops) = Len(g.ops) /\ DOMAIN p.ops = Op
         /\ \A n \in Op : p.ops[n].in = g.ops[n].in /\ p.ops[n].out = g.ops[n].out
         /\ p.input = g.input /\ p.output = g.output
         /\ Len(p.plan) = Len(plan) /\ DOMAIN p.plan = 1 .. Len(plan) /\ DOMAIN plan = 1 .. Len(plan)
         /\ Len(plan) \in Nat
         /\ \A k \in 1 .. Len(plan) :
              /\ plan[k] \in Index
              /\ p.plan[k].op = (IF layer[plan[k]].sub THEN SubGraph ELSE layer[plan[k]].ops[1])
              /\ p.plan[k].in = LayerIn(layer[plan[k]])
              /\ p.plan[k].out = LayerOut(layer[plan[k]])
<1>1. plan \in Seq(Index)
  BY DEF IInv, TypeOK, Index
<1>2. Len(plan) \in Nat /\ DOMAIN plan = 1 .. Len(plan) /\ \A k \in 1 .. Len(plan) : plan[k] \in Index
  BY <1>1
<1>3. /\ p.ops = [n \in Op |-> [in |-> g.ops[n].in, out |-> g.ops[n].out]]
      /\ p.input = g.input /\ p.output = g.output
      /\ p.plan = [k \in DOMAIN plan |->
                    [op |-> IF layer[plan[k]].sub THEN SubGraph ELSE layer[plan[k]].ops[1],
                     in |-> LayerIn(layer[plan[k]]), out |-> LayerOut(layer[plan[k]])]]
  BY DEF Partitioned
<1>4. Len(p.ops) = Len(g.ops) /\ DOMAIN p.ops = Op
  <2>1. Len(g.ops) \in Nat
    BY GraphTypes DEF IInv
  <2> QED
    BY <1>3, <2>1 DEF Op
<1>5. Len(p.plan) = Len(plan) /\ DOMAIN p.plan = 1 .. Len(plan)
  BY <1>2, <1>3
<1> QED
  BY <1>2, <1>3, <1>4, <1>5

LEMMA PlanTyped ==
  ASSUME IInv, Alone, \A k \in DOMAIN plan : plan[k] \in Live, NEW p, p = Partitioned
  PROVE  p \in GraphRecord(Tensor)
<1>1. /\ Len(p.plan) = Len(plan) /\ DOMAIN p.plan = 1 .. Len(plan) /\ DOMAIN plan = 1 .. Len(plan)
      /\ Len(plan) \in Nat /\ \A k \in 1 .. Len(plan) : plan[k] \in Index
  BY PlanShape
<1>2. g \in OpGraph /\ Len(g.ops) \in Nat
  BY GraphTypes DEF IInv
<1>3. g.input \in Seq(Tensor) /\ g.output \in Seq(Tensor)
  BY <1>2, OpGraphAssumption DEF OpGraphOK
<1>4. [n \in Op |-> [in |-> g.ops[n].in, out |-> g.ops[n].out]] \in Seq(OpNode(Tensor))
  <2>1. \A n \in Op : [in |-> g.ops[n].in, out |-> g.ops[n].out] \in OpNode(Tensor)
    BY <1>2, OpTensorTypes DEF OpNode
  <2> DEFINE N == OpNode(Tensor)
             r(n) == [in |-> g.ops[n].in, out |-> g.ops[n].out]
             z == Len(g.ops)
  <2>2. \A n \in 1 .. z : r(n) \in N
    BY <2>1 DEF Op
  <2> HIDE DEF N, r, z
  <2>3. z \in Nat
    BY <1>2 DEF z
  <2>4. [n \in 1 .. z |-> r(n)] \in Seq(N)
    BY <2>2, <2>3
  <2> QED
    BY <2>4 DEF N, r, z, Op
<1>5. ASSUME NEW k \in 1 .. Len(plan)
      PROVE  [op |-> IF layer[plan[k]].sub THEN SubGraph ELSE layer[plan[k]].ops[1],
              in |-> LayerIn(layer[plan[k]]), out |-> LayerOut(layer[plan[k]])] \in Layer(Tensor)
  <2>1. plan[k] \in Index /\ layer[plan[k]].ops # <<>>
    BY <1>1 DEF Live
  <2>2. LayerIn(layer[plan[k]]) \in Seq(Tensor) /\ LayerOut(layer[plan[k]]) \in Seq(Tensor)
    BY <2>1, LayerInputs, LayerOutputs
  <2>3. layer[plan[k]].ops[1] \in Nat
    <3>1. layer[plan[k]].ops \in Seq(Op)
      BY <2>1, LayerTypes DEF Index
    <3>2. layer[plan[k]].ops[1] \in Op
      BY <2>1, <3>1
    <3> QED
      BY <1>2, <3>2, OpPositive
  <2> QED
    BY <2>2, <2>3 DEF Layer, SubGraph
<1>6. [k \in DOMAIN plan |->
         [op |-> IF layer[plan[k]].sub THEN SubGraph ELSE layer[plan[k]].ops[1],
          in |-> LayerIn(layer[plan[k]]), out |-> LayerOut(layer[plan[k]])]] \in Seq(Layer(Tensor))
  <2> DEFINE N == Layer(Tensor)
             r(k) == [op |-> IF layer[plan[k]].sub THEN SubGraph ELSE layer[plan[k]].ops[1],
                      in |-> LayerIn(layer[plan[k]]), out |-> LayerOut(layer[plan[k]])]
             z == Len(plan)
  <2>1. z \in Nat /\ \A k \in 1 .. z : r(k) \in N
    BY <1>1, <1>5
  <2> HIDE DEF N, r, z
  <2>2. [k \in 1 .. z |-> r(k)] \in Seq(N)
    BY <2>1
  <2> QED
    BY <1>1, <2>2 DEF N, r, z
<1> QED
  BY <1>3, <1>4, <1>6 DEF GraphRecord, Partitioned

LEMMA PlanBuilt ==
  ASSUME IInv, Alone, NEW p, p = Partitioned
  PROVE  BuildOK(p)
<1>1. /\ Len(p.ops) = Len(g.ops)
      /\ \A n \in Op : p.ops[n].in = g.ops[n].in /\ p.ops[n].out = g.ops[n].out
      /\ p.input = g.input
  BY PlanShape
<1>2. BuildOK(g) /\ Op = 1 .. Len(g.ops) /\ Len(g.ops) \in Nat
  BY OpGraphAssumption DEF IInv, OpGraphOK, Op
<1>3. \A n \in Op : \A k \in 1 .. n - 1 : k \in Op
  BY <1>2
<1>4. \A i, k \in Op : i # k => Elems(p.ops[i].out) \cap Elems(p.ops[k].out) = {}
  BY <1>1, <1>2 DEF BuildOK
<1>5. ASSUME NEW i \in Op
      PROVE  /\ Distinct(p.ops[i].out)
             /\ Elems(p.ops[i].out) \cap Elems(p.input) = {}
             /\ \A t \in Elems(p.ops[i].in) :
                  \/ t \in Elems(p.input)
                  \/ \E k \in 1 .. i - 1 : t \in Elems(p.ops[k].out)
  <2>1. /\ Distinct(g.ops[i].out)
        /\ Elems(g.ops[i].out) \cap Elems(g.input) = {}
        /\ \A t \in Elems(g.ops[i].in) :
             \/ t \in Elems(g.input)
             \/ \E k \in 1 .. i - 1 : t \in Elems(g.ops[k].out)
    BY <1>2 DEF BuildOK
  <2> QED
    BY <1>1, <1>3, <2>1
<1> QED
  BY <1>1, <1>2, <1>4, <1>5 DEF BuildOK

(* The op that makes a tensor, and its layer. *)
LEMMA MakerUnique ==
  ASSUME g \in OpGraph, NEW n \in Op, NEW t \in Elems(g.ops[n].out)
  PROVE  Producer(t) = n /\ t \notin Elems(g.input)
<1>1. Producer(t) # 0 /\ Producer(t) \in Op /\ t \in Elems(g.ops[Producer(t)].out)
  BY ProducerIsOp
<1>2. BuildOK(g) /\ Op = 1 .. Len(g.ops)
  BY OpGraphAssumption DEF OpGraphOK, Op
<1> QED
  BY <1>1, <1>2 DEF BuildOK

LEMMA MadeIn ==
  ASSUME IInv, NEW l \in Index, NEW t \in Elems(LayerOut(layer[l]))
  PROVE  Above(t) = l /\ t \notin Elems(g.input)
<1>1. PICK n \in Op : subgraph_idx[n] = l /\ t \in Elems(g.ops[n].out)
  BY LayerOutputs, LayerTensors
<1>2. Producer(t) = n /\ t \notin Elems(g.input) /\ n # 0
  BY <1>1, MakerUnique, OpPositive DEF IInv
<1> QED
  BY <1>1, <1>2 DEF Above

LEMMA ReadOutside ==
  ASSUME Sound, NEW l \in Index, NEW t \in Elems(LayerIn(layer[l])), t \notin Elems(g.input)
  PROVE  Above(t) \in Feeders(l) /\ t \in Elems(LayerOut(layer[Above(t)]))
<1>1. /\ IInv /\ Alone /\ Laid /\ g \in OpGraph
      /\ t \in Elems(AllIn(layer[l])) /\ Above(t) # l
  BY LayerInputs DEF Sound, IInv
<1>2. PICK n \in Op : subgraph_idx[n] = l /\ t \in Elems(g.ops[n].in)
  BY <1>1, LayerTensors
<1>3. l # 0
  BY LayerTypes DEF Index, Sound
<1>4. Producer(t) # 0
  <2>1. BuildOK(g) /\ Op = 1 .. Len(g.ops) /\ Len(g.ops) \in Nat
    BY <1>1, OpGraphAssumption DEF OpGraphOK, Op
  <2>2. PICK k \in 1 .. n - 1 : t \in Elems(g.ops[k].out)
    BY <1>2, <2>1 DEF BuildOK
  <2>3. k \in Op
    BY <2>1
  <2> QED
    BY <1>1, <2>2, <2>3, ProducerIsOp
<1>5. Producer(t) \in Op /\ t \in Elems(g.ops[Producer(t)].out) /\ Producer(t) \in Needs(n)
  BY <1>1, <1>2, <1>4, ProducerIsOp, NeedsOps
<1>6. Above(t) = subgraph_idx[Producer(t)] /\ Above(t) # 0
  BY <1>1, <1>2, <1>3, <1>4, <1>5 DEF Above, Laid
<1>7. Above(t) \in Feeders(l)
  BY <1>6 DEF Feeders
<1>8. Above(t) \in Index
  BY <1>1, <1>6, AboveLayer
<1>9. t \in Elems(AllOut(layer[Above(t)]))
  BY <1>1, <1>5, <1>6, <1>8, LayerTensors
<1>10. Outside(layer[Above(t)], t)
  <2>1. layer[l] # layer[Above(t)]
    <3>1. n \in Elems(layer[l].ops) /\ n \notin Elems(layer[Above(t)].ops)
      BY <1>1, <1>2, <1>8, Held
    <3> QED
      BY <3>1
  <2> QED
    BY <1>1, <2>1 DEF Outside, Index
<1> QED
  BY <1>1, <1>7, <1>8, <1>9, <1>10, LayerOutputs

LEMMA PlanLayers ==
  ASSUME Sound, Distinct(plan), \A k \in DOMAIN plan : plan[k] \in Live, NEW p, p = Partitioned,
         NEW k \in 1 .. Len(plan)
  PROVE  LayerOK(p, k)
<1>1. /\ Len(p.ops) = Len(g.ops)
      /\ \A n \in Op : p.ops[n].in = g.ops[n].in /\ p.ops[n].out = g.ops[n].out
      /\ p.input = g.input
      /\ Len(p.plan) = Len(plan) /\ DOMAIN plan = 1 .. Len(plan)
      /\ \A i \in 1 .. Len(plan) :
              /\ plan[i] \in Index
              /\ p.plan[i].op = (IF layer[plan[i]].sub THEN SubGraph ELSE layer[plan[i]].ops[1])
              /\ p.plan[i].in = LayerIn(layer[plan[i]])
              /\ p.plan[i].out = LayerOut(layer[plan[i]])
  BY PlanShape DEF Sound
<1>2. IInv /\ Alone /\ g \in OpGraph /\ Op = 1 .. Len(g.ops) /\ 0 \notin Op
  BY OpPositive DEF Sound, IInv, Op
<1>3. ASSUME NEW i \in 1 .. Len(plan)
      PROVE  /\ layer[plan[i]].ops[1] \in Op /\ subgraph_idx[layer[plan[i]].ops[1]] = plan[i]
             /\ ~layer[plan[i]].sub => Len(layer[plan[i]].ops) = 1
  <2>1. plan[i] \in Index /\ layer[plan[i]].ops # <<>>
    BY <1>1 DEF Live
  <2>2. layer[plan[i]].ops \in Seq(Op)
    BY <1>2, <2>1, LayerTypes DEF Index
  <2> DEFINE s == layer[plan[i]].ops
  <2> HIDE DEF s
  <2>3. s \in Seq(Op) /\ s # <<>>
    BY <2>1, <2>2 DEF s
  <2>4. s[1] \in Op /\ s[1] \in Elems(s) /\ Len(s) \in Nat \ {0}
    BY <2>3 DEF Elems
  <2>5. ~layer[plan[i]].sub => Len(s) <= 1
    BY <1>2, <2>1 DEF Alone, Index, s
  <2>6. Elems(layer[plan[i]].ops) = {n \in Op : subgraph_idx[n] = plan[i]}
    BY <1>2, <2>1, Held
  <2>7. Len(s) <= 1 => Len(s) = 1
    <3> DEFINE z == Len(s)
    <3>1. z \in Nat \ {0}
      BY <2>4
    <3> HIDE DEF z
    <3>2. z <= 1 => z = 1
      BY <3>1
    <3> QED
      BY <3>2 DEF z
  <2> QED
    BY <2>4, <2>5, <2>6, <2>7 DEF s
(* The position of an op that is a layer of its own. *)
<1>4. ASSUME NEW i \in 1 .. Len(plan), NEW n \in Op, p.plan[i].op = n
      PROVE  ~layer[plan[i]].sub /\ subgraph_idx[n] = plan[i]
  <2>1. ~layer[plan[i]].sub
    BY <1>1, <1>2, <1>4 DEF SubGraph
  <2> QED
    BY <1>1, <1>3, <1>4, <2>1
<1>5. CASE ~layer[plan[k]].sub
  <2> DEFINE n == layer[plan[k]].ops[1]
  <2>1. n \in Op /\ subgraph_idx[n] = plan[k] /\ Len(layer[plan[k]].ops) = 1 /\ plan[k] \in Index
    BY <1>1, <1>3, <1>5
  <2>2. p.plan[k].op = n
    BY <1>1, <1>5
  <2>3. p.plan[k].in = g.ops[n].in /\ p.plan[k].out = g.ops[n].out
    <3>1. AllIn(layer[plan[k]]) = g.ops[n].in /\ AllOut(layer[plan[k]]) = g.ops[n].out
      BY <1>2, <2>1, LayerTensors
    <3>2. LayerIn(layer[plan[k]]) = AllIn(layer[plan[k]])
      BY <1>5 DEF LayerIn
    <3>3. LayerOut(layer[plan[k]]) = AllOut(layer[plan[k]])
      BY <1>2, <1>5, <2>1, LayerOutputs
    <3> QED
      BY <1>1, <3>1, <3>2, <3>3
  <2> HIDE DEF n
  <2>4. LayerOf(p, n) = {k}
    <3>1. ASSUME NEW i \in LayerOf(p, n) PROVE i = k
      <4>1. i \in 1 .. Len(plan) /\ p.plan[i].op = n
        BY <1>1 DEF LayerOf, OpLayers
      <4>2. plan[i] = plan[k]
        BY <1>4, <2>1, <4>1
      <4> QED
        BY <1>1, <4>1, <4>2 DEF Distinct
    <3>2. k \in LayerOf(p, n)
      BY <1>1, <1>2, <2>1, <2>2 DEF LayerOf, OpLayers, SubGraph
    <3> QED
      BY <3>1, <3>2
  <2> QED
    BY <1>1, <1>2, <2>1, <2>2, <2>3, <2>4 DEF LayerOK
<1>6. CASE layer[plan[k]].sub
  <2>1. plan[k] \in Index /\ p.plan[k].op = SubGraph
    BY <1>1, <1>6
  <2>2. Elems(p.plan[k].out) \cap Elems(p.input) = {}
    BY <1>1, <1>2, <2>1, MadeIn
  <2>3. ASSUME NEW t \in Elems(p.plan[k].in) PROVE \E u \in UsesOf(p, t) : LayerOf(p, u[1]) = {}
    <3>1. t \in Elems(AllIn(layer[plan[k]]))
      BY <1>1, <1>2, <2>1, LayerInputs
    <3>2. PICK n \in Op : subgraph_idx[n] = plan[k] /\ t \in Elems(g.ops[n].in)
      BY <1>2, <2>1, <3>1, LayerTensors
    <3>3. PICK j \in DOMAIN g.ops[n].in : t = g.ops[n].in[j]
      BY <3>2 DEF Elems
    <3>4. <<n, j>> \in UsesOf(p, t)
      <4>1. n \in 1 .. Len(p.ops) /\ j \in 1 .. Len(p.ops[n].in)
        BY <1>1, <1>2, <3>3, GraphTypes
      <4>2. <<n, j>> \in Uses(p)
        BY <4>1 DEF Uses
      <4>3. UsedTensor(p, <<n, j>>) = t
        BY <1>1, <3>3 DEF UsedTensor
      <4> QED
        BY <4>2, <4>3 DEF UsesOf
    <3>5. LayerOf(p, n) = {}
      <4>1. ASSUME NEW i \in LayerOf(p, n) PROVE FALSE
        <5>1. i \in 1 .. Len(plan) /\ p.plan[i].op = n
          BY <1>1 DEF LayerOf, OpLayers
        <5> QED
          BY <1>4, <1>6, <3>2, <5>1
      <4> QED
        BY <4>1
    <3>6. <<n, j>>[1] = n
      OBVIOUS
    <3> QED
      BY <3>4, <3>5, <3>6
  <2> QED
    BY <2>1, <2>2, <2>3 DEF LayerOK
<1> QED
  BY <1>5, <1>6

(* Layers that are not tied in a circle are put in an order in which         *)
(* shl_gref_session_run can run them: what shl_subgraph_topology_sort leaves *)
(* behind is a graph GrefRun and SubSession may assume.                      *)
THEOREM PlanReadyHolds == Spec => []PlanReady
<1>1. ASSUME NotedInv, Sorted, phase = "ready", Orderable, Delivered PROVE GraphOK(Partitioned, Tensor)
  <2>1. PICK p : p = Partitioned
    OBVIOUS
  <2>2. /\ Sound /\ IInv /\ Alone
        /\ Once /\ Marks /\ OutputsSorted /\ InOrder /\ stack = <<>> /\ next > Len(g.output)
    BY <1>1, SoundLayers DEF NotedInv, Sorted, FirstWalk
  <2>3. visited = Elems(plan) /\ Elems(plan) \subseteq Live
    <3>1. StackNodes = {}
      BY <2>2 DEF StackNodes
    <3> QED
      BY <2>2, <3>1 DEF Marks
  <2>4. \A k \in DOMAIN plan : plan[k] \in Live
    BY <2>3 DEF Elems
  <2>5. /\ p.input = g.input /\ p.output = g.output /\ Len(p.plan) = Len(plan) /\ DOMAIN plan = 1 .. Len(plan)
        /\ Len(plan) \in Nat
        /\ \A k \in 1 .. Len(plan) : /\ plan[k] \in Index
                                     /\ p.plan[k].in = LayerIn(layer[plan[k]])
                                     /\ p.plan[k].out = LayerOut(layer[plan[k]])
    BY <2>1, <2>2, PlanShape
  <2>6. \A k \in 1 .. Len(plan) : LayerOK(p, k)
    BY <2>1, <2>2, <2>4, PlanLayers DEF Once
  <2>7. ASSUME NEW k \in 1 .. Len(plan), NEW t \in Elems(p.plan[k].in), t \notin Elems(p.input)
        PROVE  \E j \in 1 .. k - 1 : t \in Elems(p.plan[j].out)
    <3>1. Above(t) \in Feeders(plan[k]) /\ t \in Elems(LayerOut(layer[Above(t)]))
      BY <2>2, <2>5, <2>7, ReadOutside
    <3>2. PICK j \in DOMAIN plan : j < k /\ plan[j] = Above(t)
      BY <1>1, <2>2, <2>5, <3>1 DEF InOrder
    <3>3. j \in 1 .. k - 1
      BY <2>5, <3>2
    <3> QED
      BY <2>5, <3>1, <3>2, <3>3
  <2>8. ASSUME NEW k \in 1 .. Len(plan), NEW j \in 1 .. Len(plan), k # j
        PROVE  Elems(p.plan[k].out) \cap Elems(p.plan[j].out) = {}
    <3>1. plan[k] # plan[j]
      BY <2>2, <2>5, <2>8 DEF Once, Distinct
    <3> QED
      BY <2>2, <2>5, <3>1, MadeIn
  <2>9. ASSUME NEW t \in Elems(p.output) PROVE \E k \in 1 .. Len(plan) : t \in Elems(p.plan[k].out)
    <3>1. PICK l \in Live : t \in Elems(LayerOut(layer[l]))
      BY <1>1, <2>5 DEF Delivered
    <3>2. Above(t) = l
      BY <2>2, <3>1, MadeIn DEF Live, Index
    <3>3. PICK o \in DOMAIN g.output : t = g.output[o]
      BY <2>5 DEF Elems
    <3>4. o < next
      <4>1. DOMAIN g.output = 1 .. Len(g.output) /\ Len(g.output) \in Nat /\ next \in Nat
        BY <2>2, GraphTypes DEF IInv, TypeOK
      <4> DEFINE z == Len(g.output)
      <4>2. o \in 1 .. z /\ z \in Nat /\ next > z /\ next \in Nat
        BY <2>2, <4>1
      <4> HIDE DEF z
      <4> QED
        BY <4>2
    <3>5. l \in Elems(plan)
      BY <2>2, <2>3, <3>2, <3>3, <3>4 DEF OutputsSorted
    <3>6. PICK k \in DOMAIN plan : plan[k] = l
      BY <3>5 DEF Elems
    <3> QED
      BY <2>5, <3>1, <3>6
  <2>10. PlanOK(p)
    BY <2>5, <2>6, <2>7, <2>8, <2>9 DEF PlanOK
  <2> QED
    BY <2>1, <2>2, <2>4, <2>10, PlanTyped, PlanBuilt DEF GraphOK
<1>2. NotedInv /\ Sorted => PlanReady
  BY <1>1 DEF PlanReady
<1>3. ASSUME NotedInv, NotedInv', Sorted, [Next]_vars PROVE Sorted'
  <2>1. Sound /\ Sound'
    BY <1>3, SoundLayers, PTL DEF NotedInv
  <2> QED
    BY <1>3, <2>1, NextSorted
<1> QED
  BY <1>2, <1>3, InitSorted, NotedInvariance, PTL DEF Spec
=============================================================================
