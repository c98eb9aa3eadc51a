------------------------- MODULE BinaryModelProofs -------------------------
(***************************************************************************)
(* Proofs about BinaryModel for all sessions that fit into a block.        *)
(***************************************************************************)
EXTENDS BinaryModel, InductionProofs

LEMMA Row ==
  ASSUME NEW S, NEW n \in Nat, NEW f \in [1 .. n -> S]
  PROVE  f \in Seq(S) /\ Len(f) = n
OBVIOUS

LEMMA Joined ==
  ASSUME NEW S, NEW a \in Seq(S), NEW c \in Seq(S)
  PROVE  /\ a \o c \in Seq(S) /\ Len(a \o c) = Len(a) + Len(c)
         /\ Len(a) \in Nat /\ Len(c) \in Nat
         /\ \A x \in 1 .. Len(a) : (a \o c)[x] = a[x]
         /\ \A x \in 1 .. Len(c) : (a \o c)[Len(a) + x] = c[x]
<1> DEFINE m == Len(a)
           n == Len(c)
<1>1. /\ m \in Nat /\ n \in Nat /\ a \o c \in Seq(S) /\ Len(a \o c) = m + n
      /\ DOMAIN a = 1 .. m /\ DOMAIN c = 1 .. n
  OBVIOUS
<1>2. \A x \in 1 .. m : (a \o c)[x] = a[x]
  BY <1>1
<1>3. \A x \in 1 .. n : (a \o c)[m + x] = c[x]
  BY <1>1
<1> QED
  BY <1>1, <1>2, <1>3

LEMMA TensorFacts ==
  ASSUME NEW t \in Tensor
  PROVE  /\ t.name \in Seq(Nat \ {0}) /\ Len(t.name) \in Nat
         /\ \A b \in 1 .. Len(t.name) : t.name[b] \in Nat /\ t.name[b] # 0
         /\ t.qinfo \in Seq([1 .. QuantCells -> Nat]) /\ Len(t.qinfo) \in Nat /\ Len(t.qinfo) > 0
         /\ \A c \in 1 .. Len(t.qinfo) : t.qinfo[c] \in [1 .. QuantCells -> Nat]
         /\ TensorSize(t) \in Nat
         /\ TensorSize(t) = 2 + Len(t.name) + 2 * Len(t.qinfo)
<1>1. /\ t.name \in Seq(Nat \ {0})
      /\ t.qinfo \in Seq([1 .. QuantCells -> Nat]) /\ t.qinfo # <<>>
  BY SessionAssumption
<1>2. Len(t.qinfo) \in Nat /\ Len(t.qinfo) > 0
  BY <1>1
<1>3. Len(t.name) \in Nat /\ \A b \in 1 .. Len(t.name) : t.name[b] \in Nat /\ t.name[b] # 0
  BY <1>1
<1>4. \A c \in 1 .. Len(t.qinfo) : t.qinfo[c] \in [1 .. QuantCells -> Nat]
  BY <1>1
<1>5. TensorSize(t) = 2 + Len(t.name) + 2 * Len(t.qinfo)
  BY DEF TensorSize, TensorCells, QuantCells
<1>6. TensorSize(t) \in Nat
  <2> DEFINE l == Len(t.name)
             m == Len(t.qinfo)
  <2>1. l \in Nat /\ m \in Nat /\ TensorSize(t) = 2 + l + 2 * m
    BY <1>2, <1>3, <1>5
  <2> HIDE DEF l, m
  <2> QED
    BY <2>1
<1> QED
  BY <1>1, <1>2, <1>3, <1>4, <1>5, <1>6, Zenon
-----------------------------------------------------------------------------
(* The quantisation records of a tensor, one after the other. *)
LEMMA Flattened ==
  ASSUME NEW q \in Seq([1 .. QuantCells -> Nat]), Len(q) > 0
  PROVE  /\ FlattenSeq(q) \in Seq(Nat) /\ Len(FlattenSeq(q)) = 2 * Len(q)
         /\ \A c \in 1 .. Len(q) : \A b \in 1 .. 2 : FlattenSeq(q)[(c - 1) * 2 + b] = q[c][b]
<1> DEFINE n == Len(q)
           it == CHOOSE f : f = [x \in 1 .. n |-> IF x = 1 THEN q[x] ELSE f[x - 1] \o q[x]]
           Cell(b) == q[(b - 1) \div 2 + 1][((b - 1) % 2) + 1]
           Line(x) == [b \in 1 .. 2 * x |-> Cell(b)]
           h == [x \in 1 .. n |-> Line(x)]
<1>1. n \in Nat /\ n > 0 /\ \A x \in 1 .. n : q[x] \in [1 .. 2 -> Nat]
  BY DEF QuantCells
<1>2. FlattenSeq(q) = it[n]
  <2>1. Len(q) # 0
    BY <1>1
  <2> QED
    BY <2>1, Zenon DEF FlattenSeq
<1>3. \A c \in 1 .. n : \A b \in 1 .. 2 : Cell((c - 1) * 2 + b) = q[c][b]
  <2> SUFFICES ASSUME NEW c \in 1 .. n, NEW b \in 1 .. 2 PROVE Cell((c - 1) * 2 + b) = q[c][b]
    OBVIOUS
  <2>1. c \in Nat /\ (b = 1 \/ b = 2)
    BY <1>1
  <2> HIDE DEF Cell, n
  <2>2. ((c - 1) * 2 + b - 1) \div 2 + 1 = c /\ (((c - 1) * 2 + b - 1) % 2) + 1 = b
    BY <2>1
  <2> QED
    BY <2>2 DEF Cell
<1>4. \A x \in 1 .. n : \A b \in 1 .. 2 * x : Cell(b) \in Nat
  <2> SUFFICES ASSUME NEW x \in 1 .. n, NEW b \in 1 .. 2 * x PROVE Cell(b) \in Nat
    OBVIOUS
  <2>1. (b - 1) \div 2 + 1 \in 1 .. n /\ ((b - 1) % 2) + 1 \in 1 .. 2
    BY <1>1
  <2> QED
    BY <1>1, <2>1
<1> HIDE DEF Cell
<1>5. \A x \in 1 .. n : Line(x) \in Seq(Nat) /\ Len(Line(x)) = 2 * x
  <2> SUFFICES ASSUME NEW x \in 1 .. n PROVE Line(x) \in Seq(Nat) /\ Len(Line(x)) = 2 * x
    OBVIOUS
  <2>1. 2 * x \in Nat /\ Line(x) \in [1 .. 2 * x -> Nat]
    BY <1>1, <1>4
  <2> QED
    BY <2>1
<1>6. Line(1) = q[1]
  <2>1. \A b \in 1 .. 2 : Cell(b) = q[1][b]
    <3>1. 1 \in 1 .. n /\ \A b \in 1 .. 2 : (1 - 1) * 2 + b = b
      BY <1>1
    <3> QED
      BY <1>3, <3>1
  <2>2. q[1] \in [1 .. 2 -> Nat] /\ 2 * 1 = 2
    BY <1>1
  <2> QED
    BY <2>1, <2>2
<1>7. ASSUME NEW x \in 2 .. n PROVE Line(x) = Line(x - 1) \o q[x]
  <2> DEFINE r == Line(x - 1)
  <2>1. x - 1 \in 1 .. n /\ x \in 1 .. n
    BY <1>1
  <2>2. r \in Seq(Nat) /\ Len(r) = 2 * (x - 1) /\ \A b \in 1 .. 2 * (x - 1) : r[b] = Cell(b)
    BY <1>5, <2>1
  <2> DEFINE y == q[x]
           m == 2 * (x - 1)
  <2>3. y \in Seq(Nat) /\ Len(y) = 2
    <3>1. y \in [1 .. 2 -> Nat]
      BY <1>1, <2>1
    <3> HIDE DEF y
    <3>2. 2 \in Nat
      OBVIOUS
    <3> QED
      BY <3>1, <3>2, Row
  <2> HIDE DEF r, y
  <2> DEFINE j == r \o y
  <2>4. j \in Seq(Nat) /\ Len(j) = 2 * x /\ (\A b \in 1 .. m : j[b] = r[b]) /\ \A b \in 1 .. 2 : j[m + b] = y[b]
    <3>1. m + 2 = 2 * x
      BY <2>1
    <3> HIDE DEF m
    <3>2. /\ j \in Seq(Nat) /\ Len(j) = m + 2
          /\ (\A b \in 1 .. m : j[b] = r[b]) /\ \A b \in 1 .. 2 : j[m + b] = y[b]
      <4>1. Len(r) = m /\ Len(y) = 2 /\ r \in Seq(Nat) /\ y \in Seq(Nat)
        BY <2>2, <2>3 DEF m
      <4>2. /\ j \in Seq(Nat) /\ Len(j) = Len(r) + Len(y)
            /\ \A b \in 1 .. Len(r) : j[b] = r[b]
            /\ \A b \in 1 .. Len(y) : j[Len(r) + b] = y[b]
        <5>1. r \in Seq(Nat) /\ y \in Seq(Nat)
          BY <4>1
        <5> QED
          BY <5>1, Joined
      <4> QED
        BY <4>1, <4>2
    <3> QED
      BY <3>1, <3>2
  <2> HIDE DEF j
  <2>5. \A b \in 1 .. 2 * (x - 1) : j[b] = Cell(b)
    BY <2>2, <2>4
  <2>6. \A b \in 1 .. 2 : j[2 * (x - 1) + b] = Cell(2 * (x - 1) + b)
    <3>1. \A b \in 1 .. 2 : j[2 * (x - 1) + b] = y[b]
      BY <2>4
    <3>2. \A b \in 1 .. 2 : (x - 1) * 2 + b = 2 * (x - 1) + b
      BY <2>1
    <3> QED
      BY <1>3, <2>1, <3>1, <3>2 DEF y
  <2>7. \A b \in 1 .. 2 * x : b \in 1 .. 2 * (x - 1) \/ \E c \in 1 .. 2 : b = 2 * (x - 1) + c
    <3> SUFFICES ASSUME NEW b \in 1 .. 2 * x, b \notin 1 .. 2 * (x - 1)
                 PROVE  \E c \in 1 .. 2 : b = 2 * (x - 1) + c
      OBVIOUS
    <3>1. b - 2 * (x - 1) \in 1 .. 2 /\ b = 2 * (x - 1) + (b - 2 * (x - 1))
      BY <2>1
    <3> QED
      BY <3>1
  <2> HIDE DEF j
  <2>8. \A b \in 1 .. 2 * x : j[b] = Cell(b)
    BY <2>5, <2>6, <2>7
  <2>9. j = Line(x)
    <3>1. DOMAIN j = 1 .. 2 * x /\ j = [b \in DOMAIN j |-> j[b]]
      BY <2>4
    <3> QED
      BY <2>8, <3>1
  <2> QED
    BY <2>9 DEF j, r, y
<1> HIDE DEF Line
<1>8. h = [x \in 1 .. n |-> IF x = 1 THEN q[x] ELSE h[x - 1] \o q[x]]
  <2>1. \A x \in 1 .. n : x # 1 => x \in 2 .. n /\ x - 1 \in 1 .. n
    BY <1>1
  <2>2. \A x \in 1 .. n : h[x] = IF x = 1 THEN q[x] ELSE h[x - 1] \o q[x]
    BY <1>6, <1>7, <2>1
  <2> QED
    BY <2>2
<1>9. it = [x \in 1 .. n |-> IF x = 1 THEN q[x] ELSE it[x - 1] \o q[x]]
  <2> HIDE DEF h, n
  <2> QED
    BY <1>8
<1> HIDE DEF it, h
<1> DEFINE S == {x \in 0 .. n : x = 0 \/ it[x] = Line(x)}
<1>10. 0 \in S
  BY <1>1
<1>11. ASSUME NEW x \in 0 .. n - 1, x \in S PROVE x + 1 \in S
  <2>1. x + 1 \in 1 .. n /\ x + 1 \in 0 .. n /\ (x + 1) - 1 = x /\ (x = 0 \/ (x + 1 \in 2 .. n /\ x + 1 # 1))
    BY <1>1
  <2>2. CASE x = 0
    <3>1. it[1] = q[1]
      BY <1>1, <1>9
    <3> QED
      BY <1>6, <2>1, <2>2, <3>1
  <2>3. CASE x # 0
    <3>1. it[x + 1] = it[x] \o q[x + 1]
      BY <1>9, <2>1, <2>3
    <3>2. it[x] = Line(x)
      BY <1>11, <2>3
    <3>3. Line(x + 1) = Line(x) \o q[x + 1]
      BY <1>7, <2>1, <2>3
    <3> QED
      BY <2>1, <3>1, <3>2, <3>3
  <2> QED
    BY <2>2, <2>3
<1>12. \A x \in 0 .. n : x \in S
  <2> HIDE DEF S
  <2> QED
    BY <1>1, <1>10, <1>11, Counting
<1>13. it[n] = Line(n)
  <2>1. n \in 0 .. n /\ n # 0
    BY <1>1
  <2> QED
    BY <1>12, <2>1
<1>14. \A b \in 1 .. 2 * n : Line(n)[b] = Cell(b)
  BY DEF Line
<1>15. \A c \in 1 .. n : \A b \in 1 .. 2 : (c - 1) * 2 + b \in 1 .. 2 * n
  BY <1>1
<1>16. n \in 1 .. n
  BY <1>1
<1> HIDE DEF n
<1>17. FlattenSeq(q) \in Seq(Nat) /\ Len(FlattenSeq(q)) = 2 * n
  BY <1>2, <1>5, <1>13, <1>16
<1>18. \A c \in 1 .. n : \A b \in 1 .. 2 : FlattenSeq(q)[(c - 1) * 2 + b] = q[c][b]
  BY <1>2, <1>3, <1>13, <1>14, <1>15
<1> QED
  BY <1>17, <1>18 DEF n

(* A dumped tensor: its fields, its name and its records. *)
LEMMA Dumped ==
  ASSUME NEW t \in Tensor
  PROVE  /\ TensorDump(t)[1] = Zero
         /\ TensorDump(t)[2] = <<"tensor", 2, 2 + Len(t.name), t.dim, Len(t.qinfo)>>
         /\ \A b \in 1 .. Len(t.name) : TensorDump(t)[2 + b] = Byte(t.name[b])
         /\ \A c \in 1 .. Len(t.qinfo) : \A b \in 1 .. 2 :
              TensorDump(t)[2 + Len(t.name) + (c - 1) * 2 + b] = Byte(t.qinfo[c][b])
<1> DEFINE f == FlattenSeq(t.qinfo)
           w == t.name
           l == Len(w)
           m == Len(t.qinfo)
           bytes == Bytes(t)
           head == << Zero, <<"tensor", 2, 2 + l, t.dim, m>> >>
           tail == [b \in DOMAIN bytes |-> Byte(bytes[b])]
           V == {head[1], head[2]} \cup {Byte(b) : b \in Nat}
           d == TensorDump(t)
<1>1. /\ w \in Seq(Nat) /\ l \in Nat
      /\ f \in Seq(Nat) /\ Len(f) = 2 * m /\ m \in Nat
      /\ \A c \in 1 .. m : \A b \in 1 .. 2 : f[(c - 1) * 2 + b] = t.qinfo[c][b]
  <2>1. t.qinfo \in Seq([1 .. QuantCells -> Nat]) /\ Len(t.qinfo) > 0 /\ Len(t.qinfo) \in Nat
    BY TensorFacts
  <2>2. /\ f \in Seq(Nat) /\ Len(f) = 2 * Len(t.qinfo)
        /\ \A c \in 1 .. Len(t.qinfo) : \A b \in 1 .. 2 : f[(c - 1) * 2 + b] = t.qinfo[c][b]
    BY <2>1, Flattened
  <2>3. t.name \in Seq(Nat \ {0})
    BY TensorFacts
  <2>4. t.name \in Seq(Nat) /\ Len(t.name) \in Nat
    BY <2>3
  <2> HIDE DEF f
  <2> QED
    BY <2>1, <2>2, <2>4
<1>2. bytes = w \o f
  BY DEF Bytes
<1>3. d = head \o tail
  BY DEF TensorDump, TensorCells
<1> HIDE DEF f, bytes, d
<1>4. /\ bytes \in Seq(Nat) /\ Len(bytes) = l + 2 * m
      /\ \A b \in 1 .. l : bytes[b] = w[b]
      /\ \A b \in 1 .. 2 * m : bytes[l + b] = f[b]
  <2> HIDE DEF w, m
  <2>1. /\ bytes \in Seq(Nat) /\ Len(bytes) = Len(w) + Len(f)
        /\ \A b \in 1 .. Len(w) : bytes[b] = w[b]
        /\ \A b \in 1 .. Len(f) : bytes[Len(w) + b] = f[b]
    <3>1. w \in Seq(Nat) /\ f \in Seq(Nat)
      BY <1>1
    <3> HIDE DEF l
    <3> QED
      BY <1>2, <3>1, Joined
  <2>2. 2 * m \in Nat /\ Len(f) = 2 * m /\ l \in Nat
    BY <1>1
  <2> QED
    BY <2>1, <2>2
<1>5. tail \in Seq(V) /\ Len(tail) = Len(bytes) /\ \A b \in 1 .. Len(bytes) : tail[b] = Byte(bytes[b])
  <2>1. DOMAIN bytes = 1 .. Len(bytes) /\ Len(bytes) \in Nat /\ \A b \in DOMAIN bytes : bytes[b] \in Nat
    <3>1. bytes \in Seq(Nat)
      BY <1>4
    <3> QED
      BY <3>1
  <2>2. \A b \in Nat : Byte(b) \in V
    OBVIOUS
  <2> HIDE DEF V
  <2>3. tail \in [1 .. Len(bytes) -> V]
    BY <2>1, <2>2
  <2> QED
    BY <2>1, <2>3
<1>6. head \in Seq(V) /\ Len(head) = 2
  <2>1. head[1] \in V /\ head[2] \in V
    BY Zenon
  <2> HIDE DEF V
  <2> QED
    BY <2>1
<1>7. head[1] = Zero /\ head[2] = <<"tensor", 2, 2 + l, t.dim, m>>
  OBVIOUS
<1> HIDE DEF head, tail, V
<1>8. /\ d[1] = head[1] /\ d[2] = head[2]
      /\ \A b \in 1 .. Len(bytes) : d[2 + b] = tail[b]
  <2>0. /\ \A b \in 1 .. Len(head) : d[b] = head[b]
        /\ \A b \in 1 .. Len(tail) : d[Len(head) + b] = tail[b]
    <3>1. head \in Seq(V) /\ tail \in Seq(V)
      BY <1>5, <1>6
    <3> QED
      BY <1>3, <3>1, Joined
  <2>1. /\ \A b \in 1 .. 2 : d[b] = head[b]
        /\ \A b \in 1 .. Len(tail) : d[2 + b] = tail[b]
    BY <1>6, <2>0
  <2> QED
    BY <1>5, <2>1
<1> HIDE DEF w, l, m
<1>9. \A b \in 1 .. l : d[2 + b] = Byte(w[b])
  <2>1. \A b \in 1 .. l : b \in 1 .. Len(bytes)
    BY <1>1, <1>4
  <2> QED
    BY <1>4, <1>5, <1>8, <2>1
<1>10. ASSUME NEW c \in 1 .. m, NEW b \in 1 .. 2
       PROVE d[2 + l + (c - 1) * 2 + b] = Byte(t.qinfo[c][b])
  <2> DEFINE p == (c - 1) * 2 + b
  <2>1. /\ p \in 1 .. 2 * m /\ l + p \in 1 .. l + 2 * m /\ 2 + (l + p) = 2 + l + (c - 1) * 2 + b
    BY <1>1
  <2>2. f[p] = t.qinfo[c][b]
    BY <1>1
  <2> HIDE DEF p
  <2>3. d[2 + (l + p)] = Byte(bytes[l + p])
    BY <1>4, <1>5, <1>8, <2>1
  <2>4. bytes[l + p] = f[p]
    BY <1>4, <2>1
  <2> QED
    BY <2>1, <2>2, <2>3, <2>4
<1> QED
  BY <1>7, <1>8, <1>9, <1>10 DEF d, w, l, m
-----------------------------------------------------------------------------
(* The room that the first n tensors of a sequence take, for every n.       *)
IsSum(f, ts) ==
  /\ f \in [0 .. Len(ts) -> Nat] /\ f[0] = 0
  /\ \A n \in 1 .. Len(ts) : f[n] = f[n - 1] + TensorSize(ts[n])

LEMMA RoomIs ==
  ASSUME NEW ts \in Seq(Tensor)
  PROVE  \E f : IsSum(f, ts) /\ Room(ts) = f[Len(ts)]
<1> DEFINE n == Len(ts)
           it == CHOOSE f : f = [x \in SUBSET (1 .. n) |->
                                   IF x = {} THEN 0 ELSE f[x \ {Max(x)}] + TensorSize(ts[Max(x)])]
           F == [x \in (1 .. n) \X Nat |-> x[2] + TensorSize(ts[x[1]])]
           g == [x \in 0 .. n |-> it[1 .. x]]
<1>1. n \in Nat /\ DOMAIN ts = 1 .. n /\ \A x \in 1 .. n : TensorSize(ts[x]) \in Nat
  <2>1. n \in Nat /\ DOMAIN ts = 1 .. n /\ \A x \in 1 .. n : ts[x] \in Tensor
    OBVIOUS
  <2> HIDE DEF n
  <2> QED
    BY <2>1, TensorFacts
<1>2. Room(ts) = it[1 .. n]
  BY <1>1, Zenon DEF Room, FoldLeft, MapThenFoldSet
<1>3. F \in [(1 .. n) \X Nat -> Nat] /\ \A v \in Nat, x \in 1 .. n : F[<<x, v>>] = v + TensorSize(ts[x])
  BY <1>1
<1> HIDE DEF F, n
<1>4. PICK h : IsFold(h, Nat, 0, n, F)
  <2>1. n \in Nat /\ 0 \in Nat /\ F \in Steps(Nat, n)
    BY <1>1, <1>3 DEF Steps
  <2> HIDE DEF it
  <2> QED
    BY <2>1, FoldExists
<1>5. h = [x \in SUBSET (1 .. n) |-> IF x = {} THEN 0 ELSE h[x \ {Max(x)}] + TensorSize(ts[Max(x)])]
  <2>1. ASSUME NEW x \in SUBSET (1 .. n), x # {}
        PROVE  h[x] = h[x \ {Max(x)}] + TensorSize(ts[Max(x)])
    <3>1. Max(x) \in 1 .. n /\ x \ {Max(x)} \in SUBSET (1 .. n)
      BY <1>1, <2>1, MaxFacts
    <3> QED
      BY <1>3, <1>4, <2>1, <3>1 DEF IsFold
  <2>2. h[{}] = 0
    BY <1>4 DEF IsFold
  <2> QED
    BY <1>4, <2>1, <2>2 DEF IsFold
<1>6. it = [x \in SUBSET (1 .. n) |-> IF x = {} THEN 0 ELSE it[x \ {Max(x)}] + TensorSize(ts[Max(x)])]
  BY <1>5
<1> HIDE DEF it
<1>7. it[1 .. 0] = 0 /\ \A x \in 1 .. n : it[1 .. x] = it[1 .. x - 1] + TensorSize(ts[x])
  <2>1. it[1 .. 0] = 0
    <3>1. 1 .. 0 = {} /\ {} \in SUBSET (1 .. n)
      OBVIOUS
    <3> QED
      BY <1>6, <3>1
  <2>2. ASSUME NEW x \in 1 .. n PROVE it[1 .. x] = it[1 .. x - 1] + TensorSize(ts[x])
    <3>1. /\ 1 .. x \in SUBSET (1 .. n) /\ 1 .. x # {}
          /\ Max(1 .. x) = x /\ (1 .. x) \ {x} = 1 .. x - 1
      BY <1>1, Prefix
    <3> DEFINE P == 1 .. x
    <3>2. it[P] = it[P \ {Max(P)}] + TensorSize(ts[Max(P)])
      <4> HIDE DEF P
      <4>1. P \in SUBSET (1 .. n) /\ P # {}
        BY <3>1 DEF P
      <4> QED
        BY <1>6, <4>1
    <3> QED
      BY <3>1, <3>2
  <2> QED
    BY <2>1, <2>2
<1> DEFINE S == {x \in 0 .. n : it[1 .. x] \in Nat}
<1>8. \A x \in 0 .. n : x \in S
  <2>1. 0 \in S
    BY <1>1, <1>7
  <2>2. ASSUME NEW x \in 0 .. n - 1, x \in S PROVE x + 1 \in S
    <3>1. x + 1 \in 1 .. n /\ x + 1 \in 0 .. n /\ (x + 1) - 1 = x
      BY <1>1
    <3> QED
      BY <1>1, <1>7, <2>2, <3>1
  <2> HIDE DEF S
  <2> QED
    BY <1>1, <2>1, <2>2, Counting
<1>9. IsSum(g, ts) /\ g[n] = Room(ts)
  <2>1. g \in [0 .. n -> Nat] /\ g[0] = 0 /\ g[n] = Room(ts)
    BY <1>1, <1>2, <1>7, <1>8
  <2>2. \A x \in 1 .. n : x \in 0 .. n /\ x - 1 \in 0 .. n
    BY <1>1
  <2>3. \A x \in 1 .. n : g[x] = g[x - 1] + TensorSize(ts[x])
    BY <1>7, <2>2
  <2> HIDE DEF g
  <2> QED
    BY <2>1, <2>3 DEF IsSum, n
<1> HIDE DEF g
<1> QED
  BY <1>9 DEF n

(* Sums of sequences that begin in the same way do. *)
LEMMA SumsAgree ==
  ASSUME NEW a, NEW c, NEW f, NEW h, IsSum(f, a), IsSum(h, c), NEW m \in Nat,
         Len(a) \in Nat, Len(c) \in Nat, m <= Len(a), m <= Len(c), \A n \in 1 .. m : a[n] = c[n]
  PROVE  f[m] = h[m]
<1> DEFINE S == {n \in 0 .. m : f[n] = h[n]}
<1>1. 0 \in S
  BY DEF IsSum
<1>2. ASSUME NEW n \in 0 .. m - 1, n \in S PROVE n + 1 \in S
  <2>1. n + 1 \in 1 .. m /\ n + 1 \in 0 .. m /\ (n + 1) - 1 = n /\ n + 1 \in 1 .. Len(a) /\ n + 1 \in 1 .. Len(c)
    OBVIOUS
  <2>2. f[n + 1] = f[n] + TensorSize(a[n + 1]) /\ h[n + 1] = h[n] + TensorSize(c[n + 1])
    BY <2>1 DEF IsSum
  <2> QED
    BY <1>2, <2>1, <2>2
<1>3. \A n \in 0 .. m : n \in S
  <2> HIDE DEF S
  <2> QED
    BY <1>1, <1>2, Counting
<1>4. m \in 0 .. m
  OBVIOUS
<1> QED
  BY <1>3, <1>4
-----------------------------------------------------------------------------
(* The block of a session: how much room the first n tensors take, where    *)
(* the n-th is, where the pointer to it is, and how large the block is.     *)
Total(x)     == Len(x.in) + Len(x.out)
Sum(x)       == CHOOSE f : IsSum(f, Tensors(x))
SizeOf(x, n) == TensorSize(Tensors(x)[n])
Place(x, n)  == 2 + Len(x.in) + Sum(x)[n - 1] + (IF n <= Len(x.in) THEN 0 ELSE Len(x.out))
SlotOf(x, n) == IF n <= Len(x.in) THEN 1 + n ELSE 1 + Sum(x)[Len(x.in)] + n
Full(x)      == 2 + Total(x) + Sum(x)[Total(x)]

LEMMA SessionFacts ==
  ASSUME NEW x \in Session
  PROVE  /\ x.in \in Seq(Tensor) /\ x.out \in Seq(Tensor)
         /\ Len(x.in) \in Nat /\ Len(x.out) \in Nat /\ Total(x) \in Nat
         /\ Tensors(x) \in Seq(Tensor) /\ Len(Tensors(x)) = Total(x)
         /\ \A n \in 1 .. Total(x) : Tensors(x)[n] \in Tensor /\ SizeOf(x, n) \in Nat /\ SizeOf(x, n) >= 4
         /\ \A n \in 1 .. Len(x.in) : Tensors(x)[n] = x.in[n]
         /\ \A n \in 1 .. Len(x.out) : Tensors(x)[Len(x.in) + n] = x.out[n]
<1> DEFINE a == x.in
           c == x.out
           ts == Tensors(x)
           l == Len(a)
           m == Len(c)
<1>1. a \in Seq(Tensor) /\ c \in Seq(Tensor)
  <2>1. x \in [in : Seq(Tensor), out : Seq(Tensor), api : STRING, mode : STRING]
    BY SessionAssumption
  <2> QED
    BY <2>1
<1>2. ts = a \o c
  BY DEF Tensors
<1> HIDE DEF a, c, ts
<1>3. /\ ts \in Seq(Tensor) /\ Len(ts) = l + m /\ l \in Nat /\ m \in Nat
      /\ (\A n \in 1 .. l : ts[n] = a[n]) /\ \A n \in 1 .. m : ts[l + n] = c[n]
  BY <1>1, <1>2, Joined
<1>4. \A n \in 1 .. l + m : ts[n] \in Tensor
  <2>1. \A n \in 1 .. Len(ts) : ts[n] \in Tensor
    <3>1. ts \in Seq(Tensor)
      BY <1>3
    <3> QED
      BY <3>1
  <2> HIDE DEF l, m
  <2> QED
    BY <1>3, <2>1
<1>5. Total(x) = l + m /\ \A n : SizeOf(x, n) = TensorSize(ts[n])
  BY DEF Total, SizeOf, a, c, ts
<1> HIDE DEF l, m
<1>6. \A t \in Tensor : TensorSize(t) \in Nat /\ TensorSize(t) >= 4
  <2> SUFFICES ASSUME NEW t \in Tensor PROVE TensorSize(t) \in Nat /\ TensorSize(t) >= 4
    OBVIOUS
  <2> DEFINE p == Len(t.name)
             q == Len(t.qinfo)
  <2>1. p \in Nat /\ q \in Nat /\ q > 0 /\ TensorSize(t) = 2 + p + 2 * q
    BY TensorFacts
  <2> HIDE DEF p, q
  <2> QED
    BY <2>1
<1>7. l + m \in Nat
  BY <1>3
<1>8. \A n \in 1 .. Total(x) : ts[n] \in Tensor /\ SizeOf(x, n) \in Nat /\ SizeOf(x, n) >= 4
  BY <1>4, <1>5, <1>6
<1> QED
  BY <1>1, <1>3, <1>5, <1>7, <1>8 DEF a, c, ts, l, m

LEMMA SumFacts ==
  ASSUME NEW x \in Session
  PROVE  /\ \A n \in 0 .. Total(x) : Sum(x)[n] \in Nat
         /\ Sum(x)[0] = 0
         /\ \A n \in 1 .. Total(x) : Sum(x)[n] = Sum(x)[n - 1] + SizeOf(x, n)
         /\ Room(x.in) = Sum(x)[Len(x.in)]
         /\ Full(x) < Word
<1> DEFINE f == Sum(x)
           ts == Tensors(x)
           l == Len(x.in)
<1>1. /\ ts \in Seq(Tensor) /\ Len(ts) = Total(x) /\ Total(x) \in Nat /\ l \in Nat /\ l <= Total(x)
      /\ x.in \in Seq(Tensor) /\ \A n \in 1 .. l : ts[n] = x.in[n]
  <2>1. /\ ts \in Seq(Tensor) /\ Len(ts) = Total(x) /\ Total(x) \in Nat /\ Len(x.in) \in Nat
        /\ x.in \in Seq(Tensor) /\ \A n \in 1 .. l : ts[n] = x.in[n] /\ Len(x.out) \in Nat
    BY SessionFacts
  <2> DEFINE m == Len(x.out)
  <2>2. l \in Nat /\ m \in Nat /\ Total(x) = l + m
    BY <2>1 DEF Total
  <2> HIDE DEF l, m, ts
  <2>3. l <= Total(x)
    BY <2>2
  <2> QED
    BY <2>1, <2>2, <2>3 DEF l
<1> HIDE DEF ts
<1>2. IsSum(f, ts) /\ Room(ts) = f[Len(ts)]
  <2>1. PICK h : IsSum(h, ts) /\ Room(ts) = h[Len(ts)]
    BY <1>1, RoomIs
  <2>2. IsSum(f, ts)
    <3>1. f = CHOOSE y : IsSum(y, ts)
      BY DEF Sum, ts
    <3> HIDE DEF f
    <3> QED
      BY <2>1, <3>1, Zenon
  <2>3. Len(ts) \in Nat
    BY <1>1
  <2> HIDE DEF f
  <2>4. f[Len(ts)] = h[Len(ts)]
    <3>1. Len(ts) <= Len(ts) /\ \A n \in 1 .. Len(ts) : ts[n] = ts[n]
      BY <2>3
    <3> QED
      BY <2>1, <2>2, <2>3, <3>1, SumsAgree
  <2> QED
    BY <2>1, <2>2, <2>4
<1>3. Room(x.in) = f[l]
  <2>1. PICK h : IsSum(h, x.in) /\ Room(x.in) = h[l]
    BY <1>1, RoomIs
  <2>2. l <= Len(x.in) /\ Len(x.in) \in Nat /\ Len(ts) \in Nat /\ l <= Len(ts) /\ \A n \in 1 .. l : x.in[n] = ts[n]
    BY <1>1
  <2> HIDE DEF f, l
  <2>3. h[l] = f[l]
    BY <1>1, <1>2, <2>1, <2>2, SumsAgree
  <2> QED
    BY <2>1, <2>3
<1> HIDE DEF f
<1>4. Full(x) < Word
  <2>1. SessionCells + Len(Tensors(x)) + Room(Tensors(x)) < Word
    BY SessionAssumption
  <2> QED
    BY <1>1, <1>2, <2>1 DEF Full, SessionCells, f, ts
<1>5. /\ f \in [0 .. Total(x) -> Nat] /\ f[0] = 0
      /\ \A n \in 1 .. Total(x) : f[n] = f[n - 1] + SizeOf(x, n)
  BY <1>1, <1>2 DEF IsSum, SizeOf, ts
<1> QED
  BY <1>3, <1>4, <1>5 DEF f

LEMMA Growing ==
  ASSUME NEW x \in Session, NEW a \in Nat, NEW c \in Nat, a < c, c <= Total(x)
  PROVE  Sum(x)[a] + SizeOf(x, a + 1) <= Sum(x)[c]
<1> DEFINE f == Sum(x)
           n == Total(x)
           S == {d \in 0 .. c - a - 1 : f[a] + SizeOf(x, a + 1) <= f[a + 1 + d]}
<1>1. /\ n \in Nat /\ \A m \in 1 .. n : SizeOf(x, m) \in Nat
      /\ (\A m \in 0 .. n : f[m] \in Nat) /\ \A m \in 1 .. n : f[m] = f[m - 1] + SizeOf(x, m)
  BY SessionFacts, SumFacts
<1> HIDE DEF f, n
<1>2. /\ c - a - 1 \in Nat /\ c <= n
      /\ \A d \in 0 .. c - a - 1 : a + 1 + d \in 1 .. n /\ a + 1 + d \in 0 .. n
      /\ a \in 0 .. n
  BY <1>1 DEF n
<1>3. 0 \in S
  <2>1. a + 1 \in 1 .. n /\ (a + 1) - 1 = a /\ a + 1 + 0 = a + 1 /\ 0 \in 0 .. c - a - 1
    BY <1>2
  <2> QED
    BY <1>1, <1>2, <2>1
<1>4. ASSUME NEW d \in 0 .. (c - a - 1) - 1, d \in S PROVE d + 1 \in S
  <2>1. /\ a + 1 + (d + 1) \in 1 .. n /\ (a + 1 + (d + 1)) - 1 = a + 1 + d /\ d + 1 \in 0 .. c - a - 1
        /\ a + 1 + d \in 0 .. n /\ a + 1 \in 1 .. n
    BY <1>1, <1>2
  <2>2. f[a + 1 + (d + 1)] = f[a + 1 + d] + SizeOf(x, a + 1 + (d + 1))
    BY <1>1, <2>1
  <2>3. /\ f[a + 1 + d] \in Nat /\ SizeOf(x, a + 1 + (d + 1)) \in Nat /\ f[a] \in Nat /\ SizeOf(x, a + 1) \in Nat
    BY <1>1, <1>2, <2>1
  <2>4. f[a] + SizeOf(x, a + 1) <= f[a + 1 + d]
    BY <1>4
  <2>5. f[a] + SizeOf(x, a + 1) <= f[a + 1 + (d + 1)]
    BY <2>2, <2>3, <2>4
  <2> QED
    BY <2>1, <2>5
<1>5. \A d \in 0 .. c - a - 1 : d \in S
  <2> HIDE DEF S
  <2> QED
    BY <1>2, <1>3, <1>4, Counting
<1>6. c - a - 1 \in 0 .. c - a - 1 /\ a + 1 + (c - a - 1) = c
  BY <1>2
<1>7. f[a] + SizeOf(x, a + 1) <= f[a + 1 + (c - a - 1)]
  BY <1>5, <1>6
<1> QED
  BY <1>6, <1>7 DEF f

LEMMA Monotone ==
  ASSUME NEW x \in Session, NEW a \in Nat, NEW c \in Nat, a <= c, c <= Total(x)
  PROVE  Sum(x)[a] <= Sum(x)[c]
<1>1. /\ Total(x) \in Nat /\ \A n \in 1 .. Total(x) : SizeOf(x, n) \in Nat
      /\ \A n \in 0 .. Total(x) : Sum(x)[n] \in Nat
  BY SessionFacts, SumFacts
<1>2. CASE a = c
  <2>1. a \in 0 .. Total(x)
    BY <1>1
  <2>2. Sum(x)[a] \in Nat
    BY <1>1, <2>1
  <2> DEFINE v == Sum(x)[a]
  <2> HIDE DEF v
  <2>3. v <= v
    BY <2>2 DEF v
  <2> QED
    BY <1>2, <2>3 DEF v
<1>3. CASE a # c
  <2>1. a < c /\ a \in 0 .. Total(x) /\ c \in 0 .. Total(x) /\ a + 1 \in 1 .. Total(x)
    BY <1>1, <1>3
  <2> DEFINE v == Sum(x)[a]
             w == Sum(x)[c]
             y == SizeOf(x, a + 1)
  <2>2. v + y <= w
    BY <2>1, Growing
  <2>3. v \in Nat /\ w \in Nat /\ y \in Nat
    BY <1>1, <2>1
  <2> HIDE DEF v, w, y
  <2>4. v <= w
    BY <2>2, <2>3
  <2> QED
    BY <2>4 DEF v, w
<1> QED
  BY <1>2, <1>3

(* The parts of a block are inside it and apart. *)
LEMMA PartsInside ==
  ASSUME NEW x \in Session, NEW n \in 1 .. Total(x)
  PROVE  /\ Place(x, n) \in Nat /\ Place(x, n) >= 2 /\ Place(x, n) + SizeOf(x, n) <= Full(x)
         /\ SlotOf(x, n) \in Nat /\ SlotOf(x, n) >= 2 /\ SlotOf(x, n) < Full(x)
         /\ Full(x) \in Nat /\ Full(x) >= 2
<1> DEFINE l == Len(x.in)
           m == Len(x.out)
           p == Sum(x)[n - 1]
           q == Sum(x)[n]
           r == Sum(x)[l]
           e == Sum(x)[Total(x)]
           y == SizeOf(x, n)
<1>1. l \in Nat /\ m \in Nat /\ Total(x) \in Nat /\ y \in Nat /\ y >= 4
  BY SessionFacts
<1>2. Total(x) = l + m
  BY DEF Total
<1> HIDE DEF l, m
<1>3. n - 1 \in 0 .. Total(x) /\ n \in 0 .. Total(x) /\ l \in 0 .. Total(x) /\ Total(x) \in 0 .. Total(x)
  BY <1>1, <1>2
<1>4. p \in Nat /\ q \in Nat /\ r \in Nat /\ e \in Nat /\ q = p + y
  BY <1>3, SumFacts
<1>5. q <= e /\ r <= e
  <2>1. n <= Total(x) /\ l <= Total(x) /\ n \in Nat /\ l \in Nat /\ Total(x) \in Nat /\ Total(x) <= Total(x)
    BY <1>1, <1>3
  <2> QED
    BY <2>1, Monotone
<1>6. /\ Place(x, n) = 2 + l + p + (IF n <= l THEN 0 ELSE m)
      /\ SlotOf(x, n) = (IF n <= l THEN 1 + n ELSE 1 + r + n)
      /\ Full(x) = 2 + Total(x) + e
  BY DEF Place, SlotOf, Full, l, m
<1> HIDE DEF p, q, r, e, y
<1>7. Place(x, n) \in Nat /\ Place(x, n) >= 2 /\ Place(x, n) + y <= Full(x)
  BY <1>1, <1>2, <1>4, <1>5, <1>6
<1>8. SlotOf(x, n) \in Nat /\ SlotOf(x, n) >= 2 /\ SlotOf(x, n) < Full(x)
  BY <1>1, <1>2, <1>4, <1>5, <1>6
<1>9. Full(x) \in Nat /\ Full(x) >= 2
  BY <1>1, <1>4, <1>6
<1> QED
  BY <1>7, <1>8, <1>9 DEF y

LEMMA PartsApart ==
  ASSUME NEW x \in Session, NEW a \in 1 .. Total(x), NEW c \in 1 .. Total(x)
  PROVE  /\ a < c => Place(x, a) + SizeOf(x, a) <= Place(x, c)
         /\ a # c => SlotOf(x, a) # SlotOf(x, c)
         /\ SlotOf(x, a) < Place(x, c) \/ SlotOf(x, a) >= Place(x, c) + SizeOf(x, c)
<1> DEFINE l == Len(x.in)
           m == Len(x.out)
           p == Sum(x)[a - 1]
           q == Sum(x)[c - 1]
           r == Sum(x)[l]
           y == SizeOf(x, a)
           z == SizeOf(x, c)
<1>1. /\ l \in Nat /\ m \in Nat /\ Total(x) \in Nat
      /\ y \in Nat /\ y >= 4 /\ z \in Nat /\ z >= 4
  BY SessionFacts
<1>2. Total(x) = l + m
  BY DEF Total
<1> HIDE DEF l, m
<1>3. /\ a - 1 \in 0 .. Total(x) /\ c - 1 \in 0 .. Total(x) /\ l \in 0 .. Total(x)
      /\ (a - 1) + 1 = a /\ (c - 1) + 1 = c /\ a - 1 \in Nat /\ c - 1 \in Nat
      /\ a - 1 <= Total(x) /\ c - 1 <= Total(x) /\ l <= Total(x)
  BY <1>1, <1>2
<1>4. p \in Nat /\ q \in Nat /\ r \in Nat
  BY <1>3, SumFacts
<1>5. a < c => p + y <= q
  <2>1. a < c => a - 1 < c - 1
    BY <1>1
  <2> QED
    BY <1>3, <2>1, Growing
<1>6. c <= l => q + z <= r
  <2>1. c <= l => c - 1 < l
    BY <1>1
  <2> QED
    BY <1>1, <1>3, <2>1, Growing
<1>7. c > l => r <= q
  <2>1. c > l => l <= c - 1
    BY <1>1
  <2> QED
    BY <1>1, <1>3, <2>1, Monotone
<1>8. /\ Place(x, a) = 2 + l + p + (IF a <= l THEN 0 ELSE m)
      /\ Place(x, c) = 2 + l + q + (IF c <= l THEN 0 ELSE m)
      /\ SlotOf(x, a) = (IF a <= l THEN 1 + a ELSE 1 + r + a)
      /\ SlotOf(x, c) = (IF c <= l THEN 1 + c ELSE 1 + r + c)
  BY DEF Place, SlotOf, l, m
<1> HIDE DEF p, q, r, y, z
<1>9. /\ a \in Nat /\ a > 0 /\ c \in Nat /\ c > 0 /\ a <= l + m /\ c <= l + m
  BY <1>1, <1>2
<1>10. a < c => Place(x, a) + y <= Place(x, c)
  BY <1>1, <1>4, <1>5, <1>8, <1>9
<1>11. a # c => SlotOf(x, a) # SlotOf(x, c)
  BY <1>1, <1>4, <1>8, <1>9
<1>12. SlotOf(x, a) < Place(x, c) \/ SlotOf(x, a) >= Place(x, c) + z
  <2>1. CASE c <= l
    BY <1>1, <1>4, <1>6, <1>8, <1>9, <2>1
  <2>2. CASE c > l
    BY <1>1, <1>4, <1>7, <1>8, <1>9, <2>2
  <2> QED
    BY <1>1, <1>9, <2>1, <2>2
<1> QED
  BY <1>10, <1>11, <1>12 DEF y, z
-----------------------------------------------------------------------------
(* read_offset gives back what is in the image; an offset to which the      *)
(* address was added is another one, unless the address is a multiple of    *)
(* Word.                                                                    *)
LEMMA Remainder ==
  ASSUME NEW m \in Nat \ {0}, NEW a \in 0 .. m - 1, NEW c \in 0 .. m - 1
  PROVE  /\ a % m = a /\ (c + a) % m \in 0 .. m - 1
         /\ (c + a) % m = a <=> c = 0
<1> DEFINE q == a \div m
           r == a % m
           v == (c + a) \div m
           w == (c + a) % m
<1>1. a = m * q + r /\ c + a = m * v + w /\ q \in Int /\ v \in Int
  OBVIOUS
<1>2. r \in 0 .. m - 1 /\ w \in 0 .. m - 1
  OBVIOUS
<1> HIDE DEF q, r, v, w
<1>3. \A d \in Int : (d >= 1 => m * d >= m) /\ (d <= -1 => m * d <= -m)
  <2> SUFFICES ASSUME NEW d \in Int PROVE (d >= 1 => m * d >= m) /\ (d <= -1 => m * d <= -m)
    OBVIOUS
  <2>1. d >= 1 => m * d >= m * 1
    OBVIOUS
  <2>2. d <= -1 => m * d <= m * (-1)
    OBVIOUS
  <2> QED
    BY <2>1, <2>2
<1>4. q = 0 /\ r = a
  <2>1. ~(q >= 1) /\ ~(q <= -1)
    BY <1>1, <1>2, <1>3
  <2>2. q = 0
    BY <1>1, <2>1
  <2> QED
    BY <1>1, <1>2, <2>2
<1>5. w = a <=> c = 0
  <2>1. ASSUME w = a PROVE c = 0
    <3>1. c = m * v
      BY <1>1, <1>2, <2>1
    <3>2. ~(v >= 1) /\ ~(v <= -1)
      BY <1>1, <1>3, <3>1
    <3>3. v = 0
      BY <1>1, <3>2
    <3> QED
      BY <3>1, <3>3
  <2>2. ASSUME c = 0 PROVE w = a
    <3>1. c + a = a
      BY <2>2
    <3> QED
      BY <1>4, <3>1 DEF w, r
  <2> QED
    BY <2>1, <2>2
<1> QED
  BY <1>2, <1>4, <1>5 DEF r, w

LEMMA OffsetIs ==
  ASSUME NEW p \in Nat, p < Word
  PROVE  Offset(p) = p
<1>1. Word \in Nat \ {0} /\ p \in 0 .. Word - 1
  BY WordAssumption
<1> QED
  BY <1>1, Remainder DEF Offset

(* A string reaches as far as there is no zero. *)
LEMMA StringIs ==
  ASSUME NEW a \in Nat, NEW l \in Nat, size \in Nat, a + l < size,
         \A n \in 0 .. l - 1 : image[a + n] # Zero
  PROVE  \E m \in Nat : /\ m >= l /\ (m = l <=> image[a + l] = Zero)
                        /\ StringAt(a) = [n \in 1 .. m |-> image[a + n - 1]]
<1> DEFINE e == size - a
           far == {n \in 0 .. e : \A m \in 0 .. n - 1 : image[a + m] # Zero}
           m == CHOOSE n \in far : n + 1 \notin far
<1>1. e \in Nat /\ l < e
  OBVIOUS
<1>2. StringAt(a) = [n \in 1 .. m |-> image[a + n - 1]]
  BY DEF StringAt
<1> HIDE DEF e
<1>3. l \in far
  BY <1>1
<1>4. m \in far /\ m + 1 \notin far
  <2>1. far \in SUBSET (0 .. e) /\ far # {}
    BY <1>3
  <2> HIDE DEF far
  <2>2. PICK x \in far : \A n \in far : n <= x
    BY <1>1, <2>1, Greatest
  <2>3. x + 1 \notin far
    <3>1. x \in Nat
      BY <2>1, <2>2
    <3>2. ~(x + 1 <= x)
      BY <3>1
    <3> QED
      BY <2>2, <3>2
  <2> QED
    BY <2>2, <2>3
<1> HIDE DEF m
<1>5. m \in Nat /\ m <= e /\ \A n \in 0 .. m - 1 : image[a + n] # Zero
  BY <1>1, <1>4
<1>6. m >= l
  <2> SUFFICES ASSUME m < l PROVE FALSE
    BY <1>5
  <2>1. m + 1 \in 0 .. e /\ \A n \in 0 .. (m + 1) - 1 : n \in 0 .. l - 1
    BY <1>1, <1>5
  <2> QED
    BY <1>4, <2>1
<1>7. ASSUME m = l PROVE image[a + l] = Zero
  <2> SUFFICES ASSUME image[a + l] # Zero PROVE FALSE
    OBVIOUS
  <2>1. m + 1 \in 0 .. e /\ \A n \in 0 .. (m + 1) - 1 : n \in 0 .. l - 1 \/ n = l
    BY <1>1, <1>5, <1>7
  <2>2. \A n \in 0 .. (m + 1) - 1 : image[a + n] # Zero
    BY <2>1
  <2> QED
    BY <1>4, <2>1, <2>2
<1>8. ASSUME image[a + l] = Zero PROVE m = l
  <2> SUFFICES ASSUME m # l PROVE FALSE
    OBVIOUS
  <2>1. l \in 0 .. m - 1
    BY <1>5, <1>6
  <2> QED
    BY <1>5, <1>8, <2>1
<1> HIDE DEF far
<1> QED
  BY <1>2, <1>5, <1>6, <1>7, <1>8

LEMMA Prefixed ==
  ASSUME NEW V, NEW l \in Nat, NEW m \in Nat, l <= m,
         NEW a \in [1 .. l -> V], NEW c \in [1 .. m -> V], \A n \in 1 .. l : a[n] = c[n]
  PROVE  IsPrefix(a, c) /\ Len(c) = m
<1>1. a \in Seq(V) /\ Len(a) = l /\ c \in Seq(V) /\ Len(c) = m
  BY Row
<1>2. SubSeq(a, 1, l) = SubSeq(c, 1, l)
  <2>1. SubSeq(a, 1, l) = [n \in 1 .. l |-> a[n]]
    BY <1>1
  <2>2. SubSeq(c, 1, l) = [n \in 1 .. l |-> c[n]]
    BY <1>1
  <2> QED
    BY <2>1, <2>2
<1> QED
  BY <1>1, <1>2 DEF IsPrefix

(* The n-th tensor of the session is at its place, and so is its pointer.   *)
Stands(im, x, n) ==
  /\ im[SlotOf(x, n)] = <<"pointer", Place(x, n)>>
  /\ \A a \in 0 .. SizeOf(x, n) - 1 : im[Place(x, n) + a] = TensorDump(Tensors(x)[n])[a + 1]

(* tensor_load reads back what tensor_dump wrote. *)
LEMMA Loaded ==
  ASSUME s \in Session, NEW n \in 1 .. Total(s), Stands(image, s, n), size = Full(s)
  PROVE  SameTensor(TensorLoad(Place(s, n)), Tensors(s)[n])
<1> DEFINE t == Tensors(s)[n]
           a == Place(s, n)
           d == TensorDump(t)
           l == Len(t.name)
           m == Len(t.qinfo)
           z == SizeOf(s, n)
           x == TensorLoad(a)
<1>1. /\ t \in Tensor /\ a \in Nat /\ a + z <= size /\ size \in Nat /\ size < Word
  BY SessionFacts, PartsInside, SumFacts
<1>2. z = TensorSize(t) /\ \A p \in 0 .. z - 1 : image[a + p] = d[p + 1]
  BY DEF SizeOf, Stands
<1> HIDE DEF t, a, z, d
<1>3. l \in Nat /\ m \in Nat /\ m > 0 /\ z = 2 + l + 2 * m
  BY <1>1, <1>2, TensorFacts
<1>4. /\ d[2] = <<"tensor", 2, 2 + l, t.dim, m>>
      /\ \A b \in 1 .. l : d[2 + b] = Byte(t.name[b])
      /\ \A c \in 1 .. m : \A b \in 1 .. 2 : d[2 + l + (c - 1) * 2 + b] = Byte(t.qinfo[c][b])
  BY <1>1, Dumped DEF d
<1>5. /\ \A b \in 1 .. l : t.name[b] \in Nat /\ t.name[b] # 0
      /\ t.name \in Seq(Nat \ {0})
      /\ t.qinfo \in Seq([1 .. QuantCells -> Nat])
  BY <1>1, TensorFacts
<1>6. DOMAIN t.name = 1 .. l /\ DOMAIN t.qinfo = 1 .. m
  BY <1>5
<1> HIDE DEF l, m
<1> DEFINE f == image[a + 1]
<1>7. f = <<"tensor", 2, 2 + l, t.dim, m>>
  <2>1. 1 \in 0 .. z - 1 /\ 1 + 1 = 2
    BY <1>3
  <2> QED
    BY <1>2, <1>4, <2>1
<1>8. Offset(f[2]) = 2 /\ Offset(f[3]) = 2 + l /\ f[4] = t.dim /\ f[5] = m
  <2>1. f[2] = 2 /\ f[3] = 2 + l /\ f[4] = t.dim /\ f[5] = m
    BY <1>7
  <2>2. 2 \in Nat /\ 2 < Word /\ 2 + l \in Nat /\ 2 + l < Word
    BY <1>1, <1>3, WordAssumption
  <2> QED
    BY <2>1, <2>2, OffsetIs
<1>9. x = [name |-> StringAt(a + Offset(f[2])), dim |-> f[4],
           qinfo |-> [c \in 1 .. f[5] |->
             [b \in 1 .. QuantCells |-> image[a + Offset(f[3]) + (c - 1) * QuantCells + b - 1]]]]
  BY DEF TensorLoad
<1> HIDE DEF f, x
<1>10. /\ x.name = StringAt(a + 2) /\ x.dim = t.dim
       /\ x.qinfo = [c \in 1 .. m |-> [b \in 1 .. QuantCells |-> image[a + (2 + l) + (c - 1) * 2 + b - 1]]]
  BY <1>8, <1>9 DEF QuantCells
<1>11. \A b \in 1 .. l : image[a + 2 + b - 1] = Byte(t.name[b])
  <2> SUFFICES ASSUME NEW b \in 1 .. l PROVE image[a + 2 + b - 1] = Byte(t.name[b])
    OBVIOUS
  <2>1. 1 + b \in 0 .. z - 1 /\ a + 2 + b - 1 = a + (1 + b) /\ (1 + b) + 1 = 2 + b
    BY <1>1, <1>3
  <2> QED
    BY <1>2, <1>4, <2>1
<1>12. \A c \in 1 .. m : \A b \in 1 .. 2 :
         image[a + (2 + l) + (c - 1) * 2 + b - 1] = Byte(t.qinfo[c][b])
  <2> SUFFICES ASSUME NEW c \in 1 .. m, NEW b \in 1 .. 2
               PROVE  image[a + (2 + l) + (c - 1) * 2 + b - 1] = Byte(t.qinfo[c][b])
    OBVIOUS
  <2> DEFINE p == 1 + l + (c - 1) * 2 + b
  <2>1. p \in 0 .. z - 1 /\ a + (2 + l) + (c - 1) * 2 + b - 1 = a + p /\ p + 1 = 2 + l + (c - 1) * 2 + b
    BY <1>1, <1>3
  <2> HIDE DEF p
  <2>2. image[a + p] = d[p + 1]
    BY <1>2, <2>1
  <2> QED
    BY <1>4, <2>1, <2>2
<1>13. \A b : Byte(b) = Zero <=> b = 0
  BY DEF Byte, Zero
<1>14. PICK y \in Nat : /\ y >= l /\ (y = l <=> image[a + 2 + l] = Zero)
                       /\ x.name = [b \in 1 .. y |-> image[a + 2 + b - 1]]
  <2>1. a + 2 \in Nat /\ (a + 2) + l < size
    BY <1>1, <1>3
  <2>2. \A b \in 0 .. l - 1 : image[(a + 2) + b] # Zero
    <3> SUFFICES ASSUME NEW b \in 0 .. l - 1 PROVE image[(a + 2) + b] # Zero
      OBVIOUS
    <3>1. b + 1 \in 1 .. l /\ a + 2 + (b + 1) - 1 = (a + 2) + b
      BY <1>1, <1>3
    <3>2. t.name[b + 1] # 0 /\ image[(a + 2) + b] = Byte(t.name[b + 1])
      BY <1>5, <1>11, <3>1
    <3> QED
      BY <1>13, <3>2
  <2> DEFINE e == a + 2
  <2> HIDE DEF e
  <2>3. /\ e \in Nat /\ l \in Nat /\ size \in Nat /\ e + l < size
        /\ \A b \in 0 .. l - 1 : image[e + b] # Zero
    BY <1>1, <1>3, <2>1, <2>2 DEF e
  <2>4. \E y \in Nat : /\ y >= l /\ (y = l <=> image[e + l] = Zero)
                       /\ StringAt(e) = [b \in 1 .. y |-> image[e + b - 1]]
    BY <2>3, StringIs
  <2> QED
    BY <1>10, <2>4 DEF e
<1>15. image[a + 2 + l] = Byte(t.qinfo[1][1])
  <2>1. 1 \in 1 .. m /\ 1 \in 1 .. 2 /\ a + (2 + l) + (1 - 1) * 2 + 1 - 1 = a + 2 + l
    BY <1>1, <1>3
  <2> QED
    BY <1>12, <2>1
<1>16. /\ IsPrefix([b \in DOMAIN t.name |-> Byte(t.name[b])], x.name) /\ Len(x.name) = y
  <2> DEFINE u == [b \in 1 .. l |-> Byte(t.name[b])]
             v == [b \in 1 .. y |-> image[a + 2 + b - 1]]
             V == {Byte(t.name[b]) : b \in 1 .. l} \cup {image[a + 2 + b - 1] : b \in 1 .. y}
  <2>1. u \in [1 .. l -> V] /\ v \in [1 .. y -> V] /\ l <= y
    BY <1>3, <1>14
  <2>2. \A b \in 1 .. l : u[b] = v[b]
    <3>1. \A b \in 1 .. l : b \in 1 .. y
      BY <1>3, <1>14
    <3> QED
      BY <1>11, <3>1
  <2>3. x.name = v
    BY <1>14
  <2>4. u = [b \in DOMAIN t.name |-> Byte(t.name[b])]
    BY <1>6
  <2> HIDE DEF u, v, V
  <2>5. IsPrefix(u, v) /\ Len(v) = y
    <3>1. l \in Nat /\ y \in Nat
      BY <1>3, <1>14
    <3> QED
      BY <2>1, <2>2, <3>1, Prefixed, ZenonT(60)
  <2> QED
    BY <2>3, <2>4, <2>5, Zenon
<1>17. x.qinfo = [c \in DOMAIN t.qinfo |-> [b \in 1 .. QuantCells |-> Byte(t.qinfo[c][b])]]
  BY <1>6, <1>10, <1>12 DEF QuantCells
<1>18. Len(x.name) = l <=> t.qinfo[1][1] = 0
  BY <1>13, <1>14, <1>15, <1>16
<1> QED
  BY <1>10, <1>16, <1>17, <1>18 DEF SameTensor, l, x, t, a
-----------------------------------------------------------------------------
(* The inductive invariant.  What session_dump has measured and where it    *)
(* stands; that every tensor it has put, and its pointer, stay in place.    *)
After(x, n) == 2 + Len(x.in) + Sum(x)[n - 1] + (IF n - 1 <= Len(x.in) THEN 0 ELSE Len(x.out))

ShapeInv ==
  /\ s \in Session /\ base \in Base /\ imports \in Nat
  /\ pc \in {"measure", "put", "file", "inputs", "outputs", "astray"}
  /\ pc \in {"measure", "put"} => k \in 1 .. Total(s) + 1 /\ imports = 0

BlockInv ==
  /\ pc = "measure" => size = 2 + Sum(s)[k - 1]
  /\ pc # "measure" => size = Full(s) /\ DOMAIN image = 0 .. size - 1
  /\ pc = "put" => at = After(s, k) /\ \A n \in 1 .. k - 1 : Stands(image, s, n)
  /\ pc \notin {"measure", "put"} => at = size /\ \A n \in 1 .. Total(s) : Stands(image, s, n)

(* The offsets of the tables, to each of which an import adds the address.  *)
Moved(p, b) == IF b THEN (base + p) % Word ELSE p
Tables(a, b) == <<"tables", Moved(InTable, a), Moved(OutTable, b)>>
Again == imports > 0

HeadInv ==
  /\ pc \notin {"measure", "put"} =>
       image[0] = <<"session", s.api, s.mode, Len(s.in), Len(s.out)>>
  /\ pc = "file" => image[1] = Tables(Again, Again)
  /\ pc = "inputs" => image[1] = Tables(TRUE, Again) /\ (imports = 0 \/ base = 0)
  /\ pc = "outputs" => image[1] = Tables(TRUE, TRUE) /\ (imports = 0 \/ base = 0)
  /\ pc = "astray" => imports > 0 /\ base # 0

(* The first n tensors of c were read back to a. *)
Same(a, c, n) ==
  a \in Seq(ToSet(a)) /\ Len(a) = n /\ \A x \in 1 .. n : SameTensor(a[x], c[x])

GotInv ==
  /\ pc = "inputs" =>
       k \in 1 .. Len(s.in) + 1 /\ Same(got.in, s.in, k - 1) /\ Same(got.out, s.out, 0)
  /\ pc = "outputs" =>
       k \in 1 .. Len(s.out) + 1 /\ Same(got.in, s.in, Len(s.in)) /\ Same(got.out, s.out, k - 1)
  /\ pc = "file" /\ imports > 0 =>
       Same(got.in, s.in, Len(s.in)) /\ Same(got.out, s.out, Len(s.out))
  /\ pc \in {"inputs", "outputs"} \/ (pc = "file" /\ imports > 0) =>
       got = [in |-> got.in, out |-> got.out, api |-> s.api, mode |-> "layer"]

IInv == ShapeInv /\ BlockInv /\ HeadInv /\ GotInv
-----------------------------------------------------------------------------
LEMMA Slots ==
  ASSUME s \in Session
  PROVE  /\ InTable = 2 /\ OutTable = 2 + Len(s.in) + Sum(s)[Len(s.in)]
         /\ OutTable \in Nat /\ InTable < Word /\ OutTable < Word /\ OutTable >= 2
         /\ \A n \in 1 .. Total(s) : Slot(n) = SlotOf(s, n)
<1> DEFINE l == Len(s.in)
           m == Len(s.out)
           r == Sum(s)[l]
           e == Sum(s)[Total(s)]
<1>1. l \in Nat /\ m \in Nat /\ Total(s) \in Nat
  BY SessionFacts
<1>2. Total(s) = l + m
  BY DEF Total
<1> HIDE DEF l, m
<1>3. l \in 0 .. Total(s) /\ Total(s) \in 0 .. Total(s) /\ l <= Total(s) /\ Total(s) <= Total(s)
  BY <1>1, <1>2
<1>4. r \in Nat /\ e \in Nat /\ r <= e /\ 2 + Total(s) + e < Word
  <2>1. r <= e
    BY <1>1, <1>3, Monotone
  <2> QED
    BY <1>3, <2>1, SumFacts DEF Full
<1>5. OutTable = 2 + l + r
  BY SumFacts DEF OutTable, SessionCells, l, r
<1>6. InTable = 2
  BY DEF InTable, SessionCells
<1>7. \A n : Slot(n) = IF n <= l THEN InTable + n - 1 ELSE OutTable + n - 1 - l
  BY DEF Slot, l
<1>8. \A n : SlotOf(s, n) = IF n <= l THEN 1 + n ELSE 1 + r + n
  BY DEF SlotOf, l
<1> HIDE DEF r, e
<1>9. OutTable \in Nat /\ InTable < Word /\ OutTable < Word /\ OutTable >= 2
  BY <1>1, <1>2, <1>4, <1>5, <1>6, WordAssumption
<1>10. ASSUME NEW n \in 1 .. Total(s) PROVE Slot(n) = SlotOf(s, n)
  <2>1. n \in Nat
    BY <1>1
  <2> QED
    BY <1>1, <1>4, <1>5, <1>6, <1>7, <1>8, <2>1
<1> QED
  BY <1>5, <1>6, <1>9, <1>10 DEF l, r

LEMMA FullIs == ASSUME NEW x \in Session PROVE Full(x) \in Nat /\ Full(x) >= 2
<1> DEFINE e == Sum(x)[Total(x)]
<1>1. Total(x) \in Nat
  BY SessionFacts
<1>2. Total(x) \in 0 .. Total(x)
  BY <1>1
<1>3. e \in Nat
  BY <1>2, SumFacts
<1>4. Full(x) = 2 + Total(x) + e
  BY DEF Full
<1> HIDE DEF e
<1> QED
  BY <1>1, <1>3, <1>4

(* Tensors stay where they are when only other cells change. *)
LEMMA StandsKept ==
  ASSUME NEW x \in Session, NEW n \in 1 .. Total(x), NEW im, NEW jm, Stands(im, x, n),
         jm[SlotOf(x, n)] = im[SlotOf(x, n)],
         \A a \in 0 .. SizeOf(x, n) - 1 : jm[Place(x, n) + a] = im[Place(x, n) + a]
  PROVE  Stands(jm, x, n)
BY DEF Stands

LEMMA HeadChanged ==
  ASSUME s \in Session, NEW im, NEW jm, \A n \in 1 .. Total(s) : Stands(im, s, n),
         \A p \in 2 .. Full(s) - 1 : jm[p] = im[p]
  PROVE  \A n \in 1 .. Total(s) : Stands(jm, s, n)
<1> SUFFICES ASSUME NEW n \in 1 .. Total(s) PROVE Stands(jm, s, n)
  OBVIOUS
<1> DEFINE y == SizeOf(s, n)
           p == Place(s, n)
           q == SlotOf(s, n)
<1>1. /\ p \in Nat /\ p >= 2 /\ p + y <= Full(s) /\ q \in Nat /\ q >= 2 /\ q < Full(s)
      /\ Full(s) \in Nat /\ y \in Nat
  BY PartsInside, SessionFacts
<1> HIDE DEF y, p, q
<1>2. q \in 2 .. Full(s) - 1 /\ \A a \in 0 .. y - 1 : p + a \in 2 .. Full(s) - 1
  BY <1>1
<1>3. jm[q] = im[q] /\ \A a \in 0 .. y - 1 : jm[p + a] = im[p + a]
  BY <1>2
<1> QED
  BY <1>3, StandsKept DEF y, p, q

(* Putting the next tensor. *)
LEMMA Put ==
  ASSUME s \in Session, NEW n \in 1 .. Total(s), NEW im, NEW jm, DOMAIN im = 0 .. Full(s) - 1,
         jm = [a \in DOMAIN im |->
                 IF a = SlotOf(s, n) THEN <<"pointer", Place(s, n)>>
                 ELSE IF a \in Place(s, n) .. Place(s, n) + SizeOf(s, n) - 1
                   THEN TensorDump(Tensors(s)[n])[a - Place(s, n) + 1] ELSE im[a]],
         \A x \in 1 .. n - 1 : Stands(im, s, x)
  PROVE  \A x \in 1 .. n : Stands(jm, s, x)
<1> DEFINE y == SizeOf(s, n)
           p == Place(s, n)
           q == SlotOf(s, n)
           d == TensorDump(Tensors(s)[n])
           e == Full(s)
<1>1. /\ p \in Nat /\ p >= 2 /\ p + y <= e /\ q \in Nat /\ q >= 2 /\ q < e
      /\ e \in Nat /\ y \in Nat /\ Total(s) \in Nat
  BY PartsInside, SessionFacts
<1>2. DOMAIN im = 0 .. e - 1 /\ jm = [a \in DOMAIN im |->
                 IF a = q THEN <<"pointer", p>>
                 ELSE IF a \in p .. p + y - 1 THEN d[a - p + 1] ELSE im[a]]
  OBVIOUS
<1> HIDE DEF y, p, q, d, e
<1>3. Stands(jm, s, n)
  <2>1. jm[q] = <<"pointer", p>>
    <3>1. q \in DOMAIN im
      <4>1. q \in 0 .. e - 1 /\ DOMAIN im = 0 .. e - 1
        BY <1>1, <1>2
      <4> QED
        BY <4>1, Zenon
    <3> QED
      BY <1>2, <3>1
  <2>2. q < p \/ q >= p + y
    BY PartsApart DEF p, q, y
  <2>3. ASSUME NEW a \in 0 .. y - 1 PROVE jm[p + a] = d[a + 1]
    <3>1. /\ p + a \in 0 .. e - 1 /\ p + a # q /\ p + a \in p .. p + y - 1
          /\ (p + a) - p + 1 = a + 1
      BY <1>1, <2>2
    <3> DEFINE c == p + a
    <3> HIDE DEF c
    <3>2. c \in DOMAIN im /\ c # q /\ c \in p .. p + y - 1 /\ c - p + 1 = a + 1
      BY <1>2, <3>1 DEF c
    <3>3. jm[c] = d[c - p + 1]
      BY <1>2, <3>2
    <3> QED
      BY <3>2, <3>3 DEF c
  <2> QED
    BY <2>1, <2>3 DEF Stands, p, q, y, d
<1>4. ASSUME NEW x \in 1 .. n - 1 PROVE Stands(jm, s, x)
  <2> DEFINE z == SizeOf(s, x)
             u == Place(s, x)
             v == SlotOf(s, x)
  <2>1. x \in 1 .. Total(s) /\ x < n /\ x # n
    BY <1>1
  <2>2. /\ u \in Nat /\ u + z <= e /\ v \in Nat /\ v < e /\ z \in Nat
    BY <2>1, PartsInside, SessionFacts DEF e
  <2>3. /\ u + z <= p /\ v # q /\ (v < p \/ v >= p + y) /\ (q < u \/ q >= u + z)
    BY <2>1, PartsApart DEF p, q, y
  <2> HIDE DEF z, u, v
  <2>4. jm[v] = im[v]
    <3>1. v \in DOMAIN im /\ v # q /\ v \notin p .. p + y - 1
      <4>1. v \in 0 .. e - 1 /\ v # q /\ v \notin p .. p + y - 1
        BY <1>1, <2>2, <2>3
      <4>2. DOMAIN im = 0 .. e - 1
        BY <1>2
      <4> QED
        BY <4>1, <4>2, Zenon
    <3> QED
      BY <1>2, <3>1
  <2>5. ASSUME NEW a \in 0 .. z - 1 PROVE jm[u + a] = im[u + a]
    <3> DEFINE c == u + a
    <3>1. c \in 0 .. e - 1 /\ c # q /\ c \notin p .. p + y - 1
      BY <1>1, <2>2, <2>3
    <3> HIDE DEF c
    <3>2. jm[c] = im[c]
      BY <1>2, <3>1
    <3> QED
      BY <3>2 DEF c
  <2>6. Stands(im, s, x)
    OBVIOUS
  <2> QED
    BY <2>1, <2>4, <2>5, <2>6, StandsKept DEF u, v, z
<1>5. \A x \in 1 .. n : x = n \/ x \in 1 .. n - 1
  BY <1>1
<1> QED
  BY <1>3, <1>4, <1>5
-----------------------------------------------------------------------------
LEMMA InitInv == Init => IInv
<1> SUFFICES ASSUME Init PROVE IInv
  OBVIOUS
<1>1. s \in Session /\ base \in Base /\ pc = "measure" /\ k = 1 /\ imports = 0 /\ size = 2
  BY DEF Init, SessionCells
<1>2. Total(s) \in Nat /\ Sum(s)[0] = 0
  BY <1>1, SessionFacts, SumFacts
<1>3. ShapeInv
  BY <1>1, <1>2 DEF ShapeInv
<1>4. BlockInv
  <2>1. 2 + Sum(s)[k - 1] = 2
    BY <1>1, <1>2
  <2> QED
    BY <1>1, <2>1 DEF BlockInv
<1>5. HeadInv /\ GotInv
  BY <1>1 DEF HeadInv, GotInv
<1> QED
  BY <1>3, <1>4, <1>5 DEF IInv

LEMMA MeasureStep == ASSUME IInv, Measure PROVE IInv'
<1>1. /\ s \in Session /\ s' = s /\ base' = base /\ base \in Base /\ imports' = imports /\ imports = 0
      /\ pc = "measure" /\ k \in 1 .. Total(s) + 1 /\ size = 2 + Sum(s)[k - 1]
  BY DEF IInv, ShapeInv, BlockInv, Measure
<1>2. Len(Tensors(s)) = Total(s) /\ Total(s) \in Nat /\ Len(s.in) \in Nat
  BY <1>1, SessionFacts
<1>3. CASE k <= Total(s)
  <2>1. pc' = pc /\ k' = k + 1 /\ size' = size + SizeOf(s, k)
    BY <1>1, <1>2, <1>3 DEF Measure, SizeOf
  <2>2. k \in 1 .. Total(s) /\ k + 1 \in 1 .. Total(s) + 1 /\ (k + 1) - 1 = k
        /\ k - 1 \in 0 .. Total(s) /\ k \in 0 .. Total(s)
    BY <1>1, <1>2, <1>3
  <2>3. Sum(s)[k] = Sum(s)[k - 1] + SizeOf(s, k) /\ Sum(s)[k - 1] \in Nat /\ SizeOf(s, k) \in Nat
    BY <1>1, <2>2, SumFacts, SessionFacts
  <2>4. size' = 2 + Sum(s)[k' - 1]
    <3> DEFINE a == Sum(s)[k - 1]
               c == SizeOf(s, k)
    <3>1. a \in Nat /\ c \in Nat /\ size' = (2 + a) + c /\ Sum(s)[k' - 1] = a + c
      BY <1>1, <2>1, <2>2, <2>3
    <3> HIDE DEF a, c
    <3> QED
      BY <3>1
  <2>5. ShapeInv'
    BY <1>1, <2>1, <2>2 DEF ShapeInv
  <2>6. BlockInv'
    BY <1>1, <2>1, <2>4 DEF BlockInv
  <2>7. HeadInv' /\ GotInv'
    BY <1>1, <2>1 DEF HeadInv, GotInv
  <2> QED
    BY <2>5, <2>6, <2>7 DEF IInv
<1>4. CASE ~(k <= Total(s))
  <2>1. /\ pc' = "put" /\ k' = 1 /\ size' = size + Total(s)
        /\ image' = [a \in 0 .. size' - 1 |-> Zero] /\ at' = 2 + Len(s.in)
    BY <1>1, <1>2, <1>4 DEF Measure, SessionCells
  <2>2. k - 1 = Total(s) /\ Total(s) \in 0 .. Total(s) /\ 1 \in 1 .. Total(s) + 1
    BY <1>1, <1>2, <1>4
  <2>3. size' = Full(s)
    <3> DEFINE e == Sum(s)[Total(s)]
    <3>1. e \in Nat /\ size = 2 + e
      BY <1>1, <2>2, SumFacts
    <3>2. Full(s) = 2 + Total(s) + e
      BY DEF Full
    <3> HIDE DEF e
    <3> QED
      BY <1>2, <2>1, <3>1, <3>2
  <2>4. at' = After(s, 1)
    <3>1. Sum(s)[1 - 1] = 0 /\ 1 - 1 <= Len(s.in)
      BY <1>1, <1>2, SumFacts
    <3> DEFINE l == Len(s.in)
    <3>2. After(s, 1) = 2 + l + 0 + 0
      BY <3>1 DEF After
    <3>3. l \in Nat /\ at' = 2 + l
      BY <1>2, <2>1
    <3> HIDE DEF l
    <3> QED
      BY <3>2, <3>3
  <2>5. ShapeInv'
    BY <1>1, <2>1, <2>2 DEF ShapeInv
  <2>6. BlockInv'
    <3>1. 1 .. k' - 1 = {}
      BY <2>1
    <3> QED
      BY <1>1, <2>1, <2>3, <2>4, <3>1 DEF BlockInv
  <2>7. HeadInv' /\ GotInv'
    BY <2>1 DEF HeadInv, GotInv
  <2> QED
    BY <2>5, <2>6, <2>7 DEF IInv
<1> QED
  BY <1>3, <1>4

LEMMA PutTensorStep == ASSUME IInv, PutTensor PROVE IInv'
<1>1. /\ s \in Session /\ s' = s /\ base' = base /\ base \in Base /\ imports' = imports /\ imports = 0
      /\ pc = "put" /\ pc' = pc /\ k' = k + 1 /\ size' = size /\ size = Full(s)
      /\ DOMAIN image = 0 .. size - 1 /\ at = After(s, k) /\ \A n \in 1 .. k - 1 : Stands(image, s, n)
  BY DEF IInv, ShapeInv, BlockInv, PutTensor
<1>2. Total(s) \in Nat /\ Len(s.in) \in Nat /\ Len(s.out) \in Nat
  BY <1>1, SessionFacts
<1>3. /\ k \in 1 .. Total(s) /\ k + 1 \in 1 .. Total(s) + 1 /\ (k + 1) - 1 = k
      /\ k - 1 \in 0 .. Total(s) /\ k \in 0 .. Total(s)
  <2>1. k \in 1 .. Total(s) + 1 /\ k <= Total(s)
    <3>1. k \in 1 .. Total(s) + 1
      BY <1>1 DEF IInv, ShapeInv
    <3>2. k <= Len(Tensors(s)) /\ Len(Tensors(s)) = Total(s)
      BY <1>1, SessionFacts DEF PutTensor
    <3> QED
      BY <3>1, <3>2
  <2> DEFINE e == Total(s)
  <2>2. e \in Nat /\ k \in 1 .. e + 1 /\ k <= e
    BY <1>2, <2>1
  <2> HIDE DEF e
  <2>3. /\ k \in 1 .. e /\ k + 1 \in 1 .. e + 1 /\ (k + 1) - 1 = k
        /\ k - 1 \in 0 .. e /\ k \in 0 .. e
    BY <2>2
  <2> QED
    BY <2>3 DEF e
<1> DEFINE here == IF k = Len(s.in) + 1 THEN at + Len(s.out) ELSE at
<1>4. /\ at' = here + SizeOf(s, k)
      /\ image' = [a \in DOMAIN image |->
                     IF a = Slot(k) THEN <<"pointer", here>>
                     ELSE IF a \in here .. here + SizeOf(s, k) - 1
                       THEN TensorDump(Tensors(s)[k])[a - here + 1] ELSE image[a]]
  BY DEF PutTensor, SizeOf
<1>5. here = Place(s, k) /\ After(s, k + 1) = Place(s, k) + SizeOf(s, k)
  <2> DEFINE l == Len(s.in)
             m == Len(s.out)
             p == Sum(s)[k - 1]
             q == Sum(s)[k]
             y == SizeOf(s, k)
  <2>1. l \in Nat /\ m \in Nat /\ p \in Nat /\ y \in Nat /\ q = p + y
    BY <1>1, <1>2, <1>3, SumFacts, SessionFacts
  <2>2. /\ at = 2 + l + p + (IF k - 1 <= l THEN 0 ELSE m)
        /\ Place(s, k) = 2 + l + p + (IF k <= l THEN 0 ELSE m)
        /\ here = IF k = l + 1 THEN at + m ELSE at
    BY <1>1 DEF After, Place
  <2>3. After(s, k + 1) = 2 + l + q + (IF k <= l THEN 0 ELSE m)
    BY <1>3 DEF After
  <2> HIDE DEF l, m, p, q, y, here
  <2>4. k \in Nat
    BY <1>2, <1>3
  <2>5. here = Place(s, k)
    BY <2>1, <2>2, <2>4
  <2>6. After(s, k + 1) = Place(s, k) + y
    BY <2>1, <2>2, <2>3
  <2> QED
    BY <2>5, <2>6 DEF y
<1>6. Slot(k) = SlotOf(s, k)
  BY <1>1, <1>3, Slots
<1> HIDE DEF here
<1>7. DOMAIN image' = DOMAIN image /\ \A n \in 1 .. k : Stands(image', s, n)
  <2>1. image' = [a \in DOMAIN image |->
                     IF a = SlotOf(s, k) THEN <<"pointer", Place(s, k)>>
                     ELSE IF a \in Place(s, k) .. Place(s, k) + SizeOf(s, k) - 1
                       THEN TensorDump(Tensors(s)[k])[a - Place(s, k) + 1] ELSE image[a]]
    BY <1>4, <1>5, <1>6
  <2>2. DOMAIN image' = DOMAIN image
    BY <2>1
  <2>3. DOMAIN image = 0 .. Full(s) - 1
    BY <1>1
  <2>4. \A n \in 1 .. k : Stands(image', s, n)
    BY <1>1, <1>3, <2>1, <2>3, Put
  <2> QED
    BY <2>2, <2>4
<1>8. ShapeInv'
  BY <1>1, <1>3 DEF ShapeInv
<1>9. BlockInv'
  <2>1. at' = After(s, k + 1)
    BY <1>4, <1>5
  <2> QED
    BY <1>1, <1>3, <1>7, <2>1 DEF BlockInv
<1>10. HeadInv' /\ GotInv'
  BY <1>1 DEF HeadInv, GotInv
<1> QED
  BY <1>8, <1>9, <1>10 DEF IInv

LEMMA PutSessionStep == ASSUME IInv, PutSession PROVE IInv'
<1>1. /\ s \in Session /\ s' = s /\ base' = base /\ base \in Base /\ imports' = imports /\ imports = 0
      /\ pc = "put" /\ pc' = "file" /\ k' = k /\ size' = size /\ size = Full(s) /\ at' = at
      /\ DOMAIN image = 0 .. size - 1 /\ at = After(s, k) /\ \A n \in 1 .. k - 1 : Stands(image, s, n)
      /\ k \in 1 .. Total(s) + 1
      /\ image' = [image EXCEPT ![0] = <<"session", s.api, s.mode, Len(s.in), Len(s.out)>>,
                                ![1] = <<"tables", InTable, OutTable>>]
  BY DEF IInv, ShapeInv, BlockInv, PutSession
<1>2. Total(s) \in Nat /\ Len(s.in) \in Nat /\ Len(s.out) \in Nat
  BY <1>1, SessionFacts
<1>3. k - 1 = Total(s)
  <2> DEFINE e == Total(s)
  <2>1. k > Len(Tensors(s)) /\ Len(Tensors(s)) = Total(s)
    BY <1>1, SessionFacts DEF PutSession
  <2>2. k > e /\ e \in Nat /\ k \in 1 .. e + 1
    BY <1>1, <1>2, <2>1
  <2> HIDE DEF e
  <2>3. k - 1 = e
    BY <2>2
  <2> QED
    BY <2>3 DEF e
<1>4. at = Full(s)
  <2> DEFINE l == Len(s.in)
             m == Len(s.out)
             e == Sum(s)[Total(s)]
  <2>1. at = 2 + l + e + (IF Total(s) <= l THEN 0 ELSE m)
    BY <1>1, <1>3 DEF After
  <2>2. Full(s) = 2 + Total(s) + e
    BY DEF Full
  <2>3. e \in Nat
    <3>1. Total(s) \in 0 .. Total(s)
      BY <1>2
    <3> QED
      BY <1>1, <3>1, SumFacts
  <2>4. l \in Nat /\ m \in Nat /\ Total(s) = l + m
    BY <1>2 DEF Total
  <2> HIDE DEF l, m, e
  <2> QED
    BY <2>1, <2>2, <2>3, <2>4
<1>5. /\ DOMAIN image' = DOMAIN image
      /\ image'[0] = <<"session", s.api, s.mode, Len(s.in), Len(s.out)>>
      /\ image'[1] = <<"tables", InTable, OutTable>>
      /\ \A p \in 2 .. Full(s) - 1 : image'[p] = image[p]
  <2>1. Full(s) \in Nat /\ Full(s) >= 2
    BY <1>1, FullIs
  <2>2. 0 \in 0 .. size - 1 /\ 1 \in 0 .. size - 1 /\ \A p \in 2 .. Full(s) - 1 : p \in 0 .. size - 1 /\ p # 0 /\ p # 1
    BY <1>1, <2>1
  <2>3. 0 \in DOMAIN image /\ 1 \in DOMAIN image /\ \A p \in 2 .. Full(s) - 1 : p \in DOMAIN image /\ p # 0 /\ p # 1
    BY <1>1, <2>2, Zenon
  <2> DEFINE a == <<"session", s.api, s.mode, Len(s.in), Len(s.out)>>
             c == <<"tables", InTable, OutTable>>
  <2> HIDE DEF a, c
  <2>4. image' = [image EXCEPT ![0] = a, ![1] = c]
    BY <1>1 DEF a, c
  <2>5. /\ DOMAIN image' = DOMAIN image /\ image'[0] = a /\ image'[1] = c
        /\ \A p \in 2 .. Full(s) - 1 : image'[p] = image[p]
    BY <2>3, <2>4
  <2> QED
    BY <2>5 DEF a, c
<1>6. \A n \in 1 .. Total(s) : Stands(image', s, n)
  <2>1. \A n \in 1 .. Total(s) : Stands(image, s, n)
    BY <1>1, <1>3
  <2>2. s \in Session /\ \A p \in 2 .. Full(s) - 1 : image'[p] = image[p]
    BY <1>1, <1>5
  <2> QED
    BY <2>1, <2>2, HeadChanged
<1>7. ShapeInv'
  BY <1>1 DEF ShapeInv
<1>8. BlockInv'
  BY <1>1, <1>4, <1>5, <1>6 DEF BlockInv
<1>9. HeadInv'
  <2>1. ~Again' /\ InTable' = InTable /\ OutTable' = OutTable
    BY <1>1 DEF Again, InTable, OutTable
  <2>2. Tables(Again, Again)' = <<"tables", InTable, OutTable>>
    BY <2>1 DEF Tables, Moved
  <2> QED
    BY <1>1, <1>5, <2>2 DEF HeadInv
<1>10. GotInv'
  BY <1>1 DEF GotInv
<1> QED
  BY <1>7, <1>8, <1>9, <1>10 DEF IInv
-----------------------------------------------------------------------------
(* What the importer reads of the head of the block, and what it changes. *)
LEMMA MovedIs ==
  ASSUME base \in Base, NEW p \in Nat, p < Word, NEW a \in BOOLEAN
  PROVE  /\ Offset(Moved(p, a)) = Moved(p, a)
         /\ Moved(p, a) = p <=> (~a \/ base = 0)
         /\ ~a \/ base = 0 => (base + Moved(p, a)) % Word = Moved(p, TRUE)
<1>1. Word \in Nat \ {0} /\ p \in 0 .. Word - 1 /\ base \in 0 .. Word - 1 /\ 0 \in 0 .. Word - 1
  BY WordAssumption
<1> DEFINE q == (base + p) % Word
<1>2. q \in 0 .. Word - 1 /\ (q = p <=> base = 0)
  BY <1>1, Remainder
<1> HIDE DEF q
<1>3. Offset(p) = p /\ Offset(q) = q
  <2>1. q \in Nat /\ q < Word
    BY <1>1, <1>2
  <2> QED
    BY <2>1, OffsetIs
<1>4. CASE a
  <2>1. Moved(p, a) = q /\ Moved(p, TRUE) = q
    BY <1>4 DEF Moved, q
  <2>2. base = 0 => (base + Moved(p, a)) % Word = q
    BY <1>2, <2>1 DEF q
  <2> QED
    BY <1>2, <1>3, <1>4, <2>1, <2>2
<1>5. CASE ~a
  <2>1. Moved(p, a) = p /\ Moved(p, TRUE) = q
    BY <1>5 DEF Moved, q
  <2> QED
    BY <1>2, <1>3, <1>5, <2>1 DEF q
<1> QED
  BY <1>4, <1>5

LEMMA TablesAre ==
  ASSUME s \in Session, base \in Base, NEW a \in BOOLEAN, NEW c \in BOOLEAN, image[1] = Tables(a, c)
  PROVE  /\ Table(2) = InTable <=> (~a \/ base = 0)
         /\ Table(3) = OutTable <=> (~c \/ base = 0)
<1>1. InTable \in Nat /\ InTable < Word /\ OutTable \in Nat /\ OutTable < Word
  BY Slots
<1>2. image[1][2] = Moved(InTable, a) /\ image[1][3] = Moved(OutTable, c)
  BY DEF Tables
<1>3. Table(2) = Offset(Moved(InTable, a)) /\ Table(3) = Offset(Moved(OutTable, c))
  BY <1>2 DEF Table
<1>4. Offset(Moved(InTable, a)) = Moved(InTable, a) /\ (Moved(InTable, a) = InTable <=> (~a \/ base = 0))
  BY <1>1, MovedIs
<1>5. Offset(Moved(OutTable, c)) = Moved(OutTable, c) /\ (Moved(OutTable, c) = OutTable <=> (~c \/ base = 0))
  BY <1>1, MovedIs
<1> QED
  BY <1>3, <1>4, <1>5

LEMMA PointersAre ==
  ASSUME s \in Session, base \in Base, DOMAIN image = 0 .. Full(s) - 1,
         NEW a \in BOOLEAN, NEW c \in BOOLEAN, image[1] = Tables(a, c),
         NEW n \in {2, 3}
  PROVE  /\ DOMAIN Pointers(n) = DOMAIN image /\ Pointers(n)[0] = image[0]
         /\ \A p \in 2 .. Full(s) - 1 : Pointers(n)[p] = image[p]
         /\ n = 2 /\ (~a \/ base = 0) => Pointers(n)[1] = Tables(TRUE, c)
         /\ n = 3 /\ (~c \/ base = 0) => Pointers(n)[1] = Tables(a, TRUE)
<1>1. InTable \in Nat /\ InTable < Word /\ OutTable \in Nat /\ OutTable < Word
  BY Slots
<1>2. 1 \in DOMAIN image
  <2>1. Full(s) \in Nat /\ Full(s) >= 2
    BY FullIs
  <2>2. 1 \in 0 .. Full(s) - 1
    BY <2>1
  <2> QED
    BY <2>2, Zenon
<1> DEFINE h == [image[1] EXCEPT ![n] = (base + @) % Word]
<1>3. Pointers(n) = [image EXCEPT ![1] = h]
  BY DEF Pointers
<1>4. n = 2 /\ (~a \/ base = 0) => h = Tables(TRUE, c)
  <2>1. n = 2 => h = <<"tables", (base + Moved(InTable, a)) % Word, Moved(OutTable, c)>>
    BY DEF Tables
  <2>2. ~a \/ base = 0 => (base + Moved(InTable, a)) % Word = Moved(InTable, TRUE)
    BY <1>1, MovedIs
  <2> QED
    BY <2>1, <2>2 DEF Tables
<1>5. n = 3 /\ (~c \/ base = 0) => h = Tables(a, TRUE)
  <2>1. n = 3 => h = <<"tables", Moved(InTable, a), (base + Moved(OutTable, c)) % Word>>
    BY DEF Tables
  <2>2. ~c \/ base = 0 => (base + Moved(OutTable, c)) % Word = Moved(OutTable, TRUE)
    BY <1>1, MovedIs
  <2> QED
    BY <2>1, <2>2 DEF Tables
<1> HIDE DEF h
<1>6. /\ DOMAIN Pointers(n) = DOMAIN image /\ Pointers(n)[1] = h
      /\ \A p : p # 1 /\ p \in DOMAIN image => Pointers(n)[p] = image[p]
  BY <1>2, <1>3
<1>7. \A p \in 2 .. Full(s) - 1 : Pointers(n)[p] = image[p]
  <2>1. \A p \in 2 .. Full(s) - 1 : p \in 0 .. Full(s) - 1 /\ p # 1
    BY FullIs
  <2>2. \A p \in 2 .. Full(s) - 1 : p \in DOMAIN image /\ p # 1
    BY <2>1, Zenon
  <2> QED
    BY <1>6, <2>2
<1>8. Pointers(n)[0] = image[0]
  <2>1. 0 \in 0 .. Full(s) - 1 /\ 0 # 1
    BY FullIs
  <2>2. 0 \in DOMAIN image
    BY <2>1, Zenon
  <2> QED
    BY <1>6, <2>1, <2>2
<1> QED
  BY <1>4, <1>5, <1>6, <1>7, <1>8

(* What is read of the slot of a tensor that stands in the block. *)
LEMMA ReadBack ==
  ASSUME s \in Session, NEW n \in 1 .. Total(s), Stands(image, s, n), size = Full(s)
  PROVE  SameTensor(TensorLoad(Offset(image[SlotOf(s, n)][2])), Tensors(s)[n])
<1> DEFINE p == Place(s, n)
<1>1. image[SlotOf(s, n)][2] = p
  BY DEF Stands
<1>2. Offset(p) = p
  <2> DEFINE y == SizeOf(s, n)
             e == Full(s)
  <2>1. p \in Nat /\ y \in Nat /\ p + y <= e /\ e < Word /\ e \in Nat /\ Word \in Nat
    BY PartsInside, SessionFacts, SumFacts, WordAssumption
  <2> HIDE DEF p, y, e
  <2>2. p \in Nat /\ p < Word
    BY <2>1
  <2> QED
    BY <2>2, OffsetIs
<1>3. SameTensor(TensorLoad(p), Tensors(s)[n])
  BY Loaded
<1> QED
  BY <1>1, <1>2, <1>3

LEMMA OneMore ==
  ASSUME NEW a, NEW c, NEW n \in Nat, Same(a, c, n), NEW x, SameTensor(x, c[n + 1])
  PROVE  Same(Append(a, x), c, n + 1)
<1> DEFINE A == ToSet(a) \cup {x}
           w == Append(a, x)
<1>1. a \in Seq(A) /\ x \in A /\ Len(a) = n /\ \A m \in 1 .. n : SameTensor(a[m], c[m])
  <2>1. a \in Seq(ToSet(a)) /\ Len(a) = n /\ \A m \in 1 .. n : SameTensor(a[m], c[m])
    BY DEF Same
  <2> QED
    BY <2>1
<1> HIDE DEF A
<1>2. /\ w \in Seq(A) /\ Len(w) = n + 1 /\ w[n + 1] = x
      /\ \A m \in 1 .. n : w[m] = a[m]
  BY <1>1
<1> HIDE DEF w
<1>3. w \in Seq(ToSet(w))
  <2>1. DOMAIN w = 1 .. n + 1 /\ w = [m \in 1 .. n + 1 |-> w[m]]
    BY <1>2
  <2>2. \A m \in 1 .. n + 1 : w[m] \in ToSet(w)
    BY <2>1 DEF ToSet
  <2> QED
    BY <2>1, <2>2, Row
<1>4. \A m \in 1 .. n + 1 : SameTensor(w[m], c[m])
  <2>1. \A m \in 1 .. n + 1 : m = n + 1 \/ m \in 1 .. n
    OBVIOUS
  <2> QED
    BY <1>1, <1>2, <2>1
<1>5. Same(w, c, n + 1)
  BY <1>2, <1>3, <1>4 DEF Same
<1> QED
  BY <1>5 DEF w

LEMMA Filled ==
  ASSUME NEW g, NEW a, NEW c, NEW d, NEW e, g = [in |-> a, out |-> c, api |-> d, mode |-> e], NEW h
  PROVE  /\ [g EXCEPT !.in = h] = [in |-> h, out |-> c, api |-> d, mode |-> e]
         /\ [g EXCEPT !.out = h] = [in |-> a, out |-> h, api |-> d, mode |-> e]
         /\ g = [in |-> g.in, out |-> g.out, api |-> d, mode |-> e]
OBVIOUS

LEMMA NothingYet == ASSUME NEW c PROVE Same(<<>>, c, 0)
<1>1. <<>> \in Seq(ToSet(<<>>)) /\ Len(<<>>) = 0 /\ 1 .. 0 = {}
  OBVIOUS
<1> QED
  BY <1>1 DEF Same
-----------------------------------------------------------------------------
(* An import, step by step.  The tensors stand in the block throughout. *)
InBlock ==
  /\ s \in Session /\ base \in Base /\ imports \in Nat
  /\ size = Full(s) /\ DOMAIN image = 0 .. size - 1 /\ at = size
  /\ \A n \in 1 .. Total(s) : Stands(image, s, n)
  /\ image[0] = <<"session", s.api, s.mode, Len(s.in), Len(s.out)>>

LEMMA Block == IInv /\ pc \in {"file", "inputs", "outputs", "astray"} => InBlock
BY DEF IInv, ShapeInv, BlockInv, HeadInv, InBlock

LEMMA BlockKept ==
  ASSUME InBlock, pc' \in {"file", "inputs", "outputs", "astray"}, InBlock'
  PROVE  ShapeInv' /\ BlockInv'
BY DEF InBlock, ShapeInv, BlockInv

LEMMA BlockStays ==
  ASSUME InBlock, UNCHANGED <<s, size, at, image, base>>, imports' \in Nat
  PROVE  InBlock'
<1>1. s' = s /\ size' = size /\ at' = at /\ image' = image /\ base' = base
  OBVIOUS
<1> QED
  BY <1>1 DEF InBlock

LEMMA BlockPointed ==
  ASSUME InBlock, NEW a \in BOOLEAN, NEW c \in BOOLEAN, image[1] = Tables(a, c), NEW n \in {2, 3},
         image' = Pointers(n), UNCHANGED <<s, size, at, base, imports>>
  PROVE  InBlock'
<1>1. s' = s /\ size' = size /\ at' = at /\ base' = base /\ imports' = imports
  OBVIOUS
<1>2. s \in Session /\ base \in Base /\ DOMAIN image = 0 .. Full(s) - 1
  BY DEF InBlock
<1>3. /\ DOMAIN image' = DOMAIN image /\ image'[0] = image[0]
      /\ \A p \in 2 .. Full(s) - 1 : image'[p] = image[p]
  BY <1>2, PointersAre
<1>4. \A m \in 1 .. Total(s) : Stands(image', s, m)
  <2>1. \A m \in 1 .. Total(s) : Stands(image, s, m)
    BY DEF InBlock
  <2>2. \A p \in 2 .. Full(s) - 1 : image'[p] = image[p]
    BY <1>3
  <2> QED
    BY <1>2, <2>1, <2>2, HeadChanged
<1> QED
  BY <1>1, <1>3, <1>4 DEF InBlock

LEMMA ImportStep == ASSUME IInv, Import PROVE IInv'
<1>1. /\ pc = "file" /\ image' = Pointers(2) /\ k' = 1 /\ s' = s /\ size' = size /\ at' = at
      /\ base' = base /\ imports' = imports
      /\ got' = [in |-> <<>>, out |-> <<>>, api |-> image[0][2], mode |-> "layer"]
      /\ pc' = IF Table(2) = InTable THEN "inputs" ELSE "astray"
  BY DEF Import
<1>2. InBlock /\ image[1] = Tables(Again, Again) /\ Again \in BOOLEAN
  BY <1>1, Block DEF IInv, HeadInv, Again
<1>3. InBlock'
  BY <1>1, <1>2, BlockPointed
<1>4. Table(2) = InTable <=> (~Again \/ base = 0)
  BY <1>2, TablesAre DEF InBlock
<1>5. ~Again \/ base = 0 => image'[1] = Tables(TRUE, Again)
  BY <1>1, <1>2, PointersAre DEF InBlock
<1>6. image'[0] = <<"session", s.api, s.mode, Len(s.in), Len(s.out)>> /\ got'.api = s.api
  BY <1>1, <1>2, <1>3 DEF InBlock
<1>7. imports \in Nat /\ (~Again <=> imports = 0)
  BY <1>2 DEF InBlock, Again
<1>8. ShapeInv' /\ BlockInv'
  BY <1>1, <1>2, <1>3, BlockKept
<1>9. HeadInv'
  <2>1. Tables(TRUE, Again)' = Tables(TRUE, Again)
    BY <1>1 DEF Tables, Moved, InTable, OutTable, Again
  <2>2. image'[0] = <<"session", s'.api, s'.mode, Len(s'.in), Len(s'.out)>>
    BY <1>1, <1>6
  <2>3. CASE Table(2) = InTable
    <3>1. pc' = "inputs" /\ image'[1] = Tables(TRUE, Again) /\ (imports' = 0 \/ base' = 0)
      BY <1>1, <1>4, <1>5, <1>7, <2>3
    <3> QED
      BY <2>1, <2>2, <3>1 DEF HeadInv
  <2>4. CASE Table(2) # InTable
    <3>1. pc' = "astray" /\ imports' > 0 /\ base' # 0
      BY <1>1, <1>4, <1>7, <2>4 DEF Again
    <3> QED
      BY <2>2, <3>1 DEF HeadInv
  <2> QED
    BY <2>3, <2>4
<1>10. GotInv'
  <2>1. /\ Same(got'.in, s.in, 0) /\ Same(got'.out, s.out, 0)
        /\ got' = [in |-> got'.in, out |-> got'.out, api |-> s.api, mode |-> "layer"]
    BY <1>1, <1>6, NothingYet
  <2>2. 1 \in 1 .. Len(s.in) + 1 /\ 1 - 1 = 0
    BY <1>2, SessionFacts DEF InBlock
  <2>3. pc' \in {"inputs", "astray"}
    BY <1>1
  <2> QED
    BY <1>1, <2>1, <2>2, <2>3 DEF GotInv
<1> QED
  BY <1>8, <1>9, <1>10 DEF IInv

LEMMA LoadInputStep == ASSUME IInv, LoadInput PROVE IInv'
<1>1. /\ pc = "inputs" /\ pc' = pc /\ k' = k + 1 /\ s' = s /\ size' = size /\ at' = at
      /\ image' = image /\ base' = base /\ imports' = imports /\ k <= Len(s.in)
      /\ got' = [got EXCEPT !.in = Append(@, TensorLoad(Offset(image[InTable + k - 1][2])))]
  BY DEF LoadInput
<1>2. InBlock
  BY <1>1, Block
<1>3. InBlock'
  BY <1>1, <1>2, BlockStays DEF InBlock
<1>4. /\ k \in 1 .. Len(s.in) + 1 /\ Same(got.in, s.in, k - 1) /\ Same(got.out, s.out, 0)
      /\ got = [in |-> got.in, out |-> got.out, api |-> s.api, mode |-> "layer"]
  BY <1>1 DEF IInv, GotInv
<1>5. s \in Session /\ Len(s.in) \in Nat /\ Len(s.out) \in Nat
  BY <1>2, SessionFacts DEF InBlock
<1> DEFINE l == Len(s.in)
           x == TensorLoad(Offset(image[InTable + k - 1][2]))
<1>6. k \in 1 .. l /\ k + 1 \in 1 .. l + 1 /\ (k + 1) - 1 = k /\ k - 1 \in Nat /\ (k - 1) + 1 = k
  <2>1. l \in Nat /\ k \in 1 .. l + 1 /\ k <= l
    BY <1>1, <1>4, <1>5
  <2> HIDE DEF l
  <2> QED
    BY <2>1
<1>7. k \in 1 .. Total(s) /\ SlotOf(s, k) = InTable + k - 1
  <2>1. l \in Nat /\ Len(s.out) \in Nat /\ Total(s) = l + Len(s.out)
    BY <1>5 DEF Total
  <2> DEFINE e == Total(s)
             m == Len(s.out)
  <2>2. k \in 1 .. e /\ k <= l
    <3>1. l \in Nat /\ m \in Nat /\ e = l + m /\ k \in 1 .. l
      BY <1>6, <2>1
    <3> HIDE DEF l, m, e
    <3> QED
      BY <3>1
  <2>3. SlotOf(s, k) = Slot(k)
    BY <1>5, <2>2, Slots
  <2> QED
    BY <2>2, <2>3 DEF Slot
<1>8. SameTensor(x, s.in[k])
  <2>1. SameTensor(TensorLoad(Offset(image[SlotOf(s, k)][2])), Tensors(s)[k])
    BY <1>2, <1>7, ReadBack DEF InBlock
  <2>2. Tensors(s)[k] = s.in[k]
    BY <1>5, <1>6, SessionFacts
  <2> QED
    BY <1>7, <2>1, <2>2
<1> HIDE DEF x
<1>9. Same(Append(got.in, x), s.in, k)
  BY <1>4, <1>6, <1>8, OneMore
<1>10. got' = [in |-> Append(got.in, x), out |-> got.out, api |-> s.api, mode |-> "layer"]
  <2> DEFINE h == Append(got.in, x)
  <2>1. got' = [got EXCEPT !.in = h]
    BY <1>1 DEF x
  <2> HIDE DEF h
  <2>2. got' = [in |-> h, out |-> got.out, api |-> s.api, mode |-> "layer"]
    BY <1>4, <2>1, Filled
  <2> QED
    BY <2>2 DEF h
<1>11. ShapeInv' /\ BlockInv'
  BY <1>1, <1>2, <1>3, BlockKept
<1>12. HeadInv'
  <2>1. Tables(TRUE, Again)' = Tables(TRUE, Again)
    BY <1>1 DEF Tables, Moved, InTable, OutTable, Again
  <2>2. image[1] = Tables(TRUE, Again) /\ (imports = 0 \/ base = 0)
    BY <1>1 DEF IInv, HeadInv
  <2>3. image'[0] = <<"session", s'.api, s'.mode, Len(s'.in), Len(s'.out)>>
    BY <1>3 DEF InBlock
  <2> QED
    BY <1>1, <2>1, <2>2, <2>3 DEF HeadInv
<1>13. GotInv'
  <2>1. Same(got'.in, s'.in, k) /\ Same(got'.out, s'.out, 0)
    <3>1. got'.in = Append(got.in, x) /\ got'.out = got.out
      BY <1>10
    <3>2. s' = s
      BY <1>1
    <3> QED
      BY <1>4, <1>9, <3>1, <3>2, Zenon
  <2>2. got' = [in |-> got'.in, out |-> got'.out, api |-> s'.api, mode |-> "layer"]
    <3>1. got' = [in |-> got'.in, out |-> got'.out, api |-> s.api, mode |-> "layer"]
      BY <1>10, Filled
    <3>2. s' = s
      BY <1>1
    <3> QED
      BY <3>1, <3>2, Zenon
  <2>3. k' \in 1 .. Len(s'.in) + 1 /\ k' - 1 = k /\ pc' = "inputs"
    BY <1>1, <1>6
  <2> QED
    BY <2>1, <2>2, <2>3 DEF GotInv
<1> QED
  BY <1>11, <1>12, <1>13 DEF IInv

LEMMA TurnStep == ASSUME IInv, TurnToOutputs PROVE IInv'
<1>1. /\ pc = "inputs" /\ image' = Pointers(3) /\ k' = 1 /\ s' = s /\ size' = size /\ at' = at
      /\ base' = base /\ imports' = imports /\ got' = got /\ k > Len(s.in)
      /\ pc' = IF Table(3) = OutTable THEN "outputs" ELSE "astray"
  BY DEF TurnToOutputs
<1>2. InBlock /\ image[1] = Tables(TRUE, Again) /\ Again \in BOOLEAN /\ (imports = 0 \/ base = 0)
  <2>1. InBlock
    BY <1>1, Block
  <2>2. image[1] = Tables(TRUE, Again) /\ (imports = 0 \/ base = 0)
    BY <1>1 DEF IInv, HeadInv
  <2>3. Again \in BOOLEAN
    BY DEF Again
  <2> QED
    BY <2>1, <2>2, <2>3
<1>3. InBlock'
  BY <1>1, <1>2, BlockPointed
<1>4. ~Again \/ base = 0
  BY <1>2 DEF Again
<1>5. pc' = "outputs"
  BY <1>1, <1>2, <1>4, TablesAre DEF InBlock
<1>6. image'[1] = Tables(TRUE, TRUE)
  BY <1>1, <1>2, <1>4, PointersAre DEF InBlock
<1>7. ShapeInv' /\ BlockInv'
  BY <1>2, <1>3, <1>5, BlockKept
<1>8. HeadInv'
  <2>1. Tables(TRUE, TRUE)' = Tables(TRUE, TRUE)
    BY <1>1 DEF Tables, Moved, InTable, OutTable
  <2>2. image'[0] = <<"session", s.api, s.mode, Len(s.in), Len(s.out)>>
    BY <1>1, <1>3 DEF InBlock
  <2> QED
    BY <1>1, <1>2, <1>5, <1>6, <2>1, <2>2 DEF HeadInv
<1>9. GotInv'
  <2>1. /\ k \in 1 .. Len(s.in) + 1 /\ Same(got.in, s.in, k - 1) /\ Same(got.out, s.out, 0)
        /\ got = [in |-> got.in, out |-> got.out, api |-> s.api, mode |-> "layer"]
    BY <1>1 DEF IInv, GotInv
  <2>2. Len(s.in) \in Nat /\ Len(s.out) \in Nat
    BY <1>2, SessionFacts DEF InBlock
  <2>3. k - 1 = Len(s.in)
    <3> DEFINE l == Len(s.in)
    <3>1. l \in Nat /\ k \in 1 .. l + 1 /\ k > l
      BY <1>1, <2>1, <2>2
    <3> HIDE DEF l
    <3>2. k - 1 = l
      BY <3>1
    <3> QED
      BY <3>2 DEF l
  <2>4. 1 \in 1 .. Len(s.out) + 1 /\ 1 - 1 = 0
    BY <2>2
  <2> QED
    BY <1>1, <1>5, <2>1, <2>3, <2>4 DEF GotInv
<1> QED
  BY <1>7, <1>8, <1>9 DEF IInv

LEMMA LoadOutputStep == ASSUME IInv, LoadOutput PROVE IInv'
<1>1. /\ pc = "outputs" /\ pc' = pc /\ k' = k + 1 /\ s' = s /\ size' = size /\ at' = at
      /\ image' = image /\ base' = base /\ imports' = imports /\ k <= Len(s.out)
      /\ got' = [got EXCEPT !.out = Append(@, TensorLoad(Offset(image[OutTable + k - 1][2])))]
  BY DEF LoadOutput
<1>2. InBlock
  BY <1>1, Block
<1>3. InBlock'
  BY <1>1, <1>2, BlockStays DEF InBlock
<1>4. /\ k \in 1 .. Len(s.out) + 1 /\ Same(got.in, s.in, Len(s.in)) /\ Same(got.out, s.out, k - 1)
      /\ got = [in |-> got.in, out |-> got.out, api |-> s.api, mode |-> "layer"]
  BY <1>1 DEF IInv, GotInv
<1>5. s \in Session /\ Len(s.in) \in Nat /\ Len(s.out) \in Nat
  BY <1>2, SessionFacts DEF InBlock
<1> DEFINE l == Len(s.in)
           m == Len(s.out)
           n == l + k
           x == TensorLoad(Offset(image[OutTable + k - 1][2]))
<1>6. k \in 1 .. m /\ k + 1 \in 1 .. m + 1 /\ (k + 1) - 1 = k /\ k - 1 \in Nat /\ (k - 1) + 1 = k
  <2>1. m \in Nat /\ k \in 1 .. m + 1 /\ k <= m
    BY <1>1, <1>4, <1>5
  <2> HIDE DEF m
  <2> QED
    BY <2>1
<1>7. n \in 1 .. Total(s) /\ SlotOf(s, n) = OutTable + k - 1
  <2>1. l \in Nat /\ m \in Nat /\ Total(s) = l + m /\ k \in 1 .. m /\ OutTable \in Nat
    BY <1>5, <1>6, Slots DEF Total
  <2>2. Slot(n) = IF n <= l THEN InTable + n - 1 ELSE OutTable + n - 1 - l
    BY DEF Slot
  <2>3. l + k \in 1 .. Total(s)
    <3> HIDE DEF l, m
    <3> QED
      BY <2>1
  <2>4. SlotOf(s, n) = Slot(n)
    BY <1>5, <2>3, Slots
  <2>5. n = l + k
    OBVIOUS
  <2> HIDE DEF l, m, n
  <2>6. Slot(n) = OutTable + k - 1
    BY <2>1, <2>2, <2>5
  <2> QED
    BY <2>3, <2>4, <2>5, <2>6
<1>8. SameTensor(x, s.out[k])
  <2>1. SameTensor(TensorLoad(Offset(image[SlotOf(s, n)][2])), Tensors(s)[n])
    <3> HIDE DEF n
    <3> QED
      BY <1>2, <1>7, ReadBack DEF InBlock
  <2>2. Tensors(s)[n] = s.out[k]
    BY <1>5, <1>6, SessionFacts
  <2> QED
    BY <1>7, <2>1, <2>2
<1> HIDE DEF x, n
<1>9. Same(Append(got.out, x), s.out, k)
  BY <1>4, <1>6, <1>8, OneMore
<1>10. got' = [in |-> got.in, out |-> Append(got.out, x), api |-> s.api, mode |-> "layer"]
  <2> DEFINE h == Append(got.out, x)
  <2>1. got' = [got EXCEPT !.out = h]
    BY <1>1 DEF x
  <2> HIDE DEF h
  <2>2. got' = [in |-> got.in, out |-> h, api |-> s.api, mode |-> "layer"]
    BY <1>4, <2>1, Filled
  <2> QED
    BY <2>2 DEF h
<1>11. ShapeInv' /\ BlockInv'
  BY <1>1, <1>2, <1>3, BlockKept
<1>12. HeadInv'
  <2>1. Tables(TRUE, TRUE)' = Tables(TRUE, TRUE)
    BY <1>1 DEF Tables, Moved, InTable, OutTable, Again
  <2>2. image[1] = Tables(TRUE, TRUE) /\ (imports = 0 \/ base = 0)
    BY <1>1 DEF IInv, HeadInv
  <2>3. image'[0] = <<"session", s'.api, s'.mode, Len(s'.in), Len(s'.out)>>
    BY <1>3 DEF InBlock
  <2> QED
    BY <1>1, <2>1, <2>2, <2>3 DEF HeadInv
<1>13. GotInv'
  <2>1. Same(got'.in, s'.in, Len(s'.in)) /\ Same(got'.out, s'.out, k)
    <3>1. got'.in = got.in /\ got'.out = Append(got.out, x)
      BY <1>10
    <3>2. s' = s
      BY <1>1
    <3> QED
      BY <1>4, <1>9, <3>1, <3>2, Zenon
  <2>2. got' = [in |-> got'.in, out |-> got'.out, api |-> s'.api, mode |-> "layer"]
    <3>1. got' = [in |-> got'.in, out |-> got'.out, api |-> s.api, mode |-> "layer"]
      BY <1>10, Filled
    <3>2. s' = s
      BY <1>1
    <3> QED
      BY <3>1, <3>2, Zenon
  <2>3. k' \in 1 .. Len(s'.out) + 1 /\ k' - 1 = k /\ pc' = "outputs"
    BY <1>1, <1>6
  <2> QED
    BY <2>1, <2>2, <2>3 DEF GotInv
<1> QED
  BY <1>11, <1>12, <1>13 DEF IInv

LEMMA ImportedStep == ASSUME IInv, Imported PROVE IInv'
<1>1. /\ pc = "outputs" /\ pc' = "file" /\ k' = k /\ s' = s /\ size' = size /\ at' = at
      /\ image' = image /\ base' = base /\ imports' = imports + 1 /\ got' = got /\ k > Len(s.out)
  BY DEF Imported
<1>2. InBlock /\ imports \in Nat /\ imports' \in Nat /\ imports' > 0
  BY <1>1, Block DEF InBlock
<1>3. InBlock'
  BY <1>1, <1>2, BlockStays
<1>4. image[1] = Tables(TRUE, TRUE)
  BY <1>1 DEF IInv, HeadInv
<1>5. ShapeInv' /\ BlockInv'
  BY <1>1, <1>2, <1>3, BlockKept
<1>6. HeadInv'
  <2>1. Again' = TRUE
    BY <1>2 DEF Again
  <2>2. Tables(Again, Again)' = Tables(TRUE, TRUE)
    BY <1>1, <2>1 DEF Tables, Moved, InTable, OutTable
  <2>3. image'[0] = <<"session", s.api, s.mode, Len(s.in), Len(s.out)>>
    BY <1>1, <1>3 DEF InBlock
  <2> QED
    BY <1>1, <1>4, <2>2, <2>3 DEF HeadInv
<1>7. GotInv'
  <2>1. /\ k \in 1 .. Len(s.out) + 1 /\ Same(got.in, s.in, Len(s.in)) /\ Same(got.out, s.out, k - 1)
        /\ got = [in |-> got.in, out |-> got.out, api |-> s.api, mode |-> "layer"]
    BY <1>1 DEF IInv, GotInv
  <2>2. k - 1 = Len(s.out)
    <3> DEFINE m == Len(s.out)
    <3>1. m \in Nat /\ k \in 1 .. m + 1 /\ k > m
      BY <1>1, <1>2, <2>1, SessionFacts DEF InBlock
    <3> HIDE DEF m
    <3>2. k - 1 = m
      BY <3>1
    <3> QED
      BY <3>2 DEF m
  <2> QED
    BY <1>1, <2>1, <2>2 DEF GotInv
<1> QED
  BY <1>5, <1>6, <1>7 DEF IInv

LEMMA NoStep == ASSUME IInv, UNCHANGED vars PROVE IInv'
<1>1. /\ s' = s /\ pc' = pc /\ k' = k /\ size' = size /\ at' = at /\ image' = image
      /\ base' = base /\ imports' = imports /\ got' = got
  BY DEF vars
<1> QED
  BY <1>1 DEF IInv, ShapeInv, BlockInv, HeadInv, GotInv, Tables, Moved, InTable, OutTable, Again

LEMMA Invariance == Spec => []IInv
<1>1. ASSUME IInv, [Next]_vars PROVE IInv'
  BY <1>1, MeasureStep, PutTensorStep, PutSessionStep, ImportStep, LoadInputStep, TurnStep,
     LoadOutputStep, ImportedStep, NoStep DEF Next, Dump, Load
<1> QED
  BY InitInv, <1>1, PTL DEF Spec
-----------------------------------------------------------------------------
(* session_dump never writes past the block it has measured, and leaves no  *)
(* part of it unused: for every session, the loops that measure and those   *)
(* that write agree about the sum of the parts.                             *)
THEOREM ImageAlwaysFilled == Spec => []ImageFilled
<1>1. IInv => ImageFilled
  <2> SUFFICES ASSUME IInv PROVE ImageFilled
    OBVIOUS
  <2>1. CASE pc = "put"
    <3>1. s \in Session /\ k \in 1 .. Total(s) + 1 /\ size = Full(s) /\ at = After(s, k)
      BY <2>1 DEF IInv, ShapeInv, BlockInv
    <3> DEFINE l == Len(s.in)
               m == Len(s.out)
               n == Total(s)
               p == Sum(s)[k - 1]
               e == Sum(s)[Total(s)]
    <3>2. l \in Nat /\ m \in Nat /\ n \in Nat
      BY <3>1, SessionFacts
    <3>3. n = l + m /\ k \in 1 .. n + 1
      BY <3>1 DEF Total
    <3> HIDE DEF l, m, n, p, e
    <3>4. k - 1 \in Nat /\ k - 1 <= n /\ k - 1 \in 0 .. n /\ n \in 0 .. n
      BY <3>2, <3>3
    <3>5. k - 1 \in 0 .. Total(s) /\ Total(s) \in 0 .. Total(s) /\ k - 1 \in Nat /\ Total(s) \in Nat
          /\ k - 1 <= Total(s) /\ Total(s) <= Total(s)
      BY <3>2, <3>4 DEF n
    <3>6. p \in Nat /\ e \in Nat
      BY <3>1, <3>5, SumFacts DEF p, e
    <3>7. p <= e
      BY <3>1, <3>5, Monotone DEF p, e
    <3>8. at = 2 + l + p + (IF k - 1 <= l THEN 0 ELSE m) /\ size = 2 + n + e
      BY <3>1 DEF After, Full, l, m, n, p, e
    <3>9. at <= size
      BY <3>2, <3>3, <3>6, <3>7, <3>8
    <3> QED
      BY <2>1, <3>9 DEF ImageFilled
  <2>2. CASE pc # "put"
    BY <2>2 DEF IInv, BlockInv, ImageFilled
  <2> QED
    BY <2>1, <2>2
<1> QED
  BY Invariance, <1>1, PTL

(* Every session that csinn_import_binary_model completes is the one that   *)
(* session_dump wrote, tensor by tensor; a name runs on exactly when the    *)
(* first byte after it is not zero, and the backend is lost exactly for the *)
(* reference backend on a graph.                                            *)
THEOREM RoundTripHolds == Spec => []RoundTrip
<1>1. IInv => RoundTrip
  <2> SUFFICES ASSUME IInv, pc = "file", imports > 0 PROVE RoundTrip
    BY DEF RoundTrip
  <2>1. /\ s \in Session /\ Same(got.in, s.in, Len(s.in)) /\ Same(got.out, s.out, Len(s.out))
        /\ got = [in |-> got.in, out |-> got.out, api |-> s.api, mode |-> "layer"]
    BY DEF IInv, ShapeInv, GotInv
  <2>2. DOMAIN s.in = 1 .. Len(s.in) /\ DOMAIN s.out = 1 .. Len(s.out)
    BY <2>1, SessionFacts
  <2>3. /\ Len(got.in) = Len(s.in) /\ \A n \in DOMAIN s.in : SameTensor(got.in[n], s.in[n])
        /\ Len(got.out) = Len(s.out) /\ \A n \in DOMAIN s.out : SameTensor(got.out[n], s.out[n])
    BY <2>1, <2>2, Zenon DEF Same
  <2>4. got.api = s.api /\ got.mode = "layer"
    BY <2>1
  <2>5. BackendOf(got) = BackendOf(s) <=> ~(s.api = "ref" /\ s.mode = "cpu_graph")
    BY <2>4 DEF BackendOf
  <2> QED
    BY <2>3, <2>5 DEF RoundTrip
<1> QED
  BY Invariance, <1>1, PTL

(* The offsets of the tables are good for one import: afterwards they lead  *)
(* to the tables only where the address of the image is zero modulo Word,   *)
(* and no import goes astray before another has been completed.             *)
THEOREM ImportsUseUp == Spec => []ImportUsesUp
<1>1. IInv => ImportUsesUp
  <2> SUFFICES ASSUME IInv PROVE ImportUsesUp
    OBVIOUS
  <2>1. pc = "astray" => imports > 0 /\ base # 0
    BY DEF IInv, HeadInv
  <2>2. ASSUME pc = "file"
        PROVE  /\ Table(2) = InTable <=> (imports = 0 \/ base = 0)
               /\ Table(3) = OutTable <=> (imports = 0 \/ base = 0)
    <3>1. /\ s \in Session /\ base \in Base /\ imports \in Nat
          /\ image[1] = Tables(Again, Again) /\ Again \in BOOLEAN
      BY <2>2 DEF IInv, ShapeInv, HeadInv, Again
    <3>2. ~Again <=> imports = 0
      BY <3>1 DEF Again
    <3> QED
      BY <3>1, <3>2, TablesAre
  <2> QED
    BY <2>1, <2>2 DEF ImportUsesUp
<1> QED
  BY Invariance, <1>1, PTL
=============================================================================
