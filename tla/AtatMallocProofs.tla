-------------------------- MODULE AtatMallocProofs --------------------------
(***************************************************************************)
(* Proofs about AtatMalloc for every size of header, gulp and request, and *)
(* however others move the break: the blocks tile the memory they were     *)
(* laid out in, that memory came from sbrk and does not belong to others,  *)
(* and the free list descends without neighbours that touch.  A step       *)
(* exchanges a few blocks for others, which cover the same units or those  *)
(* up to the new break; that this preserves a tiling is one lemma          *)
(* (Retiled), what it does to the list another (SplicedList, CutList), and *)
(* how the break, the heap and the others lie a third (BreakGrown).        *)
(***************************************************************************)
EXTENDS AtatMalloc, SequenceTheorems, TLAPS

BlockType == [at : Nat, len : Nat]

Listed == {F[k] : k \in DOMAIN F}

(* Coalesced for any two blocks, not only for neighbours in the list. *)
Ordered == Sane => \A k, l \in DOMAIN F : k < l => End(F[l]) < F[k].at

(* What others got lies below the break, but for the end of an overhang. *)
OthersBelow ==
  Sane /\ ~rtos =>
    \A a \in others : Before(a, brk) \/ (a.unit \in ragged /\ a.byte # 0)

BreakInv == InHeap /\ OthersBelow

IInv == TypeOK /\ HeapTiled /\ Ordered /\ BreakInv
-----------------------------------------------------------------------------
(* Blocks *)

LEMMA BlockFacts ==
  \A b \in BlockType :
    /\ b.at \in Nat /\ b.len \in Nat /\ End(b) \in Nat /\ b.at < End(b)
    /\ End(b) = b.at + Header + b.len
    /\ \A u : u \in Span(b) <=> u \in Int /\ b.at <= u /\ u < End(b)
    /\ b.at \in Span(b)
  BY HeaderAssumption DEF BlockType, End, Span

LEMMA BlockMade ==
  ASSUME NEW at \in Nat, NEW len \in Nat
  PROVE  /\ Block(at, len) \in BlockType
         /\ Block(at, len).at = at /\ Block(at, len).len = len
         /\ End(Block(at, len)) = at + Header + len
  BY DEF Block, BlockType, End

LEMMA Apart ==
  ASSUME NEW b \in BlockType, NEW c \in BlockType
  PROVE  Span(b) \cap Span(c) = {} <=> End(b) <= c.at \/ End(c) <= b.at
<1>1. /\ b.at \in Nat /\ End(b) \in Nat /\ b.at < End(b) /\ b.at \in Span(b)
      /\ c.at \in Nat /\ End(c) \in Nat /\ c.at < End(c) /\ c.at \in Span(c)
      /\ \A u : u \in Span(b) <=> u \in Int /\ b.at <= u /\ u < End(b)
      /\ \A u : u \in Span(c) <=> u \in Int /\ c.at <= u /\ u < End(c)
  BY BlockFacts
<1>2. ASSUME Span(b) \cap Span(c) = {} PROVE End(b) <= c.at \/ End(c) <= b.at
  <2>1. c.at \notin Span(b) /\ b.at \notin Span(c)
    BY <1>1, <1>2
  <2> QED
    BY <1>1, <2>1
<1>3. ASSUME End(b) <= c.at \/ End(c) <= b.at PROVE Span(b) \cap Span(c) = {}
  <2> SUFFICES ASSUME NEW u \in Span(b), u \in Span(c) PROVE FALSE
    OBVIOUS
  <2> QED
    BY <1>1, <1>3
<1> QED
  BY <1>2, <1>3
-----------------------------------------------------------------------------
(* Sequences *)

LEMMA Elements ==
  ASSUME NEW S, NEW s \in Seq(S)
  PROVE  /\ Len(s) \in Nat /\ DOMAIN s = 1 .. Len(s) /\ \A k \in DOMAIN s : s[k] \in S
  OBVIOUS

LEMMA Parts ==
  ASSUME NEW S, NEW s \in Seq(S), NEW i \in 0 .. Len(s), NEW j \in 0 .. Len(s)
  PROVE  /\ SubSeq(s, 1, i) \in Seq(S) /\ Len(SubSeq(s, 1, i)) = i
         /\ \A k \in 1 .. i : SubSeq(s, 1, i)[k] = s[k]
         /\ SubSeq(s, j + 1, Len(s)) \in Seq(S) /\ Len(SubSeq(s, j + 1, Len(s))) = Len(s) - j
         /\ \A k \in 1 .. Len(s) - j : SubSeq(s, j + 1, Len(s))[k] = s[j + k]
<1>1. Len(s) \in Nat /\ \A k \in 1 .. Len(s) : s[k] \in S
  BY Elements
<1>2. \A k \in 1 .. i : s[k] \in S
  BY <1>1
<1>3. \A k \in j + 1 .. Len(s) : s[k] \in S
  BY <1>1
<1>4. 1 \in Int /\ i \in Int /\ j + 1 \in Int /\ Len(s) \in Int
  BY <1>1
<1>5. /\ SubSeq(s, 1, i) \in Seq(S)
      /\ Len(SubSeq(s, 1, i)) = IF 1 <= i THEN i - 1 + 1 ELSE 0
      /\ \A k \in 1 .. i - 1 + 1 : SubSeq(s, 1, i)[k] = s[1 + k - 1]
  BY ONLY <1>2, <1>4, SubSeqProperties
<1>6. /\ SubSeq(s, j + 1, Len(s)) \in Seq(S)
      /\ Len(SubSeq(s, j + 1, Len(s))) = IF j + 1 <= Len(s) THEN Len(s) - (j + 1) + 1 ELSE 0
      /\ \A k \in 1 .. Len(s) - (j + 1) + 1 : SubSeq(s, j + 1, Len(s))[k] = s[j + 1 + k - 1]
  BY ONLY <1>3, <1>4, SubSeqProperties
<1> QED
  BY <1>1, <1>5, <1>6

(* The elements from i + 1 to j are taken out ... *)
LEMMA CutOut ==
  ASSUME NEW S, NEW s \in Seq(S), NEW i \in 0 .. Len(s), NEW j \in i .. Len(s)
  PROVE  LET r == SubSeq(s, 1, i) \o SubSeq(s, j + 1, Len(s)) IN
         /\ r \in Seq(S) /\ Len(r) = i + (Len(s) - j)
         /\ \A k \in 1 .. i : r[k] = s[k]
         /\ \A k \in i + 1 .. i + (Len(s) - j) : r[k] = s[k - i + j]
<1> DEFINE a == SubSeq(s, 1, i)
           b == SubSeq(s, j + 1, Len(s))
<1>1. j \in 0 .. Len(s) /\ Len(s) \in Nat
  BY Elements
<1>2. /\ a \in Seq(S) /\ Len(a) = i /\ \A k \in 1 .. i : a[k] = s[k]
      /\ b \in Seq(S) /\ Len(b) = Len(s) - j /\ \A k \in 1 .. Len(s) - j : b[k] = s[j + k]
  BY <1>1, Parts
<1> HIDE DEF a, b
<1>3. /\ a \o b \in Seq(S) /\ Len(a \o b) = i + (Len(s) - j)
      /\ \A k \in 1 .. i + (Len(s) - j) : (a \o b)[k] = IF k <= i THEN a[k] ELSE b[k - i]
  <2>1. a \in Seq(S) /\ b \in Seq(S) /\ Len(a) = i /\ Len(b) = Len(s) - j
    BY <1>2
  <2>2. /\ a \o b \in Seq(S) /\ Len(a \o b) = Len(a) + Len(b)
        /\ \A k \in 1 .. Len(a) + Len(b) : (a \o b)[k] = IF k <= Len(a) THEN a[k] ELSE b[k - Len(a)]
    BY ONLY <2>1, ConcatProperties
  <2> QED
    BY ONLY <2>1, <2>2
<1>4. \A k \in 1 .. i : (a \o b)[k] = s[k]
  BY <1>1, <1>2, <1>3
<1>5. ASSUME NEW k \in i + 1 .. i + (Len(s) - j) PROVE (a \o b)[k] = s[k - i + j]
  <2>1. (a \o b)[k] = b[k - i]
    BY <1>1, <1>3
  <2>2. k - i \in 1 .. Len(s) - j /\ j + (k - i) = k - i + j
    BY <1>1
  <2> QED
    BY <1>2, <2>1, <2>2
<1> QED
  BY <1>3, <1>4, <1>5 DEF a, b

(* ... or exchanged for one. *)
Splice(s, i, j, e) == Append(SubSeq(s, 1, i), e) \o SubSeq(s, j + 1, Len(s))

HasSpliced(S, s, i, j, e, r) ==
  /\ r \in Seq(S) /\ Len(r) = i + 1 + (Len(s) - j)
  /\ \A k \in 1 .. i : r[k] = s[k]
  /\ r[i + 1] = e
  /\ \A k \in i + 2 .. i + 1 + (Len(s) - j) : r[k] = s[k - (i + 1) + j]

LEMMA Spliced ==
  ASSUME NEW S, NEW s \in Seq(S), NEW i \in 0 .. Len(s), NEW j \in i .. Len(s), NEW e \in S
  PROVE  HasSpliced(S, s, i, j, e, Splice(s, i, j, e))
<1> DEFINE a0 == SubSeq(s, 1, i)
           a == Append(a0, e)
           b == SubSeq(s, j + 1, Len(s))
<1>1. j \in 0 .. Len(s) /\ Len(s) \in Nat
  BY Elements
<1>2. /\ a0 \in Seq(S) /\ Len(a0) = i /\ \A k \in 1 .. i : a0[k] = s[k]
      /\ b \in Seq(S) /\ Len(b) = Len(s) - j /\ \A k \in 1 .. Len(s) - j : b[k] = s[j + k]
  BY <1>1, Parts
<1> HIDE DEF a0, b
<1>3. /\ a \in Seq(S) /\ Len(a) = i + 1 /\ a[i + 1] = e
      /\ \A k \in 1 .. i : a[k] = a0[k]
  BY <1>2, AppendProperties
<1> HIDE DEF a
<1>4. /\ a \o b \in Seq(S) /\ Len(a \o b) = i + 1 + (Len(s) - j)
      /\ \A k \in 1 .. i + 1 + (Len(s) - j) : (a \o b)[k] = IF k <= i + 1 THEN a[k] ELSE b[k - (i + 1)]
  <2>1. /\ a \o b \in Seq(S) /\ Len(a \o b) = Len(a) + Len(b)
        /\ \A k \in 1 .. Len(a) + Len(b) : (a \o b)[k] = IF k <= Len(a) THEN a[k] ELSE b[k - Len(a)]
    BY <1>2, <1>3, ConcatProperties
  <2> QED
    BY <1>2, <1>3, <2>1
<1>5. /\ \A k \in 1 .. i : (a \o b)[k] = s[k]
      /\ (a \o b)[i + 1] = e
  BY <1>1, <1>2, <1>3, <1>4
<1>6. ASSUME NEW k \in i + 2 .. i + 1 + (Len(s) - j) PROVE (a \o b)[k] = s[k - (i + 1) + j]
  <2>1. (a \o b)[k] = b[k - (i + 1)]
    BY <1>1, <1>4
  <2>2. k - (i + 1) \in 1 .. Len(s) - j /\ j + (k - (i + 1)) = k - (i + 1) + j
    BY <1>1
  <2> QED
    BY <1>2, <2>1, <2>2
<1> QED
  BY <1>4, <1>5, <1>6 DEF a, b, a0, Splice, HasSpliced
-----------------------------------------------------------------------------
(* The heap in one state *)

LEMMA StateFacts ==
  ASSUME IInv
  PROVE  /\ F \in Seq(BlockType) /\ Len(F) \in Nat /\ DOMAIN F = 1 .. Len(F)
         /\ \A k \in DOMAIN F : F[k] \in BlockType
         /\ used \subseteq BlockType /\ Listed \subseteq BlockType /\ Blocks = used \cup Listed
         /\ Blocks \subseteq BlockType
         /\ Sane => Tiled(Blocks, owned, dropped) /\ used \cap Listed = {}
<1>1. F \in Seq(BlockType) /\ used \subseteq BlockType
  BY DEF IInv, TypeOK, BlockType
<1>2. Len(F) \in Nat /\ DOMAIN F = 1 .. Len(F) /\ \A k \in DOMAIN F : F[k] \in BlockType
  BY <1>1, Elements
<1>3. Blocks = used \cup Listed /\ Listed \subseteq BlockType
  BY <1>2 DEF Blocks, Listed
<1>4. Sane => Tiled(Blocks, owned, dropped)
  BY DEF IInv, HeapTiled
<1>5. Sane => used \cap Listed = {}
  BY DEF IInv, HeapTiled, Listed
<1> QED
  BY <1>1, <1>2, <1>3, <1>4, <1>5

LEMMA ListDistinct ==
  ASSUME IInv, Sane, NEW k \in DOMAIN F, NEW l \in DOMAIN F, F[k] = F[l]
  PROVE  k = l
<1>1. k \in Nat /\ l \in Nat /\ F[k] \in BlockType
  BY StateFacts
<1>2. F[k].at < End(F[k]) /\ F[k].at \in Nat /\ End(F[k]) \in Nat
  BY <1>1, BlockFacts
<1>3. k < l => End(F[k]) < F[k].at
  BY DEF IInv, Ordered
<1>4. l < k => End(F[k]) < F[k].at
  BY DEF IInv, Ordered
<1> QED
  BY <1>1, <1>2, <1>3, <1>4

(* A heap that is as it should be makes the invariant. *)
LEMMA HeapKept ==
  ASSUME TypeOK', Tiled(Blocks, owned, dropped)', (used \cap Listed = {})',
         \A k, l \in DOMAIN F' : k < l => End(F'[l]) < F'[k].at, BreakInv'
  PROVE  IInv'
<1>1. \A k \in DOMAIN F' : F'[k] \notin used'
  BY DEF Listed
<1>2. HeapTiled'
  BY <1>1 DEF HeapTiled
<1>3. Ordered'
  BY DEF Ordered
<1> QED
  BY <1>2, <1>3 DEF IInv

LEMMA BreakSame ==
  ASSUME IInv, UNCHANGED <<rtos, brk, owned, others, ragged, torn>>
  PROVE  BreakInv'
<1>1. InHeap'
  BY DEF IInv, BreakInv, InHeap, Sane, Before
<1>2. OthersBelow'
  BY DEF IInv, BreakInv, OthersBelow, Sane, Before
<1> QED
  BY <1>1, <1>2 DEF BreakInv

LEMMA Stutter ==
  ASSUME IInv, UNCHANGED vars PROVE IInv'
<1>1. TypeOK'
  BY DEF IInv, TypeOK, vars
<1>2. HeapTiled'
  BY DEF IInv, HeapTiled, Tiled, Spans, Span, End, Blocks, Sane, vars
<1>3. Ordered'
  BY DEF IInv, Ordered, End, Sane, vars
<1>4. BreakInv'
  BY BreakSame DEF vars
<1> QED
  BY <1>1, <1>2, <1>3, <1>4 DEF IInv
-----------------------------------------------------------------------------
(* What a step does to the list and to the tiling *)

LEMMA SplicedList ==
  ASSUME IInv, Sane, NEW i \in 0 .. Len(F), NEW j \in i .. Len(F), NEW e \in BlockType,
         F' \in Seq(BlockType), Len(F') = i + 1 + (Len(F) - j),
         \A k \in 1 .. i : F'[k] = F[k],
         F'[i + 1] = e,
         \A k \in i + 2 .. i + 1 + (Len(F) - j) : F'[k] = F[k - (i + 1) + j],
         \A k \in 1 .. i : End(e) < F[k].at,
         \A k \in j + 1 .. Len(F) : End(F[k]) < e.at
  PROVE  /\ \A k, l \in DOMAIN F' : k < l => End(F'[l]) < F'[k].at
         /\ Listed' = (Listed \ {F[k] : k \in i + 1 .. j}) \cup {e}
<1>1. /\ Len(F) \in Nat /\ DOMAIN F = 1 .. Len(F) /\ DOMAIN F' = 1 .. i + 1 + (Len(F) - j)
      /\ i \in Nat /\ j \in Nat /\ i <= j /\ j <= Len(F)
  BY StateFacts, Elements
<1> DEFINE from(k) == IF k <= i THEN k ELSE k - (i + 1) + j
<1>2. ASSUME NEW k \in DOMAIN F', k # i + 1
      PROVE  /\ from(k) \in DOMAIN F /\ F'[k] = F[from(k)]
             /\ from(k) \in 1 .. i \/ from(k) \in j + 1 .. Len(F)
             /\ k < i + 1 <=> from(k) \in 1 .. i
  <2>0. k \in Nat /\ 1 <= k /\ k <= i + 1 + (Len(F) - j)
    BY <1>1
  <2>1. CASE k <= i
    BY <1>1, <2>0, <2>1
  <2>2. CASE k > i + 1
    <3>1. k \in i + 2 .. i + 1 + (Len(F) - j) /\ from(k) = k - (i + 1) + j
      BY <1>1, <2>0, <2>2
    <3>2. k - (i + 1) + j \in j + 1 .. Len(F)
      BY <1>1, <2>0, <2>2
    <3>3. from(k) \notin 1 .. i
      BY <1>1, <3>1, <3>2
    <3>4. F'[k] = F[from(k)]
      BY <3>1
    <3> HIDE DEF from
    <3> QED
      BY <1>1, <2>0, <2>2, <3>1, <3>2, <3>3, <3>4
  <2> QED
    BY <1>1, <1>2, <2>0, <2>1, <2>2
<1>3. ASSUME NEW k \in DOMAIN F', NEW l \in DOMAIN F', k < l
      PROVE  End(F'[l]) < F'[k].at
  <2>1. k \in Nat /\ l \in Nat /\ i \in Nat /\ j \in Nat
    BY <1>1
  <2>2. CASE k = i + 1
    <3>1. l # i + 1 /\ ~(l < i + 1)
      BY <1>3, <2>1, <2>2
    <3>2. from(l) \in j + 1 .. Len(F) /\ F'[l] = F[from(l)]
      BY <1>2, <3>1
    <3> HIDE DEF from
    <3> QED
      BY <2>2, <3>2
  <2>3. CASE l = i + 1
    <3>1. k # i + 1 /\ k < i + 1
      BY <1>3, <2>1, <2>3
    <3>2. from(k) \in 1 .. i /\ F'[k] = F[from(k)]
      BY <1>2, <3>1
    <3> HIDE DEF from
    <3> QED
      BY <2>3, <3>2
  <2>4. CASE k # i + 1 /\ l # i + 1
    <3>1. from(k) < from(l)
      <4>1. l <= i => k <= i
        BY <1>1, <1>3, <2>1
      <4>2. k <= i /\ ~(l <= i) => k < l - (i + 1) + j
        <5>1. i <= j /\ l # i + 1
          BY <1>1, <2>4
        <5> QED
          BY ONLY <2>1, <5>1
      <4>3. k - (i + 1) + j < l - (i + 1) + j
        BY <1>1, <1>3, <2>1
      <4> QED
        BY <1>3, <4>1, <4>2, <4>3
    <3>2. /\ from(k) \in DOMAIN F /\ F'[k] = F[from(k)]
          /\ from(l) \in DOMAIN F /\ F'[l] = F[from(l)]
      BY <1>2, <2>4
    <3> HIDE DEF from
    <3> QED
      BY <3>1, <3>2 DEF IInv, Ordered
  <2> QED
    BY <2>2, <2>3, <2>4
<1>4. Listed' = (Listed \ {F[k] : k \in i + 1 .. j}) \cup {e}
  <2>1. \A k \in DOMAIN F' : F'[k] \in (Listed \ {F[x] : x \in i + 1 .. j}) \cup {e}
    <3> SUFFICES ASSUME NEW k \in DOMAIN F', k # i + 1
                 PROVE  F'[k] \in Listed \ {F[x] : x \in i + 1 .. j}
      OBVIOUS
    <3>1. /\ from(k) \in DOMAIN F /\ F'[k] = F[from(k)]
          /\ from(k) \in 1 .. i \/ from(k) \in j + 1 .. Len(F)
      BY <1>2
    <3>2. from(k) \notin i + 1 .. j
      BY <1>1, <3>1
    <3> HIDE DEF from
    <3>3. \A x \in i + 1 .. j : x \in DOMAIN F
      BY <1>1
    <3>4. \A x \in i + 1 .. j : F[x] # F[from(k)]
      BY <3>1, <3>2, <3>3, ListDistinct
    <3> QED
      BY <3>1, <3>4 DEF Listed
  <2>2. \A x \in DOMAIN F : x \notin i + 1 .. j => \E k \in DOMAIN F' : F'[k] = F[x]
    <3> SUFFICES ASSUME NEW x \in DOMAIN F, x \notin i + 1 .. j
                 PROVE  \E k \in DOMAIN F' : F'[k] = F[x]
      OBVIOUS
    <3>1. CASE x \in 1 .. i
      <4>1. x \in DOMAIN F' /\ F'[x] = F[x]
        BY <1>1, <3>1
      <4> QED
        BY <4>1
    <3>2. CASE x \notin 1 .. i
      <4> DEFINE k == x + (i + 1) - j
      <4>0. x \in Nat /\ j < x /\ x <= Len(F)
        BY <1>1, <3>2
      <4>1. k \in i + 2 .. i + 1 + (Len(F) - j) /\ k - (i + 1) + j = x
        BY ONLY <1>1, <4>0, SMTT(30)
      <4>2. k \in DOMAIN F'
        BY <1>1, <4>1
      <4> HIDE DEF k
      <4> QED
        BY <4>1, <4>2
    <3> QED
      BY <3>1, <3>2
  <2>3. i + 1 \in DOMAIN F'
    BY <1>1
  <2>4. Listed' = {F'[k] : k \in DOMAIN F'}
    BY DEF Listed
  <2>5. Listed = {F[k] : k \in DOMAIN F}
    BY DEF Listed
  <2>6. Listed' \subseteq (Listed \ {F[k] : k \in i + 1 .. j}) \cup {e}
    BY <2>1, <2>4
  <2>7. e \in Listed'
    BY <2>3, <2>4
  <2>8. Listed \ {F[k] : k \in i + 1 .. j} \subseteq Listed'
    BY <2>2, <2>4, <2>5
  <2> QED
    BY <2>6, <2>7, <2>8
<1> QED
  BY <1>3, <1>4

LEMMA CutList ==
  ASSUME IInv, Sane, NEW i \in DOMAIN F,
         F' \in Seq(BlockType), Len(F') = Len(F) - 1,
         \A k \in 1 .. i - 1 : F'[k] = F[k],
         \A k \in i .. Len(F) - 1 : F'[k] = F[k + 1]
  PROVE  /\ \A k, l \in DOMAIN F' : k < l => End(F'[l]) < F'[k].at
         /\ Listed' = Listed \ {F[i]}
<1>1. Len(F) \in Nat /\ DOMAIN F = 1 .. Len(F) /\ DOMAIN F' = 1 .. Len(F) - 1
  BY StateFacts, Elements
<1> DEFINE from(k) == IF k < i THEN k ELSE k + 1
<1>2. ASSUME NEW k \in DOMAIN F'
      PROVE  from(k) \in DOMAIN F /\ from(k) # i /\ F'[k] = F[from(k)]
  BY <1>1
<1>3. \A k, l \in DOMAIN F' : k < l => from(k) < from(l)
  BY <1>1
<1>4. \A x \in DOMAIN F : x # i => \E k \in DOMAIN F' : from(k) = x
  <2> SUFFICES ASSUME NEW x \in DOMAIN F, x # i PROVE \E k \in DOMAIN F' : from(k) = x
    OBVIOUS
  <2>1. CASE x < i
    <3>1. x \in DOMAIN F' /\ from(x) = x
      BY <1>1, <2>1
    <3> QED
      BY <3>1
  <2>2. CASE x > i
    <3>1. x - 1 \in DOMAIN F' /\ from(x - 1) = x
      BY <1>1, <2>2
    <3> QED
      BY <3>1
  <2> QED
    BY <1>1, <2>1, <2>2
<1> HIDE DEF from
<1>5. \A k, l \in DOMAIN F' : k < l => End(F'[l]) < F'[k].at
  BY <1>2, <1>3 DEF IInv, Ordered
<1>6. Listed' = Listed \ {F[i]}
  <2>1. \A k \in DOMAIN F' : F'[k] \in Listed /\ F'[k] # F[i]
    BY <1>2, ListDistinct DEF Listed
  <2>2. \A x \in DOMAIN F : F[x] # F[i] => \E k \in DOMAIN F' : F'[k] = F[x]
    BY <1>2, <1>4
  <2>3. Listed' = {F'[k] : k \in DOMAIN F'} /\ Listed = {F[k] : k \in DOMAIN F}
    BY DEF Listed
  <2> QED
    BY <2>1, <2>2, <2>3
<1> QED
  BY <1>5, <1>6

(* Blocks RU and RL leave the two sets, AU and AL come in, and the heap     *)
(* changes by what they cover.                                              *)
Exchange(RU, RL, AU, AL) ==
  /\ RU \subseteq used /\ RL \subseteq Listed /\ AU \subseteq BlockType /\ AL \subseteq BlockType
  /\ used' = (used \ RU) \cup AU /\ Listed' = (Listed \ RL) \cup AL /\ AU \cap AL = {}
  /\ dropped' = dropped
  /\ \A b, c \in AU \cup AL : b # c => Span(b) \cap Span(c) = {}

LEMMA Retiled ==
  ASSUME IInv, Sane, NEW RU, NEW RL, NEW AU, NEW AL, Exchange(RU, RL, AU, AL),
         Spans(AU \cup AL) \cap (owned \ Spans(RU \cup RL)) = {},
         owned' = (owned \ Spans(RU \cup RL)) \cup Spans(AU \cup AL)
  PROVE  Tiled(Blocks, owned, dropped)' /\ (used \cap Listed = {})'
<1> DEFINE R == RU \cup RL
           A == AU \cup AL
<1> USE DEF Exchange
<1>1. /\ Tiled(Blocks, owned, dropped) /\ used \cap Listed = {} /\ Blocks = used \cup Listed
      /\ used \subseteq BlockType /\ Listed \subseteq BlockType
  BY StateFacts
<1>2. R \in SUBSET Blocks
  BY <1>1
<1>3. Blocks' = used' \cup Listed'
  BY DEF Blocks, Listed
<1>4. Blocks' = (Blocks \ R) \cup A
  BY <1>1, <1>3
<1>5. /\ Tiled((Blocks \ R) \cup A, (owned \ Spans(R)) \cup Spans(A), dropped)
      /\ \A b \in Blocks \ R : \A c \in A : Span(b) \cap Span(c) = {}
  <2>1. /\ \A b, c \in A : b # c => Span(b) \cap Span(c) = {}
        /\ Spans(A) \cap (owned \ Spans(R)) = {}
    OBVIOUS
  <2> HIDE DEF R, A
  <2>2. /\ Spans(Blocks) \cup dropped = owned
        /\ \A b \in Blocks : Span(b) \cap dropped = {}
        /\ \A b, c \in Blocks : b # c => Span(b) \cap Span(c) = {}
    BY <1>1 DEF Tiled
  <2>3. /\ Spans(Blocks) = Spans(Blocks \ R) \cup Spans(R)
        /\ Spans((Blocks \ R) \cup A) = Spans(Blocks \ R) \cup Spans(A)
    BY <1>2 DEF Spans
  <2>4. Spans(Blocks \ R) \cap Spans(R) = {} /\ dropped \cap Spans(R) = {}
    BY <1>2, <2>2 DEF Spans
  <2>5. Spans(Blocks \ R) \cup dropped = owned \ Spans(R)
    BY <2>2, <2>3, <2>4
  <2>6. \A c \in A : Span(c) \subseteq Spans(A)
    BY DEF Spans
  <2>7. \A b \in Blocks \ R : Span(b) \subseteq owned \ Spans(R)
    <3>1. \A b \in Blocks \ R : Span(b) \subseteq Spans(Blocks \ R)
      BY DEF Spans
    <3> QED
      BY <2>5, <3>1
  <2>8. \A b \in Blocks \ R : \A c \in A : Span(b) \cap Span(c) = {}
    BY <2>1, <2>6, <2>7
  <2>9. \A c \in A : Span(c) \cap dropped = {}
    BY <2>1, <2>5, <2>6
  <2>10. Spans((Blocks \ R) \cup A) \cup dropped = (owned \ Spans(R)) \cup Spans(A)
    BY <2>3, <2>5
  <2> QED
    BY <2>1, <2>2, <2>8, <2>9, <2>10 DEF Tiled
<1>6. A \subseteq BlockType /\ \A b \in BlockType : Span(b) # {}
  BY BlockFacts
<1>7. A \cap (Blocks \ R) = {}
  <2> HIDE DEF A, R
  <2> QED
    BY <1>5, <1>6
<1>8. used' \cap Listed' = {}
  BY <1>1, <1>7
<1>9. Tiled(Blocks', owned', dropped')
  <2>1. owned' = (owned \ Spans(R)) \cup Spans(A)
    OBVIOUS
  <2> HIDE DEF A, R
  <2> QED
    BY <1>4, <1>5, <2>1
<1> QED
  BY <1>8, <1>9 DEF Tiled, Spans

(* What comes in covers what leaves. *)
LEMMA Recut ==
  ASSUME IInv, Sane, NEW RU, NEW RL, NEW AU, NEW AL, Exchange(RU, RL, AU, AL),
         Spans(AU \cup AL) = Spans(RU \cup RL), owned' = owned
  PROVE  Tiled(Blocks, owned, dropped)' /\ (used \cap Listed = {})'
<1>1. Tiled(Blocks, owned, dropped) /\ Blocks = used \cup Listed
  BY StateFacts
<1>2. RU \cup RL \subseteq Blocks
  BY <1>1 DEF Exchange
<1>3. Spans(RU \cup RL) \subseteq owned
  BY <1>1, <1>2 DEF Tiled, Spans
<1>4. /\ Spans(AU \cup AL) \cap (owned \ Spans(RU \cup RL)) = {}
      /\ owned' = (owned \ Spans(RU \cup RL)) \cup Spans(AU \cup AL)
  BY <1>3
<1> QED
  BY <1>4, Retiled
-----------------------------------------------------------------------------
(* shl_atat_malloc *)

LEMMA SplitInv ==
  ASSUME IInv, Sane, NEW size \in Nat, NEW k \in DOMAIN F, F[k].len - size >= MinBlk,
         F' = [F EXCEPT ![k] = Block(F[k].at + Header + size, F[k].len - size - Header)],
         used' = used \cup {Block(F[k].at, size)},
         UNCHANGED <<rtos, brk, owned, others, ragged, dropped, torn>>
  PROVE  IInv'
<1> DEFINE q    == F[k]
           head == Block(q.at, size)
           rest == Block(q.at + Header + size, q.len - size - Header)
<1>1. /\ F \in Seq(BlockType) /\ Len(F) \in Nat /\ DOMAIN F = 1 .. Len(F) /\ k \in 1 .. Len(F)
      /\ \A l \in DOMAIN F : F[l] \in BlockType
      /\ used \subseteq BlockType /\ q \in BlockType /\ q \in Listed
  BY StateFacts DEF Listed
<1>2. q.at \in Nat /\ q.len \in Nat /\ Header \in Nat \ {0} /\ End(q) = q.at + Header + q.len
  BY <1>1, BlockFacts, HeaderAssumption
<1>3. q.at + Header + size \in Nat /\ q.len - size - Header \in Nat
  <2>1. MinBlk \in Nat /\ MinBlk >= Header
    BY HeaderAssumption
  <2> QED
    BY <1>2, <2>1
<1>4. /\ head \in BlockType /\ head.at = q.at /\ End(head) = q.at + Header + size
      /\ rest \in BlockType /\ rest.at = q.at + Header + size /\ End(rest) = End(q)
  <2>1. /\ rest \in BlockType /\ rest.at = q.at + Header + size
        /\ End(rest) = q.at + Header + size + Header + (q.len - size - Header)
    BY <1>3, BlockMade
  <2>2. head \in BlockType /\ head.at = q.at /\ End(head) = q.at + Header + size
    BY <1>2, BlockMade
  <2> QED
    BY <1>2, <1>3, <2>1, <2>2
<1>5. F' = [F EXCEPT ![k] = rest] /\ used' = used \cup {head}
  OBVIOUS
<1> HIDE DEF head, rest
<1>6. /\ F' \in Seq(BlockType) /\ Len(F') = Len(F)
      /\ \A l \in 1 .. Len(F) : F'[l] = IF l = k THEN rest ELSE F[l]
  BY <1>1, <1>4, <1>5, ExceptSeq
<1>7. /\ \A l \in 1 .. k - 1 : End(rest) < F[l].at
      /\ \A l \in k + 1 .. Len(F) : End(F[l]) < rest.at
  <2>1. \A l \in 1 .. k - 1 : l \in DOMAIN F /\ l < k
    BY <1>1
  <2>2. \A l \in k + 1 .. Len(F) : l \in DOMAIN F /\ k < l /\ End(F[l]) \in Nat
    BY <1>1, BlockFacts
  <2>3. \A l \in k + 1 .. Len(F) : End(F[l]) < q.at
    BY <2>2 DEF IInv, Ordered
  <2>4. q.at < rest.at
    BY <1>2, <1>4
  <2>5. \A l \in 1 .. k - 1 : End(q) < F[l].at
    BY <2>1 DEF IInv, Ordered
  <2>6. q.at \in Nat /\ rest.at \in Nat
    BY <1>2, <1>3, <1>4
  <2> QED
    BY <1>4, <2>2, <2>3, <2>4, <2>5, <2>6
<1>8. /\ \A i, l \in DOMAIN F' : i < l => End(F'[l]) < F'[i].at
      /\ Listed' = (Listed \ {q}) \cup {rest}
  <2> DEFINE i == k - 1
  <2>1. i \in 0 .. Len(F) /\ k \in i .. Len(F) /\ Len(F') = i + 1 + (Len(F) - k)
    BY <1>1, <1>6
  <2>2. /\ \A l \in 1 .. i : F'[l] = F[l]
        /\ F'[i + 1] = rest
        /\ \A l \in i + 2 .. i + 1 + (Len(F) - k) : F'[l] = F[l - (i + 1) + k]
    <3>1. \A l \in 1 .. i : l \in 1 .. Len(F) /\ l # k
      BY <1>1
    <3>2. i + 1 = k
      BY <1>1
    <3>3. \A l \in i + 2 .. i + 1 + (Len(F) - k) : l \in 1 .. Len(F) /\ l # k /\ l - (i + 1) + k = l
      BY <1>1
    <3> QED
      BY <1>1, <1>6, <3>1, <3>2, <3>3
  <2>3. {F[l] : l \in i + 1 .. k} = {q}
    <3>1. i + 1 .. k = {k}
      BY <1>1
    <3> QED
      BY <3>1
  <2>4. \A l \in 1 .. i : End(rest) < F[l].at
    BY <1>7
  <2> HIDE DEF i
  <2>5. /\ \A x, l \in DOMAIN F' : x < l => End(F'[l]) < F'[x].at
        /\ Listed' = (Listed \ {F[l] : l \in i + 1 .. k}) \cup {rest}
    <3>1. /\ i \in 0 .. Len(F) /\ k \in i .. Len(F) /\ rest \in BlockType
          /\ F' \in Seq(BlockType) /\ Len(F') = i + 1 + (Len(F) - k)
          /\ \A l \in 1 .. i : F'[l] = F[l]
          /\ F'[i + 1] = rest
          /\ \A l \in i + 2 .. i + 1 + (Len(F) - k) : F'[l] = F[l - (i + 1) + k]
          /\ \A l \in 1 .. i : End(rest) < F[l].at
          /\ \A l \in k + 1 .. Len(F) : End(F[l]) < rest.at
      BY <1>4, <1>6, <1>7, <2>1, <2>2, <2>4, Zenon
    <3> QED
      BY ONLY IInv, Sane, <3>1, SplicedList
  <2> QED
    BY <2>3, <2>5
<1>9. Span(head) \cap Span(rest) = {} /\ Span(head) \cup Span(rest) = Span(q) /\ head # rest
  <2>1. \A u : /\ u \in Span(head) <=> u \in Int /\ q.at <= u /\ u < q.at + Header + size
               /\ u \in Span(rest) <=> u \in Int /\ q.at + Header + size <= u /\ u < End(q)
               /\ u \in Span(q) <=> u \in Int /\ q.at <= u /\ u < End(q)
    BY <1>1, <1>4, BlockFacts
  <2>2. q.at + Header + size <= End(q) /\ q.at < q.at + Header + size
    BY <1>2, <1>3
  <2>3. End(q) \in Nat
    BY <1>1, BlockFacts
  <2>4. head # rest
    BY <1>2, <1>4
  <2> QED
    BY <1>2, <1>3, <2>1, <2>2, <2>3, <2>4
<1>10. Tiled(Blocks, owned, dropped)' /\ (used \cap Listed = {})'
  <2>1. Spans({head} \cup {rest}) = Spans({} \cup {q})
    <3>1. Spans({head} \cup {rest}) = Span(head) \cup Span(rest)
      BY DEF Spans
    <3>2. Spans({} \cup {q}) = Span(q)
      BY DEF Spans
    <3> QED
      BY <1>9, <3>1, <3>2
  <2>2. \A b, c \in {head} \cup {rest} : b # c => Span(b) \cap Span(c) = {}
    BY <1>9
  <2>3. Exchange({}, {q}, {head}, {rest})
    <3>1. {q} \subseteq Listed /\ {head} \subseteq BlockType /\ {rest} \subseteq BlockType
      BY ONLY <1>1, <1>4
    <3>2. used' = (used \ {}) \cup {head} /\ {head} \cap {rest} = {}
      BY ONLY <1>5, <1>9
    <3>3. dropped' = dropped /\ {} \subseteq used
      OBVIOUS
    <3> QED
      BY ONLY <1>8, <2>2, <3>1, <3>2, <3>3 DEF Exchange
  <2> QED
    BY <2>1, <2>3, Recut
<1>11. TypeOK'
  <2>1. F' \in Seq([at : Nat, len : Nat])
    BY <1>6 DEF BlockType
  <2>2. used' \in SUBSET [at : Nat, len : Nat]
    BY <1>1, <1>4, <1>5 DEF BlockType
  <2> QED
    BY <2>1, <2>2 DEF IInv, TypeOK
<1>12. BreakInv'
  BY BreakSame
<1> QED
  BY <1>8, <1>10, <1>11, <1>12, HeapKept

LEMMA WholeInv ==
  ASSUME IInv, Sane, NEW k \in DOMAIN F, F' = RemoveAt(F, k), used' = used \cup {F[k]},
         UNCHANGED <<rtos, brk, owned, others, ragged, dropped, torn>>
  PROVE  IInv'
<1> DEFINE q == F[k]
<1>1. /\ F \in Seq(BlockType) /\ Len(F) \in Nat /\ DOMAIN F = 1 .. Len(F) /\ k \in 1 .. Len(F)
      /\ used \subseteq BlockType /\ q \in BlockType /\ q \in Listed
  BY StateFacts DEF Listed
<1>2. /\ F' \in Seq(BlockType) /\ Len(F') = Len(F) - 1
      /\ \A l \in 1 .. k - 1 : F'[l] = F[l]
      /\ \A l \in k .. Len(F) - 1 : F'[l] = F[l + 1]
  <2> DEFINE i == k - 1
  <2>1. i \in 0 .. Len(F) /\ k \in i .. Len(F)
    BY <1>1
  <2>2. F' = SubSeq(F, 1, i) \o SubSeq(F, k + 1, Len(F))
    BY DEF RemoveAt
  <2>3. /\ i + (Len(F) - k) = Len(F) - 1
        /\ \A l \in k .. Len(F) - 1 : l \in i + 1 .. i + (Len(F) - k) /\ l - i + k = l + 1
    BY <1>1
  <2> HIDE DEF i
  <2>4. /\ F' \in Seq(BlockType) /\ Len(F') = i + (Len(F) - k)
        /\ \A l \in 1 .. i : F'[l] = F[l]
        /\ \A l \in i + 1 .. i + (Len(F) - k) : F'[l] = F[l - i + k]
    <3> DEFINE r == SubSeq(F, 1, i) \o SubSeq(F, k + 1, Len(F))
    <3>1. F \in Seq(BlockType)
      BY <1>1
    <3>2. /\ r \in Seq(BlockType) /\ Len(r) = i + (Len(F) - k)
          /\ \A l \in 1 .. i : r[l] = F[l]
          /\ \A l \in i + 1 .. i + (Len(F) - k) : r[l] = F[l - i + k]
      BY ONLY <2>1, <3>1, CutOut
    <3>3. F' = r
      BY <2>2
    <3> HIDE DEF r
    <3> QED
      BY ONLY <3>2, <3>3
  <2> QED
    BY <2>3, <2>4 DEF i
<1>3. /\ \A x, l \in DOMAIN F' : x < l => End(F'[l]) < F'[x].at
      /\ Listed' = Listed \ {q}
  BY <1>1, <1>2, CutList
<1> HIDE DEF q
<1>4. Tiled(Blocks, owned, dropped)' /\ (used \cap Listed = {})'
  <2>1. Spans({q} \cup {}) = Spans({} \cup {q})
    BY DEF Spans
  <2>2. \A b, c \in {q} \cup {} : b # c => Span(b) \cap Span(c) = {}
    OBVIOUS
  <2>3. {q} \subseteq Listed /\ {q} \subseteq BlockType /\ {} \subseteq BlockType /\ {} \subseteq used
    BY <1>1
  <2>4. used' = (used \ {}) \cup {q} /\ {q} \cap {} = {} /\ Listed' = (Listed \ {q}) \cup {}
    BY <1>3 DEF q
  <2>5. dropped' = dropped
    OBVIOUS
  <2>6. Exchange({}, {q}, {q}, {})
    BY ONLY <2>2, <2>3, <2>4, <2>5 DEF Exchange
  <2> QED
    BY <2>1, <2>6, Recut
<1>5. TypeOK'
  <2>1. F' \in Seq([at : Nat, len : Nat])
    BY <1>2 DEF BlockType
  <2>2. used' \in SUBSET [at : Nat, len : Nat]
    BY <1>1 DEF BlockType, q
  <2> QED
    BY <2>1, <2>2 DEF IInv, TypeOK
<1>6. BreakInv'
  BY BreakSame
<1> QED
  BY <1>3, <1>4, <1>5, <1>6, HeapKept

LEMMA FromListInv ==
  ASSUME IInv, NEW size \in Sizes, MallocFromList(size)
  PROVE  IInv'
<1>1. Sane /\ UNCHANGED <<rtos, brk, owned, others, ragged, dropped, torn>> /\ size \in Nat
  BY SizesAssumption DEF MallocFromList
<1>2. PICK k \in Best(size) : Take(k, size)
  BY DEF MallocFromList
<1>3. k \in DOMAIN F
  BY DEF Best, Fits
<1>4. CASE F[k].len - size >= MinBlk
  <2>1. /\ F' = [F EXCEPT ![k] = Block(F[k].at + Header + size, F[k].len - size - Header)]
        /\ used' = used \cup {Block(F[k].at, size)}
    BY <1>2, <1>4 DEF Take
  <2> QED
    BY <1>1, <1>3, <1>4, <2>1, SplitInv
<1>5. CASE ~(F[k].len - size >= MinBlk)
  <2>1. F' = RemoveAt(F, k) /\ used' = used \cup {F[k]}
    BY <1>2, <1>5 DEF Take
  <2> QED
    BY <1>1, <1>3, <2>1, WholeInv
<1> QED
  BY <1>4, <1>5

(* The rest of the list when its first j blocks, one or none, are extended. *)
LEMMA Rest ==
  ASSUME IInv, NEW rest, rest = IF Extends THEN Tail(F) ELSE F,
         NEW j, j = IF Extends THEN 1 ELSE 0
  PROVE  /\ rest \in Seq(BlockType) /\ Len(rest) = Len(F) - j
         /\ j \in 0 .. Len(F) /\ (Extends => 1 \in DOMAIN F)
         /\ \A k \in 1 .. Len(F) - j : rest[k] = F[j + k]
<1>1. F \in Seq(BlockType) /\ Len(F) \in Nat /\ DOMAIN F = 1 .. Len(F)
  BY StateFacts
<1>2. CASE Extends
  <2>1. F # <<>> /\ Len(F) # 0
    BY <1>1, <1>2, EmptySeq DEF Extends
  <2>2. /\ Tail(F) \in Seq(BlockType) /\ Len(Tail(F)) = Len(F) - 1
        /\ \A k \in 1 .. Len(Tail(F)) : Tail(F)[k] = F[k + 1]
    BY <1>1, <2>1, HeadTailProperties
  <2>3. \A k \in 1 .. Len(F) - 1 : k + 1 = 1 + k
    BY <1>1
  <2> QED
    BY <1>1, <1>2, <2>1, <2>2, <2>3
<1>3. CASE ~Extends
  <2>1. \A k \in 1 .. Len(F) : 0 + k = k
    BY <1>1
  <2> QED
    BY <1>1, <1>3, <2>1
<1> QED
  BY <1>2, <1>3

LEMMA TopType ==
  ASSUME IInv
  PROVE  /\ Top \in Nat /\ brk.unit \in Nat /\ brk.byte \in Nat /\ brk.byte < Unit
         /\ brk = [unit |-> brk.unit, byte |-> brk.byte]
<1>1. brk \in ByteAt /\ Unit \in Nat
  BY WordAssumption DEF IInv, TypeOK
<1>2. brk.unit \in Nat /\ brk.byte \in 0 .. Unit - 1 /\ brk = [unit |-> brk.unit, byte |-> brk.byte]
  BY <1>1 DEF ByteAt
<1> QED
  BY <1>1, <1>2 DEF Top

(* Every block lies below where sbrk gives memory next. *)
LEMMA BelowTop ==
  ASSUME IInv, Sane, rtos => owned = {}
  PROVE  /\ \A u \in owned : u < Top
         /\ \A b \in Blocks : End(b) <= Top
         /\ \A b \in Blocks : Span(b) \subseteq owned
<1>1. ASSUME NEW u \in owned PROVE u < Top
  <2>1. ~rtos
    BY <1>1
  <2>2. 0 \in 0 .. Unit - 1
    BY WordAssumption
  <2>3. Before([unit |-> u, byte |-> 0], brk)
    BY <2>1, <2>2 DEF IInv, BreakInv, InHeap
  <2>4. u < brk.unit \/ (u = brk.unit /\ 0 < brk.byte)
    BY <2>3 DEF Before
  <2>5. brk.unit \in Nat /\ brk.byte \in Nat /\ u \in Nat
    BY WordAssumption DEF IInv, TypeOK, ByteAt
  <2> QED
    BY <2>1, <2>4, <2>5 DEF Top
<1>2. Tiled(Blocks, owned, dropped) /\ Blocks \subseteq BlockType
  BY StateFacts
<1>3. \A b \in Blocks : Span(b) \subseteq owned
  BY <1>2 DEF Tiled, Spans
<1>4. ASSUME NEW b \in Blocks PROVE End(b) <= Top
  <2>1. /\ b.at \in Nat /\ End(b) \in Nat /\ b.at < End(b)
        /\ \A u : u \in Span(b) <=> u \in Int /\ b.at <= u /\ u < End(b)
    BY <1>2, BlockFacts
  <2>2. End(b) - 1 \in Span(b)
    BY <2>1
  <2>3. Top \in Nat
    BY TopType
  <2>4. End(b) - 1 < Top
    BY <1>1, <1>3, <2>2
  <2> QED
    BY <2>1, <2>3, <2>4
<1> QED
  BY <1>1, <1>3, <1>4

(* The step of MallocFromSystem in which sbrk succeeds. *)
Gulped(size) ==
  LET new  == Grown(size)
      end  == End(new.free)
      by   == IF rtos THEN 0 ELSE Narrow(end - Top)
  IN  /\ brk.unit + by \in 0 .. Limit
      /\ F' = <<new.free>> \o (IF Extends THEN Tail(F) ELSE F)
      /\ used' = used \cup {new.block}
      /\ brk' = [brk EXCEPT !.unit = brk.unit + by]
      /\ owned' = {u \in owned : u < end} \cup (Top .. end - 1)
      /\ ragged' = IF brk.byte = 0 THEN ragged ELSE ragged \cup {end - 1}
      /\ torn' = IF rtos THEN owned # {} ELSE by # end - Top
      /\ UNCHANGED <<rtos, others, dropped>>

LEMMA GrownFacts ==
  ASSUME IInv, NEW size \in Nat
  PROVE  LET at    == IF Extends THEN F[1].at ELSE Top
             block == Grown(size).block
             free  == Grown(size).free
         IN  /\ at \in Nat /\ Top \in Nat /\ at <= Top
             /\ block \in BlockType /\ block.at = at /\ End(block) = free.at
             /\ free \in BlockType /\ free.at = at + Header + size
             /\ End(free) = at + Header + size + Gulp
             /\ at < free.at /\ free.at < End(free) /\ at + 1 < End(free)
<1> DEFINE at    == IF Extends THEN F[1].at ELSE Top
           block == Block(at, size)
           free  == Block(at + Header + size, Gulp - Header)
<1>1. Top \in Nat
  BY TopType
<1>2. Extends => F[1] \in BlockType /\ End(F[1]) = Top
  BY Rest, StateFacts DEF Extends
<1>3. at \in Nat /\ at <= Top
  BY <1>1, <1>2, BlockFacts
<1>4. Header \in Nat \ {0} /\ Gulp \in Nat /\ Gulp - Header \in Nat
  BY HeaderAssumption, GulpAssumption
<1> HIDE DEF at
<1>5. block \in BlockType /\ block.at = at /\ End(block) = at + Header + size
  BY <1>3, BlockMade
<1>6. at + Header + size \in Nat
  BY <1>3, <1>4
<1>7. /\ free \in BlockType /\ free.at = at + Header + size
      /\ End(free) = at + Header + size + Header + (Gulp - Header)
  BY <1>4, <1>6, BlockMade
<1>8. Grown(size).block = block /\ Grown(size).free = free
  BY DEF Grown, at
<1> HIDE DEF block, free
<1>9. /\ End(free) = at + Header + size + Gulp
      /\ at < free.at /\ free.at < End(free) /\ at + 1 < End(free)
  <2>1. Gulp > 0
    BY HeaderAssumption, GulpAssumption
  <2> QED
    BY <1>1, <1>3, <1>4, <1>7, <2>1
<1> QED
  BY <1>1, <1>3, <1>5, <1>7, <1>8, <1>9 DEF at

LEMMA GrowType ==
  ASSUME IInv, NEW size \in Nat, Gulped(size)
  PROVE  TypeOK'
<1> DEFINE block == Grown(size).block
           free  == Grown(size).free
           end   == End(free)
           rest  == IF Extends THEN Tail(F) ELSE F
           by    == IF rtos THEN 0 ELSE Narrow(end - Top)
<1>1. block \in BlockType /\ free \in BlockType /\ Top \in Nat /\ end \in Nat /\ 1 < end
  BY GrownFacts, BlockFacts
<1>2. rest \in Seq(BlockType)
  BY Rest
<1>3. /\ F' = <<free>> \o rest /\ used' = used \cup {block}
      /\ brk.unit + by \in 0 .. Limit /\ brk' = [brk EXCEPT !.unit = brk.unit + by]
      /\ owned' = {u \in owned : u < end} \cup (Top .. end - 1)
      /\ ragged' = (IF brk.byte = 0 THEN ragged ELSE ragged \cup {end - 1})
      /\ torn' = (IF rtos THEN owned # {} ELSE by # end - Top)
      /\ UNCHANGED <<rtos, others, dropped>>
  BY DEF Gulped
<1> HIDE DEF block, free, rest, end, by
<1>4. F' \in Seq(BlockType)
  <2>1. <<free>> \in Seq(BlockType)
    BY <1>1
  <2> QED
    BY <1>2, <1>3, <2>1, ConcatProperties
<1>5. used' \subseteq BlockType
  BY <1>1, <1>3, StateFacts
<1>6. brk' \in ByteAt
  <2>1. brk.unit + by \in Nat /\ brk \in ByteAt
    BY <1>3, LimitAssumption DEF IInv, TypeOK
  <2> QED
    BY <1>3, <2>1 DEF ByteAt
<1>7. owned' \in SUBSET Nat
  <2>1. (Top .. end - 1) \subseteq Nat
    BY <1>1
  <2> QED
    BY <1>3, <2>1 DEF IInv, TypeOK
<1>8. ragged' \in SUBSET Nat
  <2>1. end - 1 \in Nat
    BY <1>1
  <2> QED
    BY <1>3, <2>1 DEF IInv, TypeOK
<1>9. rtos' \in BOOLEAN /\ torn' \in BOOLEAN /\ others' \in SUBSET ByteAt /\ dropped' \in SUBSET Nat
  BY <1>3 DEF IInv, TypeOK
<1> QED
  BY <1>4, <1>5, <1>6, <1>7, <1>8, <1>9 DEF TypeOK, BlockType

(* Where the break ends up: the blocks end at it when it is aligned, and     *)
(* otherwise less than a unit above it.                                      *)
LEMMA BreakGrown ==
  ASSUME IInv, Sane, NEW size \in Nat, Gulped(size), ~torn'
  PROVE  BreakInv'
<1> SUFFICES ASSUME ~rtos PROVE BreakInv'
  BY DEF BreakInv, InHeap, OthersBelow, Gulped
<1> DEFINE end == End(Grown(size).free)
           at  == IF Extends THEN F[1].at ELSE Top
<1>1. /\ rtos' = rtos /\ others' = others
      /\ brk' = [brk EXCEPT !.unit = brk.unit + (end - Top)]
      /\ owned' = {u \in owned : u < end} \cup (Top .. end - 1)
      /\ ragged' = (IF brk.byte = 0 THEN ragged ELSE ragged \cup {end - 1})
  BY DEF Gulped
<1>2. at \in Nat /\ Top \in Nat /\ end \in Nat /\ at <= Top /\ at + 1 < end
  BY GrownFacts, BlockFacts
<1>3. \A u \in at .. Top - 1 : u \in owned
  <2>1. CASE Extends
    <3>1. 1 \in DOMAIN F /\ End(F[1]) = Top /\ at = F[1].at
      BY <2>1, Rest DEF Extends
    <3>2. F[1] \in Blocks /\ F[1] \in BlockType
      BY <3>1, StateFacts DEF Listed
    <3>3. Span(F[1]) \subseteq owned
      BY <3>2, BelowTop
    <3> QED
      BY <1>2, <3>1, <3>2, <3>3, BlockFacts
  <2>2. CASE ~Extends
    BY <1>2, <2>2
  <2> QED
    BY <2>1, <2>2
<1> HIDE DEF end, at
<1>4. /\ brk.unit \in Nat /\ brk.byte \in Nat /\ brk.byte < Unit /\ Unit \in Nat
      /\ Top = IF brk.byte = 0 THEN brk.unit ELSE brk.unit + 1
  BY TopType, WordAssumption DEF Top
<1>5. brk'.unit = brk.unit + (end - Top) /\ brk'.byte = brk.byte
  <2>1. brk \in ByteAt
    BY DEF IInv, TypeOK
  <2> QED
    BY <1>1, <2>1 DEF ByteAt
<1>6. brk'.unit = IF brk.byte = 0 THEN end ELSE end - 1
  BY <1>2, <1>4, <1>5
<1>7. InHeap'
  <2> SUFFICES ASSUME Sane', NEW u \in owned', NEW x \in 0 .. Unit - 1, x = 0 \/ u \notin ragged'
               PROVE  /\ Before([unit |-> u, byte |-> x], brk')
                      /\ [unit |-> u, byte |-> x] \notin others
    BY <1>1 DEF InHeap, Before
  <2> DEFINE a == [unit |-> u, byte |-> x]
  <2>1. a.unit = u /\ a.byte = x /\ x \in Nat
    BY <1>4
  <2>2. u \in Nat /\ u < end /\ u \in owned \cup (Top .. end - 1)
    BY <1>1, <1>2 DEF IInv, TypeOK
  <2> HIDE DEF a
  <2>3. u < end - 1 \/ u = end - 1
    BY <1>2, <2>2
  <2>4. Before(a, brk')
    <3>1. CASE brk.byte = 0
      BY <1>6, <2>1, <2>2, <3>1 DEF Before
    <3>2. CASE brk.byte # 0
      <4>1. u = end - 1 => x = 0
        BY <1>1, <3>2
      <4>2. u < end - 1 \/ (u = end - 1 /\ 0 < brk.byte /\ x = 0)
        BY <1>4, <2>3, <3>2, <4>1
      <4> QED
        BY <1>5, <1>6, <2>1, <3>2, <4>2 DEF Before
    <3> QED
      BY <3>1, <3>2
  <2>5. x = 0 \/ u \notin ragged
    BY <1>1
  <2>6. CASE u \in owned
    <3>1. a \notin others
      BY <2>5, <2>6 DEF IInv, BreakInv, InHeap, a
    <3> QED
      BY <2>4, <3>1 DEF a
  <2>7. CASE u \in Top .. end - 1
    <3> SUFFICES ASSUME a \in others PROVE FALSE
      BY <2>4 DEF a
    <3>1. Before(a, brk)
      BY <2>1, <2>5 DEF IInv, BreakInv, OthersBelow
    <3>2. u < brk.unit \/ (u = brk.unit /\ x < brk.byte)
      BY <2>1, <3>1 DEF Before
    <3> QED
      BY <1>2, <1>4, <2>1, <2>2, <2>7, <3>2
  <2> QED
    BY <2>2, <2>6, <2>7
<1>8. OthersBelow'
  <2> SUFFICES ASSUME NEW a \in others, ~(a.unit \in ragged /\ a.byte # 0)
               PROVE  Before(a, brk')
    BY <1>1 DEF OthersBelow, Before
  <2>1. Before(a, brk) /\ a.unit \in Nat /\ a.byte \in 0 .. Unit - 1
        /\ a = [unit |-> a.unit, byte |-> a.byte]
    <3>1. a \in ByteAt
      BY DEF IInv, TypeOK
    <3> QED
      BY <3>1 DEF IInv, BreakInv, OthersBelow, ByteAt
  <2>2. a.unit \notin owned
    BY <2>1 DEF IInv, BreakInv, InHeap
  <2>3. a.unit < at
    <3>1. a.unit < Top
      <4>1. a.unit < brk.unit \/ (a.unit = brk.unit /\ a.byte < brk.byte)
        BY <2>1 DEF Before
      <4> QED
        BY <1>4, <2>1, <4>1
    <3> QED
      BY <1>2, <1>3, <2>1, <2>2, <3>1
  <2>4. a.unit < brk'.unit
    BY <1>2, <1>6, <2>1, <2>3
  <2> QED
    BY <2>4 DEF Before
<1> QED
  BY <1>7, <1>8 DEF BreakInv

LEMMA GrowInv ==
  ASSUME IInv, Sane, NEW size \in Nat, Gulped(size)
  PROVE  IInv'
<1> DEFINE block == Grown(size).block
           free  == Grown(size).free
           rest  == IF Extends THEN Tail(F) ELSE F
           at    == IF Extends THEN F[1].at ELSE Top
           j     == IF Extends THEN 1 ELSE 0
           RL    == {F[x] : x \in 1 .. j}
<1>1. TypeOK'
  BY GrowType
<1>2. CASE torn'
  <2>1. ~Sane'
    BY <1>2 DEF Sane
  <2> QED
    BY <1>1, <2>1 DEF IInv, HeapTiled, Ordered, BreakInv, InHeap, OthersBelow
<1>3. CASE ~torn'
  <2>0. BreakInv' /\ (rtos => owned = {})
    <3>1. BreakInv'
      BY <1>3, BreakGrown
    <3> QED
      BY <1>3, <3>1 DEF Gulped
  <2>1. /\ at \in Nat /\ Top \in Nat /\ at <= Top
        /\ block \in BlockType /\ block.at = at /\ End(block) = free.at
        /\ free \in BlockType /\ free.at = at + Header + size
        /\ at < free.at /\ free.at < End(free) /\ at + 1 < End(free)
        /\ End(free) \in Nat /\ free.at \in Nat
    BY GrownFacts, BlockFacts
  <2>2. /\ rest \in Seq(BlockType) /\ Len(rest) = Len(F) - j
        /\ j \in 0 .. Len(F) /\ (Extends => 1 \in DOMAIN F)
        /\ \A k \in 1 .. Len(F) - j : rest[k] = F[j + k]
    <3>1. rest = (IF Extends THEN Tail(F) ELSE F) /\ j = (IF Extends THEN 1 ELSE 0)
      OBVIOUS
    <3> HIDE DEF rest, j
    <3> QED
      BY ONLY IInv, <3>1, Rest
  <2>3. /\ F' = <<free>> \o rest /\ used' = used \cup {block} /\ dropped' = dropped
        /\ owned' = {u \in owned : u < End(free)} \cup (Top .. End(free) - 1)
    BY DEF Gulped
  <2>4. Extends => j = 1 /\ at = F[1].at /\ End(F[1]) = Top
    BY DEF Extends
  <2>5. ~Extends => j = 0 /\ at = Top
    OBVIOUS
  <2>6. Len(F) \in Nat /\ DOMAIN F = 1 .. Len(F) /\ \A k \in DOMAIN F : F[k] \in BlockType /\ F[k] \in Listed /\ F[k] \in Blocks
    BY StateFacts DEF Listed
  <2> HIDE DEF block, free, rest, at, j
  <2>7. /\ F' \in Seq(BlockType) /\ Len(F') = 0 + 1 + (Len(F) - j)
        /\ F'[0 + 1] = free
        /\ \A k \in 0 + 2 .. 0 + 1 + (Len(F) - j) : F'[k] = F[k - (0 + 1) + j]
    <3>1. <<free>> \in Seq(BlockType) /\ Len(<<free>>) = 1 /\ <<free>>[1] = free
      BY <2>1
    <3>2. /\ <<free>> \o rest \in Seq(BlockType)
          /\ Len(<<free>> \o rest) = Len(<<free>>) + Len(rest)
          /\ \A k \in 1 .. Len(<<free>>) + Len(rest) :
               (<<free>> \o rest)[k] = IF k <= Len(<<free>>) THEN <<free>>[k] ELSE rest[k - Len(<<free>>)]
      BY <2>2, <3>1, ConcatProperties
    <3>3. Len(F) - j \in Nat
      BY <2>2, <2>6
    <3>4. /\ F' \in Seq(BlockType) /\ Len(F') = 1 + (Len(F) - j)
          /\ \A k \in 1 .. 1 + (Len(F) - j) : F'[k] = IF k <= 1 THEN free ELSE rest[k - 1]
      <4>1. \A k \in 1 .. 1 + (Len(F) - j) : k <= 1 => <<free>>[k] = free
        BY <3>3, <3>1
      <4> HIDE DEF rest
      <4> QED
        BY <2>2, <2>3, <3>1, <3>2, <4>1
    <3>5. \A k \in 2 .. 1 + (Len(F) - j) : F'[k] = F[k - 1 + j]
      <4> SUFFICES ASSUME NEW k \in 2 .. 1 + (Len(F) - j) PROVE F'[k] = F[k - 1 + j]
        OBVIOUS
      <4>1. k - 1 \in 1 .. Len(F) - j /\ ~(k <= 1) /\ k \in 1 .. 1 + (Len(F) - j) /\ j + (k - 1) = k - 1 + j
        BY <2>2, <2>6
      <4> QED
        BY <2>2, <3>4, <4>1
    <3>6. 0 + 1 = 1 /\ 0 + 2 = 2
      OBVIOUS
    <3> QED
      BY <3>3, <3>4, <3>5, <3>6
  <2>8. \A k \in j + 1 .. Len(F) : End(F[k]) < free.at
    <3> SUFFICES ASSUME NEW k \in j + 1 .. Len(F) PROVE End(F[k]) < free.at
      OBVIOUS
    <3>0. k \in DOMAIN F
      BY <2>2, <2>6
    <3>1. k \in DOMAIN F /\ F[k] \in Blocks /\ End(F[k]) \in Nat
      BY <2>6, <3>0, BlockFacts
    <3>2. CASE Extends
      <4>1. 1 \in DOMAIN F /\ 1 < k
        BY <2>2, <2>4, <2>6, <3>2
      <4>2. End(F[k]) < F[1].at
        BY <3>1, <4>1 DEF IInv, Ordered
      <4>3. at \in Nat /\ free.at \in Nat /\ at < free.at
        BY <2>1
      <4> QED
        BY ONLY <2>4, <3>1, <3>2, <4>2, <4>3
    <3>3. CASE ~Extends
      <4>1. End(F[k]) <= Top
        BY <2>0, <3>1, BelowTop
      <4>2. at \in Nat /\ free.at \in Nat /\ at < free.at
        BY <2>1
      <4> QED
        BY ONLY <2>5, <3>1, <3>3, <4>1, <4>2
    <3> QED
      BY <3>2, <3>3
  <2>9. /\ \A k, l \in DOMAIN F' : k < l => End(F'[l]) < F'[k].at
        /\ Listed' = (Listed \ {F[k] : k \in 0 + 1 .. j}) \cup {free}
    <3>1. 0 \in 0 .. Len(F) /\ j \in 0 .. Len(F)
      BY <2>2, <2>6
    <3>2. /\ \A k \in 1 .. 0 : F'[k] = F[k]
          /\ \A k \in 1 .. 0 : End(free) < F[k].at
      OBVIOUS
    <3> QED
      BY <2>1, <2>7, <2>8, <3>1, <3>2, SplicedList
  <2>10. RL \subseteq Listed /\ Listed' = (Listed \ RL) \cup {free}
    <3>1. \A x \in 1 .. j : x \in DOMAIN F
      BY <2>2, <2>6
    <3> QED
      BY <2>6, <2>9, <3>1
  <2>11. /\ \A u : u \in Span(block) <=> u \in Int /\ at <= u /\ u < free.at
         /\ \A u : u \in Span(free) <=> u \in Int /\ free.at <= u /\ u < End(free)
         /\ free.at \in Nat
    BY <2>1, BlockFacts
  <2>12. block # free /\ Span(block) \cap Span(free) = {}
    BY <2>1, <2>11
  <2>13. Spans({block} \cup {free}) = at .. End(free) - 1
    <3>1. Spans({block} \cup {free}) = Span(block) \cup Span(free)
      BY DEF Spans
    <3>2. Span(block) \cup Span(free) = at .. End(free) - 1
      BY <2>1, <2>11
    <3> QED
      BY <3>1, <3>2
  <2>14. /\ \A u \in Spans(RL) : u \in Int /\ at <= u /\ u < Top
         /\ \A u \in Int : at <= u /\ u < Top => u \in Spans(RL)
         /\ Spans(RL) \subseteq owned
    <3>1. CASE Extends
      <4>1. RL = {F[1]}
        BY <2>4, <3>1
      <4>2. Spans(RL) = Span(F[1])
        BY <4>1 DEF Spans
      <4>3. \A u : u \in Span(F[1]) <=> u \in Int /\ at <= u /\ u < Top
        BY <2>2, <2>4, <2>6, <3>1, BlockFacts
      <4>4. Span(F[1]) \subseteq owned
        BY <2>0, <2>2, <2>6, <3>1, BelowTop
      <4> QED
        BY <4>2, <4>3, <4>4
    <3>2. CASE ~Extends
      <4>1. RL = {} /\ at = Top
        BY <2>5, <3>2
      <4>2. Spans(RL) = {}
        BY <4>1 DEF Spans
      <4> QED
        BY <2>1, <4>1, <4>2
    <3> QED
      BY <3>1, <3>2
  <2>15. \A u \in owned \ Spans(RL) : u \in Nat /\ u < at
    <3>1. \A u \in owned : u < Top /\ u \in Nat
      BY <2>0, BelowTop DEF IInv, TypeOK
    <3> QED
      BY <2>1, <2>14, <3>1
  <2> HIDE DEF RL
  <2>16. Exchange({}, RL, {block}, {free})
    <3>1. {block} \subseteq BlockType /\ {free} \subseteq BlockType /\ {} \subseteq used
      BY <2>1
    <3>2. used' = (used \ {}) \cup {block} /\ {block} \cap {free} = {}
      BY <2>3, <2>12
    <3>3. \A b, c \in {block} \cup {free} : b # c => Span(b) \cap Span(c) = {}
      BY <2>12
    <3> QED
      BY ONLY <2>3, <2>10, <3>1, <3>2, <3>3 DEF Exchange
  <2>17. /\ Spans({block} \cup {free}) \cap (owned \ Spans({} \cup RL)) = {}
         /\ owned' = (owned \ Spans({} \cup RL)) \cup Spans({block} \cup {free})
    <3>1. {} \cup RL = RL
      OBVIOUS
    <3>2. \A u : u \in at .. End(free) - 1 <=> u \in Int /\ at <= u /\ u < End(free)
      BY <2>1
    <3>3. (at .. End(free) - 1) \cap (owned \ Spans(RL)) = {}
      BY <2>1, <2>15, <3>2
    <3>4. \A u : u \in Top .. End(free) - 1 <=> u \in Int /\ Top <= u /\ u < End(free)
      BY <2>1
    <3>5. ASSUME NEW u \in owned' PROVE u \in (owned \ Spans(RL)) \cup (at .. End(free) - 1)
      <4>1. CASE u \in Top .. End(free) - 1
        BY <2>1, <3>2, <3>4, <4>1
      <4>2. CASE u \in owned /\ u < End(free) /\ u \in Spans(RL)
        BY <2>14, <3>2, <4>2
      <4> QED
        BY <2>3, <4>1, <4>2
    <3>6. ASSUME NEW u \in (owned \ Spans(RL)) \cup (at .. End(free) - 1) PROVE u \in owned'
      <4>1. CASE u \in owned \ Spans(RL)
        <5>1. u < End(free)
          BY <2>1, <2>15, <4>1
        <5> QED
          BY <2>3, <4>1, <5>1
      <4>2. CASE u \in at .. End(free) - 1
        <5>1. u \in Int /\ at <= u /\ u < End(free)
          BY <3>2, <4>2
        <5>2. CASE u < Top
          BY <2>3, <2>14, <5>1, <5>2
        <5>3. CASE ~(u < Top)
          <6>1. Top <= u
            BY <2>1, <5>1, <5>3
          <6> QED
            BY <2>3, <3>4, <5>1, <6>1
        <5> QED
          BY <5>2, <5>3
      <4> QED
        BY <4>1, <4>2
    <3> HIDE DEF block, free
    <3> QED
      BY <2>13, <3>1, <3>3, <3>5, <3>6
  <2>18. Tiled(Blocks, owned, dropped)' /\ (used \cap Listed = {})'
    BY <2>16, <2>17, Retiled
  <2> QED
    BY <1>1, <2>0, <2>9, <2>18, HeapKept
<1> QED
  BY <1>2, <1>3
(* The block that was to be extended when sbrk fails is lost. *)
LEMMA LossInv ==
  ASSUME IInv, Sane, Extends, F' = Tail(F), dropped' = dropped \cup Span(F[1]),
         UNCHANGED <<rtos, used, brk, owned, others, ragged, torn>>
  PROVE  IInv'
<1> DEFINE q == F[1]
<1>1. /\ F' \in Seq(BlockType) /\ Len(F') = Len(F) - 1 /\ 1 \in DOMAIN F
      /\ \A k \in 1 .. Len(F) - 1 : F'[k] = F[1 + k]
  BY Rest
<1>2. /\ Len(F) \in Nat /\ q \in BlockType /\ q \in Listed /\ q \in Blocks
      /\ Tiled(Blocks, owned, dropped) /\ used \cap Listed = {} /\ Blocks = used \cup Listed
      /\ Blocks \subseteq BlockType
  BY <1>1, StateFacts DEF Listed
<1>3. /\ \A x, l \in DOMAIN F' : x < l => End(F'[l]) < F'[x].at
      /\ Listed' = Listed \ {q}
  <2>1. \A k \in 1 .. 1 - 1 : F'[k] = F[k]
    OBVIOUS
  <2>2. \A k \in 1 .. Len(F) - 1 : F'[k] = F[k + 1]
    BY <1>1, <1>2
  <2> QED
    BY <1>1, <2>1, <2>2, CutList
<1> HIDE DEF q
<1>4. Blocks' = Blocks \ {q}
  <2>1. Blocks' = used' \cup Listed'
    BY DEF Blocks, Listed
  <2> QED
    BY <1>2, <1>3, <2>1
<1>5. Tiled(Blocks \ {q}, owned, dropped \cup Span(q)) /\ Span(q) \subseteq owned
  <2>1. /\ Spans(Blocks) \cup dropped = owned
        /\ \A b \in Blocks : Span(b) \cap dropped = {}
        /\ \A b, c \in Blocks : b # c => Span(b) \cap Span(c) = {}
    BY <1>2 DEF Tiled
  <2>2. Spans(Blocks) = Spans(Blocks \ {q}) \cup Span(q)
    BY <1>2 DEF Spans
  <2>3. Spans(Blocks \ {q}) \cup (dropped \cup Span(q)) = owned
    BY <2>1, <2>2
  <2>4. \A b \in Blocks \ {q} : Span(b) \cap (dropped \cup Span(q)) = {}
    BY <1>2, <2>1
  <2> QED
    BY <2>1, <2>2, <2>3, <2>4 DEF Tiled
<1>6. Tiled(Blocks, owned, dropped)'
  <2>1. Tiled(Blocks', owned', dropped')
    BY <1>4, <1>5 DEF q
  <2> QED
    BY <2>1 DEF Tiled, Spans
<1>7. (used \cap Listed = {})'
  BY <1>2, <1>3
<1>8. TypeOK'
  <2>1. dropped' \in SUBSET Nat
    BY <1>5 DEF IInv, TypeOK, q
  <2> QED
    BY <1>1, <2>1 DEF IInv, TypeOK, BlockType
<1>9. BreakInv'
  BY BreakSame
<1> QED
  BY <1>3, <1>6, <1>7, <1>8, <1>9, HeapKept

LEMMA FromSystemInv ==
  ASSUME IInv, NEW size \in Sizes, MallocFromSystem(size)
  PROVE  IInv'
<1> DEFINE rest == IF Extends THEN Tail(F) ELSE F
           end  == End(Grown(size).free)
           by   == IF rtos THEN 0 ELSE Narrow(end - Top)
<1>1. Sane /\ UNCHANGED <<rtos, others>> /\ size \in Nat
  BY SizesAssumption DEF MallocFromSystem
<1>2. CASE brk.unit + by \in 0 .. Limit
  <2>1. Gulped(size)
    BY <1>2 DEF MallocFromSystem, Gulped
  <2> QED
    BY <1>1, <2>1, GrowInv
<1>3. CASE ~(brk.unit + by \in 0 .. Limit)
  <2>1. /\ F' = rest /\ UNCHANGED <<used, brk, owned, ragged, torn>>
        /\ dropped' = dropped \cup (IF Extends THEN Span(F[1]) ELSE {})
    BY <1>3 DEF MallocFromSystem
  <2>2. CASE Extends
    BY <1>1, <2>1, <2>2, LossInv
  <2>3. CASE ~Extends
    <3>1. UNCHANGED vars
      BY <1>1, <2>1, <2>3 DEF vars
    <3> QED
      BY <3>1, Stutter
  <2> QED
    BY <2>2, <2>3
<1> QED
  BY <1>2, <1>3
-----------------------------------------------------------------------------
(* shl_atat_free *)

(* Two blocks that touch make one. *)
LEMMA Touching ==
  ASSUME NEW lo \in BlockType, NEW hi \in BlockType, End(lo) = hi.at
  PROVE  LET b == Block(lo.at, lo.len + Header + hi.len) IN
         /\ b \in BlockType /\ b.at = lo.at /\ End(b) = End(hi)
         /\ Span(b) = Span(lo) \cup Span(hi)
<1> DEFINE b == Block(lo.at, lo.len + Header + hi.len)
<1>1. /\ lo.at \in Nat /\ lo.len \in Nat /\ End(lo) = lo.at + Header + lo.len /\ lo.at < End(lo)
      /\ hi.at \in Nat /\ hi.len \in Nat /\ End(hi) = hi.at + Header + hi.len /\ hi.at < End(hi)
      /\ Header \in Nat /\ End(hi) \in Nat
      /\ \A u : u \in Span(lo) <=> u \in Int /\ lo.at <= u /\ u < End(lo)
      /\ \A u : u \in Span(hi) <=> u \in Int /\ hi.at <= u /\ u < End(hi)
  BY BlockFacts, HeaderAssumption
<1>2. /\ b \in BlockType /\ b.at = lo.at
      /\ End(b) = lo.at + Header + (lo.len + Header + hi.len)
  <2>1. lo.len + Header + hi.len \in Nat
    BY <1>1
  <2> QED
    BY <1>1, <2>1, BlockMade
<1> HIDE DEF b
<1>3. End(b) = End(hi)
  <2>1. lo.at \in Nat /\ lo.len \in Nat /\ Header \in Nat /\ hi.len \in Nat
    BY <1>1
  <2>2. hi.at = lo.at + Header + lo.len
    BY <1>1
  <2>3. End(hi) = lo.at + Header + lo.len + Header + hi.len
    BY <1>1, <2>2
  <2> QED
    BY ONLY <1>2, <2>1, <2>3
<1>4. \A u : u \in Span(b) <=> u \in Int /\ lo.at <= u /\ u < End(hi)
  BY <1>2, <1>3, BlockFacts
<1>5. Span(b) = Span(lo) \cup Span(hi)
  <2>1. \A u \in Int : lo.at <= u /\ u < End(hi)
                         <=> (lo.at <= u /\ u < End(lo)) \/ (hi.at <= u /\ u < End(hi))
    BY <1>1
  <2> QED
    BY <1>1, <1>4, <2>1
<1> QED
  BY <1>2, <1>3, <1>5 DEF b

LEMMA InsertedInv ==
  ASSUME IInv, Sane, NEW q \in used, NEW i \in 0 .. Len(F), NEW j \in i .. Len(F),
         NEW blk \in BlockType,
         F' = Append(SubSeq(F, 1, i), blk) \o SubSeq(F, j + 1, Len(F)),
         used' = used \ {q},
         \A k \in 1 .. i : End(blk) < F[k].at,
         \A k \in j + 1 .. Len(F) : End(F[k]) < blk.at,
         Span(blk) = Span(q) \cup Spans({F[k] : k \in i + 1 .. j}),
         UNCHANGED <<rtos, brk, owned, others, ragged, dropped, torn>>
  PROVE  IInv'
<1> DEFINE RL == {F[k] : k \in i + 1 .. j}
<1>1. /\ F \in Seq(BlockType) /\ Len(F) \in Nat /\ DOMAIN F = 1 .. Len(F)
      /\ used \subseteq BlockType
  BY StateFacts
<1>2. /\ F' \in Seq(BlockType) /\ Len(F') = i + 1 + (Len(F) - j)
      /\ \A k \in 1 .. i : F'[k] = F[k]
      /\ F'[i + 1] = blk
      /\ \A k \in i + 2 .. i + 1 + (Len(F) - j) : F'[k] = F[k - (i + 1) + j]
  <2> DEFINE r == Splice(F, i, j, blk)
  <2>1. F \in Seq(BlockType) /\ i \in 0 .. Len(F) /\ j \in i .. Len(F) /\ blk \in BlockType
    BY <1>1
  <2>2. HasSpliced(BlockType, F, i, j, blk, r)
    BY ONLY <2>1, Spliced
  <2>3. F' = r
    BY DEF Splice
  <2> HIDE DEF r
  <2> QED
    BY ONLY <2>2, <2>3 DEF HasSpliced
<1>3. /\ \A k, l \in DOMAIN F' : k < l => End(F'[l]) < F'[k].at
      /\ Listed' = (Listed \ RL) \cup {blk}
  BY <1>2, SplicedList
<1>4. RL \subseteq Listed
  <2>1. \A k \in i + 1 .. j : k \in DOMAIN F
    BY <1>1
  <2> QED
    BY <2>1 DEF Listed
<1>5. Span(blk) = Span(q) \cup Spans(RL)
  OBVIOUS
<1> HIDE DEF RL
<1>6. Tiled(Blocks, owned, dropped)' /\ (used \cap Listed = {})'
  <2>1. Spans({} \cup {blk}) = Spans({q} \cup RL)
    <3>1. Spans({} \cup {blk}) = Span(blk)
      BY DEF Spans
    <3>2. Spans({q} \cup RL) = Span(q) \cup Spans(RL)
      BY DEF Spans
    <3> QED
      BY <1>5, <3>1, <3>2
  <2>2. \A b, c \in {} \cup {blk} : b # c => Span(b) \cap Span(c) = {}
    OBVIOUS
  <2>3. {q} \subseteq used /\ {} \subseteq BlockType /\ {blk} \subseteq BlockType
    OBVIOUS
  <2>4. used' = (used \ {q}) \cup {} /\ {} \cap {blk} = {}
    OBVIOUS
  <2>5. dropped' = dropped
    OBVIOUS
  <2>6. Exchange({q}, RL, {}, {blk})
    BY ONLY <1>3, <1>4, <2>2, <2>3, <2>4, <2>5 DEF Exchange
  <2> QED
    BY <2>1, <2>6, Recut
<1>7. TypeOK'
  <2>1. used' \in SUBSET [at : Nat, len : Nat]
    BY <1>1 DEF BlockType
  <2> QED
    BY <1>2, <2>1 DEF IInv, TypeOK, BlockType
<1>8. BreakInv'
  BY BreakSame
<1> QED
  BY <1>3, <1>6, <1>7, <1>8, HeapKept

(* The blocks above and below the one that is freed do not reach into it. *)
LEMMA Around ==
  ASSUME IInv, Sane, NEW q \in used, NEW k \in DOMAIN F
  PROVE  /\ F[k].at > q.at => End(q) <= F[k].at
         /\ F[k].at <= q.at => End(F[k]) <= q.at
<1>1. /\ F[k] \in BlockType /\ q \in BlockType /\ F[k] \in Blocks /\ q \in Blocks /\ F[k] # q
      /\ Tiled(Blocks, owned, dropped)
  BY StateFacts DEF Listed
<1>2. /\ F[k].at \in Nat /\ q.at \in Nat /\ End(F[k]) \in Nat /\ End(q) \in Nat
      /\ F[k].at < End(F[k]) /\ q.at < End(q)
  BY <1>1, BlockFacts
<1>3. End(q) <= F[k].at \/ End(F[k]) <= q.at
  BY <1>1, Apart DEF Tiled
<1> QED
  BY <1>2, <1>3

(* What JoinAbove gives: i blocks stay above, and the rest is in the block. *)
LEMMA AboveJoined ==
  ASSUME IInv, Sane, NEW q \in used, NEW k \in 0 .. Len(F),
         \A x \in 1 .. k : F[x].at > q.at
  PROVE  LET u == JoinAbove(q, k).block IN
         \E i \in 0 .. k :
           /\ JoinAbove(q, k).above = SubSeq(F, 1, i)
           /\ u \in BlockType /\ u.at = q.at
           /\ \A x \in 1 .. i : End(u) < F[x].at
           /\ Span(u) = Span(q) \cup Spans({F[x] : x \in i + 1 .. k})
<1>1. /\ Len(F) \in Nat /\ DOMAIN F = 1 .. Len(F) /\ \A x \in DOMAIN F : F[x] \in BlockType
      /\ q \in BlockType /\ k \in Nat /\ k <= Len(F)
  BY StateFacts
<1>2. \A x \in 1 .. k : x \in DOMAIN F
  BY <1>1
<1>3. /\ q.at \in Nat /\ q.len \in Nat /\ End(q) \in Nat /\ Header \in Nat
      /\ \A x \in DOMAIN F : F[x].at \in Nat /\ End(F[x]) \in Nat /\ F[x].at < End(F[x])
  BY <1>1, BlockFacts, HeaderAssumption
<1>4. \A x \in 1 .. k : End(q) <= F[x].at
  BY <1>2, Around
<1>5. \A x \in 1 .. k - 1 : x \in DOMAIN F /\ k \in DOMAIN F /\ End(F[k]) < F[x].at
  <2>1. \A x \in 1 .. k - 1 : x \in DOMAIN F /\ k \in DOMAIN F /\ x < k
    BY <1>1
  <2> QED
    BY <2>1 DEF IInv, Ordered
<1>6. CASE k # 0 /\ F[k].at = End(q)
  <2> DEFINE u == Block(q.at, q.len + Header + F[k].len)
             i == k - 1
  <2>1. JoinAbove(q, k).block = u /\ JoinAbove(q, k).above = SubSeq(F, 1, k - 1)
    BY <1>6 DEF JoinAbove
  <2>2. k \in DOMAIN F /\ i \in 0 .. k /\ i + 1 .. k = {k}
    BY <1>1, <1>6
  <2>3. u \in BlockType /\ u.at = q.at /\ End(u) = End(F[k]) /\ Span(u) = Span(q) \cup Span(F[k])
    BY <1>1, <1>6, <2>2, Touching
  <2> HIDE DEF u
  <2>4. \A x \in 1 .. i : End(u) < F[x].at
    BY <1>5, <2>3
  <2>5. Spans({F[x] : x \in i + 1 .. k}) = Span(F[k])
    <3>1. {F[x] : x \in i + 1 .. k} = {F[k]}
      BY <2>2
    <3> QED
      BY <3>1 DEF Spans
  <2>6. JoinAbove(q, k).above = SubSeq(F, 1, i)
    BY <2>1
  <2> HIDE DEF i
  <2> QED
    BY <2>1, <2>2, <2>3, <2>4, <2>5, <2>6
<1>7. CASE ~(k # 0 /\ F[k].at = End(q))
  <2>1. JoinAbove(q, k).block = q /\ JoinAbove(q, k).above = SubSeq(F, 1, k)
    BY <1>7 DEF JoinAbove
  <2>2. k \in 0 .. k
    BY <1>1
  <2>3. \A x \in 1 .. k : End(q) < F[x].at
    <3> SUFFICES ASSUME NEW x \in 1 .. k PROVE End(q) < F[x].at
      OBVIOUS
    <3>1. CASE x = k
      <4>1. F[k].at # End(q) /\ End(q) <= F[k].at
        BY <1>1, <1>4, <1>7, <3>1
      <4> QED
        BY <1>2, <1>3, <3>1, <4>1
    <3>2. CASE x # k
      <4>1. x \in 1 .. k - 1 /\ k \in 1 .. k
        BY <1>1, <3>2
      <4>2. End(q) <= F[k].at /\ End(F[k]) < F[x].at /\ k \in DOMAIN F /\ x \in DOMAIN F
        BY <1>4, <1>5, <4>1
      <4> QED
        BY <1>3, <4>2
    <3> QED
      BY <3>1, <3>2
  <2>4. Spans({F[x] : x \in k + 1 .. k}) = {}
    <3>1. k + 1 .. k = {}
      BY <1>1
    <3> QED
      BY <3>1 DEF Spans
  <2>5. Span(q) = Span(q) \cup Spans({F[x] : x \in k + 1 .. k})
    BY <2>4
  <2> QED
    BY <1>1, <2>1, <2>2, <2>3, <2>5
<1> QED
  BY <1>6, <1>7

LEMMA FreeInv ==
  ASSUME IInv, NEW q \in used, Free(q)
  PROVE  IInv'
<1>1. Sane /\ used' = used \ {q} /\ UNCHANGED <<rtos, brk, owned, others, ragged, dropped, torn>>
  BY DEF Free
<1>2. PICK k \in 0 .. Len(F) :
        /\ \A x \in 1 .. k : F[x].at > q.at
        /\ \A x \in k + 1 .. Len(F) : F[x].at <= q.at
        /\ Insert(q, k)
  BY DEF Free
<1> DEFINE u == JoinAbove(q, k).block
<1>3. PICK i \in 0 .. k :
        /\ JoinAbove(q, k).above = SubSeq(F, 1, i)
        /\ u \in BlockType /\ u.at = q.at
        /\ \A x \in 1 .. i : End(u) < F[x].at
        /\ Span(u) = Span(q) \cup Spans({F[x] : x \in i + 1 .. k})
  BY <1>1, <1>2, AboveJoined
<1> HIDE DEF u
<1>4. /\ Len(F) \in Nat /\ DOMAIN F = 1 .. Len(F) /\ \A x \in DOMAIN F : F[x] \in BlockType
      /\ q \in BlockType /\ k \in Nat /\ k <= Len(F) /\ i \in Nat /\ i <= k /\ i \in 0 .. Len(F)
  BY StateFacts
<1>0. Len(F) \in Nat /\ k \in Nat /\ k <= Len(F) /\ i \in Nat /\ i <= k
  BY <1>4
<1>5. /\ q.at \in Nat /\ u.len \in Nat
      /\ \A x \in DOMAIN F : F[x].at \in Nat /\ End(F[x]) \in Nat /\ F[x].at < End(F[x])
  BY <1>3, <1>4, BlockFacts
<1>6. \A x \in k + 1 .. Len(F) : x \in DOMAIN F /\ End(F[x]) <= q.at
  <2>1. \A x \in k + 1 .. Len(F) : x \in DOMAIN F
    BY <1>4
  <2> QED
    BY <1>1, <1>2, <2>1, Around
<1>7. \A x \in k + 2 .. Len(F) : /\ x \in DOMAIN F /\ k + 1 \in DOMAIN F
                                 /\ End(F[x]) < F[k + 1].at
  <2>1. \A x \in k + 2 .. Len(F) : x \in DOMAIN F /\ k + 1 \in DOMAIN F /\ k + 1 < x
    BY <1>4
  <2> QED
    BY <1>1, <2>1 DEF IInv, Ordered
<1>8. CASE k # Len(F) /\ End(F[k + 1]) = q.at
  <2> DEFINE low == F[k + 1]
             blk == Block(low.at, low.len + Header + u.len)
             j   == k + 1
  <2>1. F' = Append(SubSeq(F, 1, i), blk) \o SubSeq(F, k + 2, Len(F))
    BY <1>2, <1>3, <1>8 DEF Insert, u
  <2>2. j \in DOMAIN F /\ j \in i .. Len(F) /\ j + 1 = k + 2
    <3>1. k # Len(F)
      BY <1>8
    <3>2. k + 1 \in 1 .. Len(F) /\ k + 1 \in i .. Len(F) /\ k + 1 + 1 = k + 2
      BY ONLY <1>0, <3>1
    <3> QED
      BY <1>4, <3>2
  <2>3. /\ blk \in BlockType /\ blk.at = low.at /\ End(blk) = End(u)
        /\ Span(blk) = Span(low) \cup Span(u)
    BY <1>3, <1>4, <1>8, <2>2, Touching
  <2>4. F' = Append(SubSeq(F, 1, i), blk) \o SubSeq(F, j + 1, Len(F))
    BY <2>1, <2>2
  <2>5. Spans({F[x] : x \in i + 1 .. j}) = Spans({F[x] : x \in i + 1 .. k}) \cup Span(low)
    <3>1. i + 1 .. j = (i + 1 .. k) \cup {k + 1}
      BY <1>4
    <3>2. {F[x] : x \in i + 1 .. j} = {F[x] : x \in i + 1 .. k} \cup {low}
      BY <3>1
    <3> QED
      BY <3>2 DEF Spans
  <2>6. \A x \in 1 .. i : End(blk) < F[x].at
    <3> HIDE DEF blk
    <3> QED
      BY <1>3, <2>3
  <2>7. \A x \in j + 1 .. Len(F) : End(F[x]) < blk.at
    <3> HIDE DEF blk
    <3> QED
      BY <1>7, <2>2, <2>3
  <2> HIDE DEF blk, low, j
  <2>8. Span(blk) = Span(q) \cup Spans({F[x] : x \in i + 1 .. j})
    BY <1>3, <2>3, <2>5
  <2> QED
    BY ONLY IInv, <1>1, <1>4, <2>2, <2>3, <2>4, <2>6, <2>7, <2>8, InsertedInv, q \in used
<1>9. CASE ~(k # Len(F) /\ End(F[k + 1]) = q.at)
  <2>1. F' = Append(SubSeq(F, 1, i), u) \o SubSeq(F, k + 1, Len(F))
    BY <1>2, <1>3, <1>9 DEF Insert, u
  <2>2. k \in i .. Len(F)
    BY <1>4
  <2>3. \A x \in k + 1 .. Len(F) : End(F[x]) < u.at
    <3> SUFFICES ASSUME NEW x \in k + 1 .. Len(F) PROVE End(F[x]) < q.at
      BY <1>3
    <3>1. CASE x = k + 1
      <4>1. k # Len(F)
        <5>1. x \in k + 1 .. Len(F)
          OBVIOUS
        <5> QED
          BY ONLY <1>0, <3>1, <5>1
      <4>2. x \in DOMAIN F /\ End(F[x]) <= q.at /\ End(F[x]) # q.at
        BY <1>6, <1>9, <3>1, <4>1
      <4> QED
        BY <1>5, <4>2
    <3>2. CASE x # k + 1
      <4>1. x \in k + 2 .. Len(F) /\ k + 1 \in k + 1 .. Len(F)
        BY <1>4, <3>2
      <4>2. /\ x \in DOMAIN F /\ k + 1 \in DOMAIN F
            /\ End(F[x]) < F[k + 1].at /\ End(F[k + 1]) <= q.at
        BY <1>6, <1>7, <4>1
      <4> QED
        BY <1>5, <4>2
    <3> QED
      BY <3>1, <3>2
  <2> QED
    BY ONLY IInv, <1>1, <1>3, <1>4, <2>1, <2>2, <2>3, InsertedInv, q \in used
<1> QED
  BY <1>8, <1>9
-----------------------------------------------------------------------------
LEMMA Initially == Init => IInv
<1> SUFFICES ASSUME Init PROVE IInv
  OBVIOUS
<1>1. F = <<>> /\ DOMAIN F = {} /\ used = {} /\ owned = {} /\ others = {} /\ dropped = {}
  BY DEF Init
<1>2. TypeOK
  <2>1. brk \in ByteAt
    BY WordAssumption DEF Init, ByteAt
  <2>2. F \in Seq([at : Nat, len : Nat])
    BY <1>1, EmptySeq
  <2>3. rtos \in BOOLEAN /\ torn \in BOOLEAN /\ ragged \in SUBSET Nat
    BY DEF Init
  <2>4. others \in SUBSET ByteAt
    BY <1>1
  <2> QED
    BY <1>1, <2>1, <2>2, <2>3, <2>4 DEF TypeOK
<1>3. Tiled(Blocks, owned, dropped)
  BY <1>1 DEF Tiled, Blocks, Spans
<1>4. HeapTiled /\ Ordered /\ BreakInv
  BY <1>1, <1>3 DEF HeapTiled, Ordered, BreakInv, InHeap, OthersBelow
<1> QED
  BY <1>2, <1>4 DEF IInv

(* Others raise the break, and get what lies between. *)
LEMMA Raised ==
  ASSUME NEW a \in ByteAt, NEW d \in ByteAt
  PROVE  /\ Plus(a, d) \in ByteAt
         /\ \A c \in ByteAt : Before(c, a) => Before(c, Plus(a, d))
<1>1. /\ a.unit \in Nat /\ a.byte \in 0 .. Unit - 1 /\ d.unit \in Nat /\ d.byte \in 0 .. Unit - 1
      /\ Unit \in Nat \ {0}
  BY WordAssumption DEF ByteAt
<1>2. CASE a.byte + d.byte < Unit
  <2>1. Plus(a, d) = [unit |-> a.unit + d.unit, byte |-> a.byte + d.byte]
    BY <1>2 DEF Plus
  <2>2. a.unit + d.unit \in Nat /\ a.byte + d.byte \in 0 .. Unit - 1
    BY <1>1, <1>2
  <2>3. ASSUME NEW c \in ByteAt, Before(c, a) PROVE Before(c, Plus(a, d))
    <3>1. c.unit \in Nat /\ c.byte \in 0 .. Unit - 1
      BY DEF ByteAt
    <3>2. \/ c.unit < a.unit + d.unit
          \/ c.unit = a.unit + d.unit /\ c.byte < a.byte + d.byte
      BY <1>1, <2>3, <3>1 DEF Before
    <3> QED
      BY <2>1, <3>2 DEF Before
  <2> QED
    BY <2>1, <2>2, <2>3 DEF ByteAt
<1>3. CASE ~(a.byte + d.byte < Unit)
  <2>1. Plus(a, d) = [unit |-> a.unit + d.unit + 1, byte |-> a.byte + d.byte - Unit]
    BY <1>3 DEF Plus
  <2>2. a.unit + d.unit + 1 \in Nat /\ a.byte + d.byte - Unit \in 0 .. Unit - 1
    BY <1>1, <1>3
  <2>3. ASSUME NEW c \in ByteAt, Before(c, a) PROVE Before(c, Plus(a, d))
    <3>1. c.unit \in Nat /\ c.byte \in 0 .. Unit - 1
      BY DEF ByteAt
    <3>2. c.unit < a.unit + d.unit + 1
      BY <1>1, <2>3, <3>1 DEF Before
    <3> QED
      BY <2>1, <3>2 DEF Before
  <2> QED
    BY <2>1, <2>2, <2>3 DEF ByteAt
<1> QED
  BY <1>2, <1>3

LEMMA MovesInv ==
  ASSUME IInv, BreakMoves
  PROVE  IInv'
<1> DEFINE got == {a \in [unit : brk.unit .. brk'.unit, byte : 0 .. Unit - 1] :
                     ~Before(a, brk) /\ Before(a, brk')}
<1>1. /\ UNCHANGED <<rtos, F, used, owned, ragged, dropped, torn>>
      /\ others' = others \cup got
  BY DEF BreakMoves
<1>2. PICK d \in Foreign : brk' = Plus(brk, d)
  BY DEF BreakMoves
<1>3. brk \in ByteAt /\ d \in ByteAt
  BY SizesAssumption DEF IInv, TypeOK
<1>4. brk' \in ByteAt /\ \A c \in ByteAt : Before(c, brk) => Before(c, brk')
  BY <1>2, <1>3, Raised
<1>5. got \subseteq ByteAt /\ \A a \in got : ~Before(a, brk) /\ Before(a, brk')
  BY <1>3, <1>4 DEF ByteAt
<1> HIDE DEF got
<1>6. TypeOK'
  BY <1>1, <1>4, <1>5 DEF IInv, TypeOK
<1>7. InHeap'
  <2> SUFFICES ASSUME Sane, ~rtos, NEW u \in owned, NEW x \in 0 .. Unit - 1, x = 0 \/ u \notin ragged
               PROVE  /\ Before([unit |-> u, byte |-> x], brk')
                      /\ [unit |-> u, byte |-> x] \notin others'
    BY <1>1 DEF InHeap, Sane, Before
  <2> DEFINE a == [unit |-> u, byte |-> x]
  <2>1. Before(a, brk) /\ a \notin others
    BY DEF IInv, BreakInv, InHeap
  <2>2. a \in ByteAt
    BY DEF IInv, TypeOK, ByteAt
  <2> QED
    BY <1>1, <1>4, <1>5, <2>1, <2>2
<1>8. OthersBelow'
  <2> SUFFICES ASSUME Sane, ~rtos, NEW a \in others'
               PROVE  Before(a, brk') \/ (a.unit \in ragged /\ a.byte # 0)
    BY <1>1 DEF OthersBelow, Sane, Before
  <2>1. CASE a \in others
    <3>1. a \in ByteAt
      BY <2>1 DEF IInv, TypeOK
    <3> QED
      BY <1>4, <2>1, <3>1 DEF IInv, BreakInv, OthersBelow
  <2>2. CASE a \in got
    BY <1>5, <2>2
  <2> QED
    BY <1>1, <2>1, <2>2
<1>9. HeapTiled' /\ Ordered'
  BY <1>1 DEF IInv, HeapTiled, Ordered, Tiled, Spans, Span, End, Blocks, Sane
<1> QED
  BY <1>6, <1>7, <1>8, <1>9 DEF IInv, BreakInv

LEMMA Steps == IInv /\ [Next]_vars => IInv'
<1> SUFFICES ASSUME IInv, [Next]_vars PROVE IInv'
  OBVIOUS
<1>1. ASSUME NEW size \in Sizes, MallocFromList(size) PROVE IInv'
  BY <1>1, FromListInv
<1>2. ASSUME NEW size \in Sizes, MallocFromSystem(size) PROVE IInv'
  BY <1>2, FromSystemInv
<1>3. ASSUME NEW q \in used, Free(q) PROVE IInv'
  BY <1>3, FreeInv
<1>4. CASE BreakMoves
  BY <1>4, MovesInv
<1>5. CASE UNCHANGED vars
  BY <1>5, Stutter
<1> QED
  BY <1>1, <1>2, <1>3, <1>4, <1>5 DEF Next

LEMMA Invariance == Spec => []IInv
  BY Initially, Steps, PTL DEF Spec

(* The break, the blocks and the memory stay within their types whatever the *)
(* sizes asked for (shl_atat_malloc and shl_atat_free).                      *)
THEOREM TypeCorrect == Spec => []TypeOK
<1>1. IInv => TypeOK
  BY DEF IInv
<1> QED
  BY <1>1, Invariance, PTL

(* Splitting, extending, joining, giving back and failing keep every unit    *)
(* that blocks are laid out in in exactly one block or in the loss of a      *)
(* failed sbrk, for every header, gulp and sequence of calls, until sbrk     *)
(* gives something else than the blocks need (shl_atat_malloc and            *)
(* shl_atat_free).                                                           *)
THEOREM HeapAlwaysTiled == Spec => []HeapTiled
<1>1. IInv => HeapTiled
  BY DEF IInv
<1> QED
  BY <1>1, Invariance, PTL

(* However others move the break between two calls, and by however few       *)
(* bytes, every unit of the heap starts below the break in memory that is    *)
(* not theirs, and only the last unit of a gulp asked for at an unaligned    *)
(* break can end in theirs (shl_atat_malloc).                                *)
THEOREM HeapAlwaysInside == Spec => []InHeap
<1>1. IInv => InHeap
  BY DEF IInv, BreakInv
<1> QED
  BY <1>1, Invariance, PTL

(* The free list descends, and no two of its blocks touch, after every call: *)
(* shl_atat_free finds all the neighbours there are to join.                 *)
THEOREM AlwaysCoalesced == Spec => []Coalesced
<1>1. ASSUME IInv PROVE Coalesced
  <2> SUFFICES ASSUME Sane, NEW k \in 2 .. Len(F) PROVE End(F[k]) < F[k - 1].at
    BY DEF Coalesced
  <2>1. k \in DOMAIN F /\ k - 1 \in DOMAIN F /\ k - 1 < k
    BY <1>1, StateFacts
  <2> QED
    BY <1>1, <2>1 DEF IInv, Ordered
<1> QED
  BY <1>1, Invariance, PTL
=============================================================================
