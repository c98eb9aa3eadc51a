--------------------------- MODULE InductionProofs ---------------------------
(***************************************************************************)
(* Induction over the data of the models.  The library's induction theorems*)
(* take an operator, so the principle is stated for sets: a set of numbers *)
(* has a least member, and a bounded one a greatest.  From it follows that *)
(* the recursive functions by which the community modules define the folds *)
(* of a sequence exist, and how they unfold from the left.                 *)
(***************************************************************************)
EXTENDS SequencesExt, WellFoundedInduction, TLAPS

LEMMA NatWellFounded == IsWellFoundedOn({ss \in Nat \X Nat : ss[1] < ss[2]}, Nat)
  BY NatLessThanWellFounded DEF OpToRel

LEMMA Least ==
  ASSUME NEW S \in SUBSET Nat, S # {}
  PROVE  \E m \in S : \A n \in S : m <= n
<1> DEFINE R == {ss \in Nat \X Nat : ss[1] < ss[2]}
<1>1. IsWellFoundedOn(R, Nat)
  BY NatWellFounded
<1> HIDE DEF R
<1>2. PICK x \in S : \A y \in S : <<y, x>> \notin R
  BY <1>1, WFMin
<1>3. ASSUME NEW n \in S PROVE x <= n
  <2>1. <<n, x>> \notin R
    BY <1>2, <1>3
  <2>2. n \in Nat /\ x \in Nat
    BY <1>2, <1>3
  <2>3. <<n, x>> \in Nat \X Nat /\ <<n, x>>[1] = n /\ <<n, x>>[2] = x
    BY <2>2
  <2>4. ~(n < x)
    BY <2>1, <2>3 DEF R
  <2> QED BY <2>2, <2>4
<1> QED
  BY <1>2, <1>3

LEMMA Greatest ==
  ASSUME NEW n \in Nat, NEW S \in SUBSET (0 .. n), S # {}
  PROVE  \E m \in S : \A x \in S : x <= m
<1> DEFINE U == {u \in Nat : \A x \in S : x <= u}
<1>1. U \in SUBSET Nat /\ n \in U
  OBVIOUS
<1>2. PICK m \in U : \A u \in U : m <= u
  BY <1>1, Least
<1>3. m \in S
  <2> SUFFICES ASSUME m \notin S PROVE FALSE
    OBVIOUS
  <2>1. \A x \in S : x <= m /\ x # m /\ x \in Nat
    <3>1. m \in Nat /\ \A x \in S : x <= m
      BY <1>2
    <3>2. \A x \in S : x # m /\ x \in 0 .. n
      OBVIOUS
    <3> QED BY <3>1, <3>2
  <2>2. m \in Nat /\ m > 0
    <3>1. PICK x \in S : TRUE
      OBVIOUS
    <3>2. x <= m /\ x # m /\ x \in Nat /\ m \in Nat
      BY <1>2, <2>1, <3>1
    <3> QED BY <3>2
  <2>3. m - 1 \in U
    BY <1>2, <2>1, <2>2
  <2> QED BY <1>2, <2>3
<1> QED BY <1>2, <1>3

(* A set of numbers that holds 0 and with each one the next holds them all. *)
LEMMA Counting ==
  ASSUME NEW n \in Nat, NEW S, 0 \in S, \A k \in 0 .. n - 1 : k \in S => k + 1 \in S
  PROVE  \A k \in 0 .. n : k \in S
<1> DEFINE R == {k \in 0 .. n : k \notin S}
<1>1. SUFFICES ASSUME R # {} PROVE FALSE
  OBVIOUS
<1>2. R \in SUBSET Nat
  OBVIOUS
<1>3. PICK k \in R : \A x \in R : k <= x
  BY <1>1, <1>2, Least
<1>4. k \in 0 .. n /\ k \notin S /\ k # 0
  OBVIOUS
<1>5. k - 1 \in 0 .. n - 1 /\ k - 1 \in 0 .. n /\ (k - 1) + 1 = k
  BY <1>4
<1>6. k - 1 \notin R
  BY <1>3, <1>4
<1> QED
  BY <1>4, <1>5, <1>6

(* The largest of a set of positions, as FoldLeft chooses it. *)
LEMMA MaxFacts ==
  ASSUME NEW n \in Nat
  PROVE  /\ \A s \in SUBSET (1 .. n) : s # {} => Max(s) \in s /\ \A x \in s : x <= Max(s)
         /\ n > 0 => Max(1 .. n) = n /\ (1 .. n) \ {n} = 1 .. n - 1
<1>1. ASSUME NEW s \in SUBSET (1 .. n), s # {} PROVE Max(s) \in s /\ \A x \in s : x <= Max(s)
  <2>1. s \in SUBSET (0 .. n)
    OBVIOUS
  <2>2. PICK m \in s : \A x \in s : x <= m
    BY <1>1, <2>1, Greatest
  <2>3. \A x \in s : m >= x
    BY <2>2
  <2>4. Max(s) \in s /\ \A x \in s : Max(s) >= x
    BY <2>3 DEF Max
  <2> QED
    BY <2>4
<1>2. ASSUME n > 0 PROVE Max(1 .. n) = n /\ (1 .. n) \ {n} = 1 .. n - 1
  <2>1. Max(1 .. n) \in 1 .. n /\ \A x \in 1 .. n : x <= Max(1 .. n)
    <3>1. (1 .. n) \in SUBSET (1 .. n) /\ 1 \in 1 .. n
      BY <1>2
    <3>2. (1 .. n) # {}
      BY <3>1
    <3> QED
      BY <1>1, <3>1, <3>2
  <2> QED
    BY <1>2, <2>1
<1> QED
  BY <1>1, <1>2

(* The first k positions: where a fold has got to. *)
LEMMA Prefix ==
  ASSUME NEW n \in Nat, NEW k \in 1 .. n
  PROVE  /\ 1 .. k \in SUBSET (1 .. n) /\ 1 .. k # {}
         /\ Max(1 .. k) = k /\ (1 .. k) \ {k} = 1 .. k - 1
<1>1. k \in Nat /\ k > 0 /\ k <= n
  OBVIOUS
<1>2. 1 \in 1 .. k /\ \A x \in 1 .. k : x \in 1 .. n
  BY <1>1
<1> QED
  BY <1>1, <1>2, MaxFacts

(* A fold of the first n positions: at every set of them it takes one step F *)
(* from what it is without the largest.  It exists.                         *)
Steps(V, n) == [(1 .. n) \X V -> V]

IsFold(f, V, b, n, F) ==
  /\ f \in [SUBSET (1 .. n) -> V]
  /\ \A s \in SUBSET (1 .. n) :
       f[s] = IF s = {} THEN b ELSE F[<<Max(s), f[s \ {Max(s)}]>>]

LEMMA FoldExists ==
  ASSUME NEW V, NEW b \in V, NEW n \in Nat, NEW F \in Steps(V, n)
  PROVE  \E f : IsFold(f, V, b, n, F)
<1>5. F \in [(1 .. n) \X V -> V]
  BY DEF Steps
<1> DEFINE Folds(f, k) == \A s \in SUBSET (1 .. k) :
                            f[s] = IF s = {} THEN b ELSE F[<<Max(s), f[s \ {Max(s)}]>>]
           S == {k \in 0 .. n : \E f \in [SUBSET (1 .. k) -> V] : Folds(f, k)}
<1>1. 0 \in S
  <2>1. SUBSET (1 .. 0) = {{}}
    OBVIOUS
  <2> DEFINE e == [s \in SUBSET (1 .. 0) |-> b]
  <2>2. e \in [SUBSET (1 .. 0) -> V]
    OBVIOUS
  <2>3. Folds(e, 0)
    BY <2>1
  <2> HIDE DEF e, Folds
  <2>4. \E f \in [SUBSET (1 .. 0) -> V] : Folds(f, 0)
    BY <2>2, <2>3, Zenon
  <2>5. 0 \in 0 .. n
    OBVIOUS
  <2> QED
    BY <2>4, <2>5, Zenon
<1>2. ASSUME NEW k \in 0 .. n - 1, k \in S PROVE k + 1 \in S
  <2>1. PICK f \in [SUBSET (1 .. k) -> V] : Folds(f, k)
    BY <1>2
  <2>2. k \in Nat /\ k + 1 \in 1 .. n /\ k + 1 \in 0 .. n
    OBVIOUS
  <2> HIDE DEF S
  <2> DEFINE h == [s \in SUBSET (1 .. k + 1) |->
                     IF k + 1 \in s THEN F[<<k + 1, f[s \ {k + 1}]>>] ELSE f[s]]
  <2>7. \A s \in SUBSET (1 .. k + 1) : s # {} => Max(s) \in s /\ \A x \in s : x <= Max(s)
    BY <2>2, MaxFacts
  <2>3. ASSUME NEW s \in SUBSET (1 .. k + 1), k + 1 \in s
        PROVE  /\ Max(s) = k + 1 /\ s \ {k + 1} \in SUBSET (1 .. k)
               /\ h[s] = F[<<k + 1, f[s \ {k + 1}]>>] /\ h[s] \in V
               /\ h[s \ {k + 1}] = f[s \ {k + 1}]
    <3>1. Max(s) \in s /\ \A x \in s : x <= Max(s)
      BY <2>3, <2>7
    <3>2. Max(s) = k + 1
      <4> DEFINE m == Max(s)
      <4>1. m \in 1 .. k + 1 /\ k + 1 <= m
        BY <2>3, <3>1
      <4> HIDE DEF m
      <4>2. m = k + 1
        BY <2>2, <4>1
      <4> QED
        BY <4>2 DEF m
    <3>3. s \ {k + 1} \in SUBSET (1 .. k) /\ s \ {k + 1} \in SUBSET (1 .. k + 1)
      BY <2>2
    <3>4. h[s] = F[<<k + 1, f[s \ {k + 1}]>>] /\ h[s \ {k + 1}] = f[s \ {k + 1}]
      BY <2>3, <3>3
    <3>5. <<k + 1, f[s \ {k + 1}]>> \in (1 .. n) \X V
      BY <2>2, <3>3
    <3> QED
      BY <1>5, <3>2, <3>3, <3>4, <3>5
  <2>4. ASSUME NEW s \in SUBSET (1 .. k + 1), k + 1 \notin s
        PROVE  /\ s \in SUBSET (1 .. k) /\ h[s] = f[s] /\ h[s] \in V
               /\ s # {} => h[s \ {Max(s)}] = f[s \ {Max(s)}]
    <3>1. s \in SUBSET (1 .. k)
      BY <2>2, <2>4
    <3>2. \A u \in SUBSET (1 .. k) : u \in SUBSET (1 .. k + 1) /\ k + 1 \notin u
      BY <2>2
    <3>3. \A u \in SUBSET (1 .. k) : h[u] = f[u]
      BY <3>2
    <3> HIDE DEF h
    <3>4. s \ {Max(s)} \in SUBSET (1 .. k)
      BY <3>1
    <3> QED
      BY <3>1, <3>3, <3>4
  <2>5. h \in [SUBSET (1 .. k + 1) -> V]
    BY <2>3, <2>4
  <2>6. Folds(h, k + 1)
    <3> SUFFICES ASSUME NEW s \in SUBSET (1 .. k + 1)
                 PROVE  h[s] = IF s = {} THEN b ELSE F[<<Max(s), h[s \ {Max(s)}]>>]
      OBVIOUS
    <3> HIDE DEF h
    <3>1. CASE k + 1 \in s
      BY <2>3, <3>1
    <3>2. CASE k + 1 \notin s
      BY <2>1, <2>4, <3>2
    <3> QED
      BY <3>1, <3>2
  <2> QED
    BY <2>2, <2>5, <2>6 DEF S
<1>3. \A k \in 0 .. n : k \in S
  <2> HIDE DEF S
  <2> QED
    BY <1>1, <1>2, Counting
<1>4. n \in S
  <2> HIDE DEF S
  <2> QED
    BY <1>3
<1> QED
  BY <1>4 DEF IsFold

(* What is defined from 0 upwards, each value from the one before, exists. *)
LEMMA Iterated ==
  ASSUME NEW V, NEW b \in V, NEW F \in [V -> V]
  PROVE  \E f \in [Nat -> V] : f[0] = b /\ \A k \in Nat : f[k + 1] = F[f[k]]
<1> DEFINE Upto(f, n) == /\ f \in [0 .. n -> V] /\ f[0] = b
                         /\ \A k \in 0 .. n - 1 : f[k + 1] = F[f[k]]
           at(n) == CHOOSE f : Upto(f, n)
           all   == [n \in Nat |-> at(n)[n]]
<1>1. ASSUME NEW n \in Nat PROVE \E f : Upto(f, n)
  <2> DEFINE S == {j \in 0 .. n : \E f : Upto(f, j)}
  <2>1. 0 \in S
    <3>1. Upto([k \in 0 .. 0 |-> b], 0)
      OBVIOUS
    <3> HIDE DEF Upto
    <3> QED
      BY <3>1
  <2>2. ASSUME NEW j \in 0 .. n - 1, j \in S PROVE j + 1 \in S
    <3>1. PICK f : Upto(f, j)
      BY <2>2
    <3> DEFINE h == [k \in 0 .. j + 1 |-> IF k = j + 1 THEN F[f[j]] ELSE f[k]]
    <3>2. j \in Nat /\ j + 1 \in 0 .. n /\ j + 1 \in 0 .. j + 1 /\ j \in 0 .. j
      OBVIOUS
    <3>3. \A k \in 0 .. j : k \in 0 .. j + 1 /\ k # j + 1
      BY <3>2
    <3>4. (\A k \in 0 .. j : h[k] = f[k]) /\ h[j + 1] = F[f[j]]
      BY <3>2, <3>3
    <3>5. h \in [0 .. j + 1 -> V]
      <4>1. F[f[j]] \in V
        BY <3>1, <3>2
      <4>2. \A k \in 0 .. j + 1 : k = j + 1 \/ k \in 0 .. j
        BY <3>2
      <4>3. \A k \in 0 .. j : f[k] \in V
        BY <3>1
      <4> QED
        BY <4>1, <4>2, <4>3
    <3> HIDE DEF h
    <3>6. \A k \in 0 .. j + 1 - 1 : h[k + 1] = F[h[k]]
      <4> SUFFICES ASSUME NEW k \in 0 .. j PROVE h[k + 1] = F[h[k]]
        BY <3>2
      <4>1. CASE k = j
        BY <3>2, <3>4, <4>1
      <4>2. CASE k # j
        <5>1. k \in 0 .. j - 1 /\ k + 1 \in 0 .. j
          BY <3>2, <4>2
        <5> QED
          BY <3>1, <3>4, <5>1
      <4> QED
        BY <4>1, <4>2
    <3>7. h[0] = b
      BY <3>1, <3>2, <3>4
    <3>8. Upto(h, j + 1)
      BY <3>5, <3>6, <3>7
    <3> HIDE DEF Upto
    <3> QED
      BY <3>2, <3>8
  <2>3. \A j \in 0 .. n : j \in S
    <3> HIDE DEF S
    <3> QED
      BY <2>1, <2>2, Counting
  <2>4. n \in 0 .. n
    OBVIOUS
  <2> HIDE DEF Upto
  <2> QED
    BY <2>3, <2>4
<1>2. ASSUME NEW n \in Nat PROVE Upto(at(n), n)
  <2> HIDE DEF Upto
  <2> QED
    BY <1>1
<1> HIDE DEF at
<1>3. ASSUME NEW n \in Nat PROVE at(n + 1)[n] = at(n)[n]
  <2> DEFINE S == {k \in 0 .. n : at(n + 1)[k] = at(n)[k]}
  <2>1. n + 1 \in Nat /\ \A k \in 0 .. n - 1 : k \in 0 .. n + 1 - 1
    OBVIOUS
  <2>2. 0 \in S
    BY <1>2, <2>1
  <2>3. ASSUME NEW k \in 0 .. n - 1, k \in S PROVE k + 1 \in S
    <3>1. at(n + 1)[k + 1] = F[at(n + 1)[k]] /\ at(n)[k + 1] = F[at(n)[k]]
      BY <1>2, <2>1
    <3> QED
      BY <2>3, <3>1
  <2>4. \A k \in 0 .. n : k \in S
    <3> HIDE DEF S
    <3> QED
      BY <2>2, <2>3, Counting
  <2>5. n \in 0 .. n
    OBVIOUS
  <2> QED
    BY <2>4, <2>5
<1>4. all \in [Nat -> V]
  <2>1. \A n \in Nat : at(n)[n] \in V
    <3> SUFFICES ASSUME NEW n \in Nat PROVE at(n)[n] \in V
      OBVIOUS
    <3>1. at(n) \in [0 .. n -> V] /\ n \in 0 .. n
      BY <1>2
    <3> QED
      BY <3>1
  <2> QED
    BY <2>1
<1>5. all[0] = b
  BY <1>2
<1>6. ASSUME NEW k \in Nat PROVE all[k + 1] = F[all[k]]
  <2>1. all[k + 1] = at(k + 1)[k + 1] /\ all[k] = at(k)[k] /\ k + 1 \in Nat
    OBVIOUS
  <2>2. at(k + 1)[k + 1] = F[at(k + 1)[k]]
    <3>1. k \in 0 .. k + 1 - 1
      OBVIOUS
    <3> QED
      BY <1>2, <2>1, <3>1
  <2> QED
    BY <1>3, <2>1, <2>2
<1> HIDE DEF all
<1> QED
  BY <1>4, <1>5, <1>6
==============================================================================
