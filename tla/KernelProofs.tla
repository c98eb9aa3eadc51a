---------------------------- MODULE KernelProofs ----------------------------
(***************************************************************************)
(* Proofs about the kernels: the two streaming layers, which have a        *)
(* memory, and the convolutions of the vector backends.                    *)
(*                                                                         *)
(* Every FSMN layer, of any order, strides and delay, weights the frames   *)
(* at the distances ResultByDistance names.  The counter is the number of  *)
(* runs as long as it has not overflowed, and then the line is a function  *)
(* of that number alone: this is the invariant, and the distances are      *)
(* arithmetic on the indices of the kernel.  In general the counter is     *)
(* that number modulo its range.                                           *)
(*                                                                         *)
(* The cache keeps its window for every length of it, every set of         *)
(* elements and every way to cut the stream into chunks.  What has to be   *)
(* added to the properties is where the writer stands: inserting at the    *)
(* back, the window ends at it; inserting at the front, it starts at it,   *)
(* except that before the first wrap it is the lower half of the buffer.   *)
(*                                                                         *)
(* The tiles of a convolution stay inside the buffers for every shape.     *)
(* The invariant says which outputs the tiles so far have written; that a  *)
(* tile writes others follows because a layout puts no two elements at one *)
(* place (LaneInjective), whether or not the channels fill its packs.      *)
(*                                                                         *)
(* Their outputs are exact for every shape the kernels accept.  The blocks *)
(* of a packing start where going past block after block leads (Starts),   *)
(* so every place is found again from what is stored there (LaneBack,      *)
(* BlockHere); then the packed kernel holds, at the place the              *)
(* multiplication reads, the weight of its row and product                 *)
(* (PackingRight), and the packed image the pixel that product meets       *)
(* (InputRead, MatrixRight).  The invariant (ExactInv) says which outputs  *)
(* are made and that they are right (Progress); when the run is over they  *)
(* are all of them, where the layout says (FinalPlace), and their products *)
(* are the taps of the reference convolution, one by one (Agree).          *)
(***************************************************************************)
EXTENDS AsrBuffer, Fsmn, RvvConv, InductionProofs, FiniteSetTheorems, TLAPS

LineInOrder ==
  seen <= IntMax =>
    /\ frame_count = seen
    /\ \A n \in DOMAIN line : line[n] = Ago(p.len_order - 1 - n)

LineInv ==
  /\ FsmnTypeOK
  /\ LineInOrder
  /\ seen > 0 => result = Weighted(line)

(* The constants of a layer are numbers, and its reads lie inside the line. *)
LEMMA LayerNumbers ==
  ASSUME FsmnTypeOK
  PROVE  /\ p.len_order \in Nat \ {0} /\ p.l_order \in Nat \ {0} /\ p.l_stride \in Nat \ {0}
         /\ p.r_order \in Nat /\ p.r_stride \in Nat \ {0} /\ p.unavailable_frames \in Nat
         /\ Covers(p)
         /\ seen \in Nat /\ MaxFrames \in Nat /\ IntMax \in Nat \ {0}
         /\ frame_count \in Int
BY LayerAssumption, FramesAssumption DEF FsmnTypeOK, FsmnParams

(* The first frame starts from a line of zeros and a counter at zero.       *)
LEMMA FsmnInitInv == FsmnInit => LineInv
<1> SUFFICES ASSUME FsmnInit PROVE LineInv
  OBVIOUS
<1>1. p \in FsmnParams
  BY LayerAssumption DEF FsmnInit
<1>2. FsmnTypeOK
  BY <1>1, FramesAssumption DEF FsmnInit, FsmnTypeOK, FsmnParams
<1>3. LineInOrder
  BY <1>1, FramesAssumption DEF FsmnInit, LineInOrder, Ago, FsmnParams
<1> QED
  BY <1>2, <1>3 DEF LineInv, FsmnInit

(* A call keeps the types: the counter stays within its 32 bits.            *)
LEMMA FrameType == ASSUME LineInv, Frame PROVE FsmnTypeOK'
<1>1. FsmnTypeOK
  BY DEF LineInv
<1>2. seen' \in 0 .. MaxFrames /\ seen' = seen + 1
  BY <1>1, LayerNumbers DEF Frame
<1>3. frame_count' \in 0 - IntMax - 1 .. IntMax
  <2>1. frame_count' = IF frame_count = IntMax THEN 0 - IntMax - 1 ELSE frame_count + 1
    BY Zenon DEF Frame, Inc
  <2>2. IntMax \in Nat \ {0} /\ frame_count \in 0 - IntMax - 1 .. IntMax
    BY <1>1, LayerNumbers DEF FsmnTypeOK
  <2> QED
    BY <2>1, <2>2
<1>4. line' \in [0 .. p.len_order - 1 -> 0 .. seen']
  <2>1. CASE Taken(frame_count')
    <3>1. line' = Pushed(seen') /\ seen' \in 0 .. seen' /\ seen \in Nat /\ seen' = seen + 1
      BY <2>1, <1>1, <1>2, LayerNumbers DEF Frame
    <3>2. ASSUME NEW n \in 0 .. p.len_order - 1, n # p.len_order - 1
          PROVE  line[n + 1] \in 0 .. seen'
      <4>1. n + 1 \in 0 .. p.len_order - 1
        BY <1>1, <3>2, LayerNumbers
      <4> QED
        BY <4>1, <1>1, <3>1 DEF FsmnTypeOK
    <3>3. DOMAIN line = 0 .. p.len_order - 1
      BY <1>1 DEF FsmnTypeOK
    <3> QED
      BY <3>1, <3>2, <3>3 DEF Pushed
  <2>2. CASE ~Taken(frame_count')
    BY <2>2, <1>1, <1>2, LayerNumbers DEF Frame, FsmnTypeOK
  <2> QED
    BY <2>1, <2>2
<1> QED
  BY <1>1, <1>2, <1>3, <1>4 DEF FsmnTypeOK, Frame

(* A call keeps the line in order: a frame that is taken moves all others   *)
(* one place, and one that is not taken changes no distance that matters.   *)
LEMMA FrameLine == ASSUME LineInv, Frame PROVE LineInOrder'
<1> SUFFICES ASSUME seen' <= IntMax
             PROVE  /\ frame_count' = seen'
                    /\ \A n \in DOMAIN line' : line'[n] = (Ago(p.len_order - 1 - n))'
  BY DEF LineInOrder
<1>1. FsmnTypeOK /\ p' = p
  BY DEF LineInv, Frame
<1>2. seen' = seen + 1 /\ seen < IntMax
  BY <1>1, LayerNumbers DEF Frame
<1>3. frame_count = seen /\ \A n \in DOMAIN line : line[n] = Ago(p.len_order - 1 - n)
  BY <1>1, <1>2, LayerNumbers DEF LineInv, LineInOrder
<1>4. frame_count' = seen'
  BY <1>1, <1>2, <1>3, LayerNumbers DEF Frame, Inc
<1>5. DOMAIN line = 0 .. p.len_order - 1 /\ DOMAIN line' = DOMAIN line
  BY <1>1 DEF FsmnTypeOK, Frame, Pushed
<1>6. ASSUME NEW n \in DOMAIN line'
      PROVE  line'[n] = (Ago(p.len_order - 1 - n))'
  <2>0. /\ seen \in Nat /\ seen' = seen + 1 /\ n \in 0 .. p.len_order - 1
        /\ p.len_order \in Nat /\ p.unavailable_frames \in Nat
    BY <1>1, <1>2, <1>5, LayerNumbers
  <2>1. CASE Taken(frame_count') /\ n = p.len_order - 1
    <3>1. line'[n] = seen' /\ seen' > p.unavailable_frames
      BY <2>1, <1>4, <1>5 DEF Frame, Pushed, Taken
    <3>2. seen' - (p.len_order - 1 - n) = seen'
      BY <2>0, <2>1
    <3> QED
      BY <1>1, <3>1, <3>2 DEF Ago
  <2>2. CASE Taken(frame_count') /\ n # p.len_order - 1
    <3>1. n + 1 \in DOMAIN line
      BY <2>0, <2>2, <1>5
    <3>2. line'[n] = Ago(p.len_order - 1 - (n + 1))
      BY <2>2, <3>1, <1>3, <1>5 DEF Frame, Pushed
    <3>3. n \in Int /\ p.len_order \in Int /\ seen \in Int
      BY <1>1, <1>5, LayerNumbers
    <3>4. seen' - (p.len_order - 1 - n) = seen - (p.len_order - 1 - (n + 1))
      BY <3>3, <1>2
    <3> QED
      BY <3>2, <3>4, <1>1 DEF Ago
  <2>3. CASE ~Taken(frame_count')
    <3>1. line'[n] = Ago(p.len_order - 1 - n) /\ ~(seen' > p.unavailable_frames)
      BY <2>3, <1>3, <1>4, <1>5 DEF Frame, Taken
    <3> DEFINE lag == p.len_order - 1 - n
    <3>2. lag \in Nat
      BY <2>0
    <3> HIDE DEF lag
    <3>3. ~(seen - lag > p.unavailable_frames) /\ ~(seen' - lag > p.unavailable_frames)
      BY <2>0, <3>1, <3>2
    <3> QED
      BY <1>1, <3>1, <3>3 DEF Ago, lag
  <2> QED
    BY <2>1, <2>2, <2>3
<1> QED
  BY <1>4, <1>6

(* The invariant holds in every state.                                      *)
THEOREM FsmnInvariance == FsmnSpec => []LineInv
<1>1. LineInv /\ [Frame]_fsmnVars => LineInv'
  <2> SUFFICES ASSUME LineInv, [Frame]_fsmnVars PROVE LineInv'
    OBVIOUS
  <2>1. CASE Frame
    <3>1. (seen > 0 => result = Weighted(line))'
      BY <2>1 DEF Frame, Weighted
    <3> QED
      BY <2>1, <3>1, FrameType, FrameLine DEF LineInv
  <2>2. CASE UNCHANGED fsmnVars
    BY <2>2 DEF LineInv, fsmnVars, FsmnTypeOK, LineInOrder, Ago, Weighted
  <2> QED
    BY <2>1, <2>2
<1> QED
  BY <1>1, FsmnInitInv, PTL DEF FsmnSpec

(* A product does not shrink when a factor grows.                           *)
LEMMA ProductGrows ==
  ASSUME NEW a \in Nat, NEW b \in Nat, NEW c \in Nat, a <= b
  PROVE  a * c \in Nat /\ a * c <= b * c
<1>1. b - a \in Nat /\ (b - a) * c \in Nat /\ a * c \in Nat
  OBVIOUS
<1>2. b * c = (b - a) * c + a * c
  OBVIOUS
<1> QED
  BY <1>1, <1>2

(* The strides before the last one of a line that reaches it lie in it.     *)
LEMMA WholeStrides ==
  ASSUME NEW n \in Nat, NEW o \in Nat \ {0}, NEW d \in Nat \ {0}, NEW w \in Nat,
         (o - 1) * d < n, w < o
  PROVE  w * d \in 0 .. n - 1
<1>1. w * d \in Nat /\ w * d <= (o - 1) * d
  <2>1. o - 1 \in Nat /\ w <= o - 1 /\ d \in Nat
    OBVIOUS
  <2> QED
    BY ONLY <2>1, w \in Nat, ProductGrows
<1>2. (o - 1) * d \in Nat
  OBVIOUS
<1> QED
  BY <1>1, <1>2

(* The indices of the kernel, taken as distances from the newest frame.     *)
LEMMA Distances ==
  ASSUME FsmnTypeOK, LineInOrder, seen \in 1 .. IntMax, result = Weighted(line)
  PROVE  ResultByDistance
<1> DEFINE behind == p.len_order - 1 - (p.l_order - 1) * p.l_stride
<1>0. /\ p.len_order \in Nat /\ p.l_order \in Nat \ {0} /\ p.l_stride \in Nat \ {0}
      /\ (p.l_order - 1) * p.l_stride < p.len_order
  BY LayerNumbers DEF Covers
<1>1. \A n \in DOMAIN line : line[n] = Ago(p.len_order - 1 - n)
  BY LayerNumbers DEF LineInOrder
<1>2. DOMAIN line = 0 .. p.len_order - 1
  BY DEF FsmnTypeOK
<1>3. result.current = Ago(behind)
  <2>1. (p.l_order - 1) * p.l_stride \in DOMAIN line
    <3>1. p.l_order - 1 \in Nat /\ p.l_order - 1 < p.l_order
      BY LayerNumbers
    <3> QED
      BY <3>1, <1>2, <1>0, WholeStrides
  <2> QED
    BY <2>1, <1>1, LayerNumbers DEF Weighted
<1>4. ASSUME NEW w \in 0 .. p.l_order - 1
      PROVE  result.past[w] = Ago(behind + w * p.l_stride)
  <2> DEFINE at == (p.l_order - w - 1) * p.l_stride
  <2>1. at \in DOMAIN line
    <3>1. p.l_order - w - 1 \in Nat /\ p.l_order - w - 1 < p.l_order
      BY LayerNumbers
    <3> QED
      BY <3>1, <1>2, <1>0, WholeStrides
  <2>2. result.past[w] = Ago(p.len_order - 1 - at)
    BY <2>1, <1>1 DEF Weighted
  <2>3. p.len_order - 1 - at = behind + w * p.l_stride
    BY LayerNumbers
  <2> QED
    BY <2>2, <2>3
<1>5. ASSUME NEW w \in 0 .. p.r_order - 1
      PROVE  result.future[w] = Ago(behind - p.l_stride - w * p.r_stride)
  <2> DEFINE at == p.l_order * p.l_stride + w * p.r_stride
  <2>1. at \in DOMAIN line
    <3>1. w \in Nat /\ p.r_order - 1 \in Nat /\ w <= p.r_order - 1
      BY LayerNumbers
    <3>2. w * p.r_stride \in Nat /\ w * p.r_stride <= (p.r_order - 1) * p.r_stride
      BY <3>1, LayerNumbers, ProductGrows
    <3>3. p.l_order * p.l_stride \in Nat /\ (p.r_order - 1) * p.r_stride \in Nat
      BY <3>1, LayerNumbers, ProductGrows
    <3>4. p.l_order * p.l_stride + (p.r_order - 1) * p.r_stride < p.len_order
      BY <3>1, LayerNumbers DEF Covers
    <3> HIDE DEF at
    <3>5. /\ p.l_order * p.l_stride + w * p.r_stride \in Nat
          /\ p.l_order * p.l_stride + w * p.r_stride < p.len_order
      BY <3>2, <3>3, <3>4, <1>0
    <3>6. at \in Nat /\ at < p.len_order
      BY <3>5 DEF at
    <3> QED
      BY <3>6, <1>0, <1>2
  <2>2. result.future[w] = Ago(p.len_order - 1 - at)
    BY <2>1, <1>1 DEF Weighted
  <2>3. p.len_order - 1 - at = behind - p.l_stride - w * p.r_stride
    BY LayerNumbers
  <2> QED
    BY <2>2, <2>3
<1> QED
  BY <1>1, <1>3, <1>4, <1>5 DEF ResultByDistance

(* Every result weights the frames at the distances of ResultByDistance, in *)
(* every run up to the overflow of the counter and for every layer.         *)
THEOREM ResultCorrect == FsmnSpec => []ResultByDistance
<1>1. LineInv => ResultByDistance
  BY Distances, LayerNumbers DEF LineInv, ResultByDistance
<1> QED
  BY <1>1, FsmnInvariance, PTL

(* One more run moves the remainder by one, and back to zero at the modulus. *)
LEMMA NextRemainder ==
  ASSUME NEW a \in Nat, NEW m \in Nat \ {0}
  PROVE  /\ a % m \in 0 .. m - 1
         /\ (a + 1) % m = IF a % m = m - 1 THEN 0 ELSE (a % m) + 1
<1>1. a % m \in 0 .. m - 1 /\ (a + 1) % m \in 0 .. m - 1
  OBVIOUS
<1> DEFINE q == a \div m
           r == a % m
           q2 == (a + 1) \div m
           r2 == (a + 1) % m
<1>2. a = m * q + r /\ a + 1 = m * q2 + r2 /\ q \in Int /\ q2 \in Int /\ r \in Int /\ r2 \in Int
  OBVIOUS
<1>3. r \in 0 .. m - 1 /\ r2 \in 0 .. m - 1
  BY <1>1
<1> HIDE DEF q, r, q2, r2
<1>4. m * (q2 - q) = r + 1 - r2
  BY <1>2
<1> DEFINE d == q2 - q
<1>5. d \in Int /\ m * d = r + 1 - r2
  BY <1>2, <1>4
<1> HIDE DEF d
<1>6. d = 0 \/ d = 1
  <2>1. d >= 2 => m * d >= m * 2
    BY <1>5
  <2>2. d <= -1 => m * d <= m * (-1)
    BY <1>5
  <2> QED
    BY <1>3, <1>5, <2>1, <2>2
<1>7. d = 0 => r2 = r + 1
  BY <1>3, <1>5
<1>8. d = 1 => r2 = r + 1 - m
  BY <1>3, <1>5
<1>9. r2 = IF r = m - 1 THEN 0 ELSE r + 1
  BY <1>3, <1>6, <1>7, <1>8
<1> QED
  BY <1>1, <1>9 DEF r, r2

(* The counter is the number of runs, wrapped into 32 bits ...              *)
Wrapped(n) == IF n <= IntMax THEN n ELSE n - 2 * (IntMax + 1)

CounterWraps == frame_count = Wrapped(seen % (2 * (IntMax + 1)))

(* ... and the newest frame ends the line when it was taken.                *)
TailIsNew == seen > 0 => (line[p.len_order - 1] = seen <=> Taken(frame_count))

LEMMA WrapsAlways ==
  ASSUME LineInv, CounterWraps, Frame
  PROVE  CounterWraps'
<1> DEFINE m == 2 * (IntMax + 1)
<1>1. seen \in Nat /\ IntMax \in Nat /\ m \in Nat \ {0} /\ m = IntMax + IntMax + 2
  BY LayerNumbers DEF LineInv
<1>2. /\ seen % m \in 0 .. m - 1
      /\ (seen + 1) % m = IF seen % m = m - 1 THEN 0 ELSE (seen % m) + 1
  BY <1>1, NextRemainder
<1>3. seen' = seen + 1 /\ frame_count' = Inc(frame_count) /\ frame_count = Wrapped(seen % m)
  BY DEF Frame, CounterWraps
<1> HIDE DEF m
<1> DEFINE r  == seen % m
           r2 == (seen + 1) % m
<1>4. r \in 0 .. m - 1 /\ r2 = (IF r = m - 1 THEN 0 ELSE r + 1) /\ frame_count = Wrapped(r)
  BY <1>2, <1>3
<1> HIDE DEF r, r2
<1>5. Inc(Wrapped(r)) = Wrapped(r2)
  BY <1>1, <1>4 DEF Inc, Wrapped, m
<1>6. frame_count' = Wrapped(r2)
  BY <1>3, <1>4, <1>5
<1> QED
  BY <1>3, <1>6 DEF CounterWraps, r2, m

LEMMA TailFollows ==
  ASSUME LineInv, Frame
  PROVE  TailIsNew'
<1>1. FsmnTypeOK /\ p' = p /\ p.len_order \in Nat \ {0} /\ seen \in Nat /\ seen' = seen + 1
  BY LayerNumbers DEF LineInv, Frame
<1>2. p.len_order - 1 \in 0 .. p.len_order - 1 /\ DOMAIN line = 0 .. p.len_order - 1
  BY <1>1 DEF FsmnTypeOK
<1>3. CASE Taken(frame_count')
  <2>1. line' = Pushed(seen')
    BY <1>3 DEF Frame
  <2>2. line'[p.len_order - 1] = seen'
    BY <1>2, <2>1 DEF Pushed
  <2> QED
    BY <1>1, <1>3, <2>2 DEF TailIsNew, Taken
<1>4. CASE ~Taken(frame_count')
  <2>1. line' = line
    BY <1>4 DEF Frame
  <2>2. line[p.len_order - 1] \in 0 .. seen
    BY <1>1, <1>2 DEF FsmnTypeOK
  <2>3. line'[p.len_order - 1] # seen'
    BY <1>1, <2>1, <2>2
  <2> QED
    BY <1>1, <1>4, <2>3 DEF TailIsNew, Taken
<1> QED
  BY <1>3, <1>4

(* The counter wraps, for every layer and every width of it: of every 2^32  *)
(* runs the layer takes the frames of those alone in which the counter is   *)
(* past the delay and not negative, and repeats its result in the others.   *)
THEOREM FrozenCorrect == FsmnSpec => []FrozenAfterOverflow
<1> DEFINE Inv == LineInv /\ CounterWraps /\ TailIsNew
<1>1. FsmnInit => Inv
  <2> SUFFICES ASSUME FsmnInit PROVE CounterWraps /\ TailIsNew
    BY FsmnInitInv
  <2>1. seen = 0 /\ frame_count = 0 /\ IntMax \in Nat
    BY FramesAssumption DEF FsmnInit
  <2>2. 0 % (2 * (IntMax + 1)) = 0
    BY <2>1
  <2> QED
    BY <2>1, <2>2 DEF CounterWraps, TailIsNew, Wrapped
<1>2. Inv /\ [Frame]_fsmnVars => Inv'
  <2> SUFFICES ASSUME Inv, [Frame]_fsmnVars PROVE Inv'
    OBVIOUS
  <2>1. CASE Frame
    <3>1. (seen > 0 => result = Weighted(line))'
      BY <2>1 DEF Frame, Weighted
    <3> QED
      BY <2>1, <3>1, FrameType, FrameLine, WrapsAlways, TailFollows DEF LineInv
  <2>2. CASE UNCHANGED fsmnVars
    BY <2>2 DEF LineInv, fsmnVars, FsmnTypeOK, LineInOrder, Ago, Weighted, CounterWraps,
                TailIsNew, Wrapped, Taken
  <2> QED
    BY <2>1, <2>2
<1>3. Inv => FrozenAfterOverflow
  <2> SUFFICES ASSUME Inv PROVE FrozenAfterOverflow
    OBVIOUS
  <2> DEFINE n == seen % (2 * (IntMax + 1))
  <2>1. /\ seen \in Nat /\ IntMax \in Nat /\ p.unavailable_frames \in Nat
        /\ 2 * (IntMax + 1) \in Nat \ {0} /\ 2 * (IntMax + 1) = IntMax + IntMax + 2
    BY LayerNumbers DEF LineInv
  <2>2. n \in 0 .. 2 * (IntMax + 1) - 1 /\ frame_count = Wrapped(n)
    BY <2>1, NextRemainder DEF CounterWraps
  <2>3. seen > 0 => (line[p.len_order - 1] = seen <=> frame_count > p.unavailable_frames)
    BY DEF TailIsNew, Taken
  <2> HIDE DEF n
  <2>4. frame_count > p.unavailable_frames <=> n \in p.unavailable_frames + 1 .. IntMax
    BY <2>1, <2>2 DEF Wrapped
  <2> QED
    BY <2>3, <2>4 DEF FrozenAfterOverflow, n
<1> HIDE DEF Inv
<1> QED
  BY <1>1, <1>2, <1>3, PTL DEF FsmnSpec
-----------------------------------------------------------------------------
(* The cache. *)
FrontInv ==
  front =>
    /\ writer_index <= DataLength
    /\ flag => Len(recent) = DataLength /\ out = writer_index
    /\ ~flag => Len(recent) = DataLength - writer_index /\ out = 0

BackInv == ~front => DataLength <= writer_index /\ out = writer_index - DataLength

CacheInv == TypeOK /\ FrontInv /\ BackInv /\ WindowIsRecent

LEMMA LengthNat == DataLength \in Nat /\ DataLength > 0
BY LengthAssumption

USE LengthNat, ValueAssumption
-----------------------------------------------------------------------------
(* The window, element by element. *)
Holds(b, at, x) ==
  \A k \in 1 .. DataLength :
    b[at + k - 1] = IF k <= DataLength - Len(x) THEN Zero ELSE x[k - (DataLength - Len(x))]

LEMMA WindowElements ==
  ASSUME NEW b, NEW at, NEW x
  PROVE  Slice(b, at, DataLength) = Padded(x) <=> Holds(b, at, x)
<1> DEFINE elem(k) == IF k <= DataLength - Len(x) THEN Zero ELSE x[k - (DataLength - Len(x))]
<1>1. Padded(x) = [k \in 1 .. DataLength |-> elem(k)]
  BY DEF Padded
<1>2. Slice(b, at, DataLength) = [k \in 1 .. DataLength |-> b[at + k - 1]]
  BY DEF Slice
<1>3. Holds(b, at, x) <=> \A k \in 1 .. DataLength : b[at + k - 1] = elem(k)
  BY DEF Holds
<1> HIDE DEF elem
<1>4. ASSUME Slice(b, at, DataLength) = Padded(x), NEW k \in 1 .. DataLength
      PROVE  b[at + k - 1] = elem(k)
  <2>1. Slice(b, at, DataLength)[k] = b[at + k - 1]
    BY <1>2
  <2>2. Padded(x)[k] = elem(k)
    BY <1>1
  <2> QED
    BY <1>4, <2>1, <2>2
<1>5. ASSUME \A k \in 1 .. DataLength : b[at + k - 1] = elem(k)
      PROVE  Slice(b, at, DataLength) = Padded(x)
  BY <1>1, <1>2, <1>5
<1> QED
  BY <1>3, <1>4, <1>5

LEMMA WindowPointwise ==
  ASSUME NEW b, NEW at, NEW x,
         buffer' = b, out' = at, recent' = x,
         \A k \in 1 .. DataLength : b[at + k - 1] = Padded(x)[k]
  PROVE  WindowIsRecent'
<1>1. Window' = [k \in 1 .. DataLength |-> b[at + k - 1]]
  BY DEF Window, Slice
<1>2. Padded(x) = [k \in 1 .. DataLength |-> Padded(x)[k]]
  BY DEF Padded
<1>3. Window' = Padded(x)
  BY <1>1, <1>2
<1> QED
  BY <1>3 DEF WindowIsRecent

LEMMA ChunkIsSeq ==
  ASSUME NEW input \in Chunks \cup {<<>>}
  PROVE  input \in Seq(Value) /\ Len(input) \in 0 .. DataLength
<1>1. CASE input = <<>>
  BY <1>1
<1>2. CASE input \in Chunks
  <2>1. PICK n \in 1 .. DataLength : input \in [1 .. n -> Value]
    BY <1>2 DEF Chunks
  <2>2. n \in Nat /\ n <= DataLength
    BY <2>1
  <2>3. input \in Seq(Value) /\ Len(input) = n
    BY <2>1, <2>2
  <2> QED
    BY <2>2, <2>3
<1> QED
  BY <1>1, <1>2

(* What memcpy leaves in the buffer. *)
LEMMA MemcpyBuffer ==
  ASSUME NEW b \in [Positions -> Value], NEW at \in Nat, NEW x \in Seq(Value)
  PROVE  /\ Memcpy(b, at, x) \in [Positions -> Value]
         /\ \A k \in Positions :
              Memcpy(b, at, x)[k] = IF at <= k /\ k < at + Len(x) THEN x[k - at + 1] ELSE b[k]
<1>1. \A k \in Nat : at <= k /\ k < at + Len(x) => k - at + 1 \in 1 .. Len(x)
  OBVIOUS
<1>2. \A k \in 1 .. Len(x) : x[k] \in Value
  OBVIOUS
<1> QED
  BY <1>1, <1>2 DEF Memcpy, Positions, buffer_lenth

(* A slice that lies inside the buffer is a sequence of elements. *)
LEMMA SliceSeq ==
  ASSUME NEW b \in [Positions -> Value], NEW at \in Nat, NEW n \in Nat,
         at + n <= buffer_lenth
  PROVE  /\ Slice(b, at, n) \in Seq(Value) /\ Len(Slice(b, at, n)) = n
         /\ \A k \in 1 .. n : Slice(b, at, n)[k] = b[at + k - 1]
<1>1. \A k \in 1 .. n : b[at + k - 1] \in Value
  BY DEF Positions, buffer_lenth
<1>2. Slice(b, at, n) \in [1 .. n -> Value]
  BY <1>1 DEF Slice
<1>3. Slice(b, at, n) \in Seq(Value) /\ Len(Slice(b, at, n)) = n
  BY <1>2
<1> QED
  BY <1>3 DEF Slice

(* The new history, element by element. *)
LEMMA KeepFrontElements ==
  ASSUME NEW x \in Seq(Value), NEW r \in Seq(Value),
         Len(x) <= DataLength, Len(r) <= DataLength
  PROVE  /\ KeepFront(x \o r) \in Seq(Value)
         /\ Len(KeepFront(x \o r)) = IF Len(x) + Len(r) <= DataLength
                                       THEN Len(x) + Len(r) ELSE DataLength
         /\ \A k \in 1 .. Len(KeepFront(x \o r)) :
              KeepFront(x \o r)[k] = IF k <= Len(x) THEN x[k] ELSE r[k - Len(x)]
<1>1. /\ x \o r \in Seq(Value) /\ Len(x \o r) = Len(x) + Len(r)
      /\ \A k \in 1 .. Len(x) + Len(r) :
           (x \o r)[k] = IF k <= Len(x) THEN x[k] ELSE r[k - Len(x)]
  OBVIOUS
<1>2. CASE Len(x) + Len(r) <= DataLength
  BY <1>1, <1>2 DEF KeepFront
<1>3. CASE Len(x) + Len(r) > DataLength
  <2>1. KeepFront(x \o r) = SubSeq(x \o r, 1, DataLength)
    BY <1>1, <1>3 DEF KeepFront
  <2>2. /\ SubSeq(x \o r, 1, DataLength) \in Seq(Value)
        /\ Len(SubSeq(x \o r, 1, DataLength)) = DataLength
        /\ \A k \in 1 .. DataLength : SubSeq(x \o r, 1, DataLength)[k] = (x \o r)[k]
    BY <1>1, <1>3
  <2> QED
    BY <1>1, <1>3, <2>1, <2>2
<1> QED
  BY <1>2, <1>3

LEMMA KeepBackElements ==
  ASSUME NEW x \in Seq(Value), NEW r \in Seq(Value),
         Len(x) <= DataLength, Len(r) <= DataLength
  PROVE  /\ KeepBack(r \o x) \in Seq(Value)
         /\ Len(KeepBack(r \o x)) = IF Len(x) + Len(r) <= DataLength
                                      THEN Len(x) + Len(r) ELSE DataLength
         /\ \A k \in 1 .. Len(KeepBack(r \o x)) :
              LET old == Len(KeepBack(r \o x)) - Len(x) IN
              KeepBack(r \o x)[k] = IF k <= old THEN r[k + (Len(r) - old)] ELSE x[k - old]
<1>1. /\ r \o x \in Seq(Value) /\ Len(r \o x) = Len(x) + Len(r)
      /\ \A k \in 1 .. Len(x) + Len(r) :
           (r \o x)[k] = IF k <= Len(r) THEN r[k] ELSE x[k - Len(r)]
      /\ \A k \in 1 .. Len(x) + Len(r) : (r \o x)[k] \in Value
  OBVIOUS
<1>2. CASE Len(x) + Len(r) <= DataLength
  <2>1. KeepBack(r \o x) = r \o x
    BY <1>1, <1>2 DEF KeepBack
  <2>2. Len(KeepBack(r \o x)) - Len(x) = Len(r)
    BY <1>1, <2>1
  <2> QED
    BY <1>1, <1>2, <2>1, <2>2
<1>3. CASE Len(x) + Len(r) > DataLength
  <2> DEFINE t == r \o x
  <2>0. Len(t) = Len(x) + Len(r) /\ ~(Len(t) <= DataLength)
    BY <1>1, <1>3
  <2> HIDE DEF t
  <2>a. KeepBack(t) = [k \in 1 .. DataLength |-> t[Len(t) - DataLength + k]]
    BY <2>0 DEF KeepBack, Newest
  <2>1. KeepBack(r \o x) = [k \in 1 .. DataLength |-> (r \o x)[Len(x) + Len(r) - DataLength + k]]
    BY <2>0, <2>a DEF t
  <2>2. KeepBack(r \o x) \in [1 .. DataLength -> Value]
    BY <1>1, <1>3, <2>1
  <2>3. KeepBack(r \o x) \in Seq(Value) /\ Len(KeepBack(r \o x)) = DataLength
    BY <2>2
  <2> QED
    BY <1>1, <1>3, <2>1, <2>3
<1> QED
  BY <1>2, <1>3
-----------------------------------------------------------------------------
LEMMA CacheInitInv == Init => CacheInv
BY DEF Init, CacheInv, TypeOK, FrontInv, BackInv, WindowIsRecent, Window, Slice, Padded,
       Positions, buffer_lenth

LEMMA FrontSlidesInv ==
  ASSUME CacheInv, NEW input \in Chunks, InsertFront(input), FrontSlides(input)
  PROVE  CacheInv'
<1>1. input \in Seq(Value) /\ Len(input) \in 0 .. DataLength
  BY ChunkIsSeq
<1>2. TypeOK /\ front /\ front' = front /\ flag' = flag
  BY DEF CacheInv, InsertFront, FrontSlides
<1>3. PICK start \in Nat, n \in Nat, w \in Nat, b \in [Positions -> Value], r \in Seq(Value) :
        /\ n = Len(input) /\ w = writer_index /\ b = buffer /\ r = recent
        /\ start = w - n
  BY <1>1, <1>2 DEF TypeOK, FrontSlides, buffer_lenth
<1>4. /\ buffer' = Memcpy(b, start, input) /\ writer_index' = start
      /\ out' = IF flag THEN start ELSE 0
      /\ recent' = KeepFront(input \o r)
  BY <1>3 DEF InsertFront, FrontSlides
<1>5. PICK b2 \in [Positions -> Value] :
        /\ b2 = buffer'
        /\ \A k \in Positions :
             b2[k] = IF start <= k /\ k < start + n THEN input[k - start + 1] ELSE b[k]
  <2>1. /\ Memcpy(b, start, input) \in [Positions -> Value]
        /\ \A k \in Positions : Memcpy(b, start, input)[k]
             = IF start <= k /\ k < start + Len(input) THEN input[k - start + 1] ELSE b[k]
    BY <1>1, MemcpyBuffer
  <2> QED
    BY <1>3, <1>4, <2>1
<1>6. Len(r) \in Nat /\ Len(r) <= DataLength /\ n <= DataLength /\ w <= DataLength
  BY <1>1, <1>2, <1>3 DEF CacheInv, FrontInv, TypeOK
<1>7. PICK r2 \in Seq(Value) :
        /\ r2 = recent'
        /\ Len(r2) = IF n + Len(r) <= DataLength THEN n + Len(r) ELSE DataLength
        /\ \A k \in 1 .. Len(r2) : r2[k] = IF k <= n THEN input[k] ELSE r[k - n]
  <2> DEFINE kept == KeepFront(input \o r)
  <2>1. /\ kept \in Seq(Value)
        /\ Len(kept) = IF Len(input) + Len(r) <= DataLength
                         THEN Len(input) + Len(r) ELSE DataLength
        /\ \A k \in 1 .. Len(kept) :
             kept[k] = IF k <= Len(input) THEN input[k] ELSE r[k - Len(input)]
    BY <1>1, <1>3, <1>6, KeepFrontElements
  <2> HIDE DEF kept
  <2>2. kept = recent' /\ n = Len(input)
    BY <1>3, <1>4 DEF kept
  <2> QED
    BY <2>1, <2>2
<1>8. Holds(b, out, r)
  BY <1>3, WindowElements DEF CacheInv, WindowIsRecent, Window
<1>9. CASE flag
  <2>1. out = w /\ out' = start /\ Len(r) = DataLength /\ Len(r2) = DataLength
    BY <1>2, <1>3, <1>4, <1>6, <1>7, <1>9 DEF CacheInv, FrontInv
  <2>2. ASSUME NEW k \in 1 .. DataLength PROVE b2[start + k - 1] = r2[k]
    <3>1. start + k - 1 \in Positions
      BY <1>3, <1>6 DEF Positions, buffer_lenth
    <3>2. CASE k <= n
      <4>0. PICK at \in Positions : at = start + k - 1
        BY <3>1
      <4>1. start <= at /\ at < start + n /\ at - start + 1 = k
        BY <3>2, <4>0
      <4>2. b2[at] = input[at - start + 1]
        BY <1>5, <4>1
      <4>3. r2[k] = input[k]
        BY <1>7, <2>1, <3>2
      <4> QED
        BY <4>0, <4>1, <4>2, <4>3
    <3>3. CASE k > n
      <4>1. b2[start + k - 1] = b[start + k - 1] /\ r2[k] = r[k - n]
        BY <1>3, <1>5, <1>7, <2>1, <3>1, <3>3
      <4>2. k - n \in 1 .. DataLength /\ start + k - 1 = w + (k - n) - 1
        BY <1>3, <3>3
      <4>3. PICK y \in 1 .. DataLength : y = k - n
        BY <4>2
      <4>4. ~(y <= DataLength - Len(r)) /\ y - (DataLength - Len(r)) = y
        BY <2>1
      <4>5. b[w + y - 1] = r[y]
        BY <1>8, <2>1, <4>4 DEF Holds
      <4> QED
        BY <4>1, <4>2, <4>3, <4>5
    <3> QED
      BY <1>3, <3>2, <3>3
  <2>3. Holds(b2, out', r2)
    BY <2>1, <2>2 DEF Holds
  <2>4. FrontInv' /\ out' \in 0 .. DataLength
    BY <1>2, <1>3, <1>4, <1>6, <1>7, <1>9, <2>1 DEF FrontInv
  <2> QED
    BY <1>2, <1>3, <1>4, <1>5, <1>6, <1>7, <2>1, <2>3, <2>4, WindowElements
    DEF CacheInv, TypeOK, BackInv, WindowIsRecent, Window, buffer_lenth
<1>10. CASE ~flag
  <2>1. out = 0 /\ out' = 0 /\ Len(r) = DataLength - w
    BY <1>2, <1>3, <1>4, <1>10 DEF CacheInv, FrontInv
  <2>2. n + Len(r) = DataLength - start /\ Len(r2) = DataLength - start
    BY <1>3, <1>6, <1>7, <2>1
  <2>3. ASSUME NEW k \in 1 .. DataLength
        PROVE  b2[k - 1] = IF k <= start THEN Zero ELSE r2[k - start]
    <3>1. k - 1 \in Positions
      BY DEF Positions, buffer_lenth
    <3>2. DataLength - Len(r) = w
      BY <1>3, <2>1
    <3>3. b[k - 1] = IF k <= w THEN Zero ELSE r[k - w]
      BY <1>8, <2>1, <3>2 DEF Holds
    <3>4. CASE k <= start
      <4>1. b2[k - 1] = b[k - 1] /\ k <= w
        BY <1>3, <1>5, <3>1, <3>4
      <4> QED
        BY <3>3, <3>4, <4>1
    <3>5. CASE start < k /\ k <= w
      <4>0. PICK at \in Positions : at = k - 1
        BY <3>1
      <4>5. start <= at /\ at < start + n /\ at - start + 1 = k - start
        BY <1>3, <3>5, <4>0
      <4>6. b2[at] = input[at - start + 1]
        BY <1>5, <4>5
      <4>1. b2[k - 1] = input[k - start]
        BY <4>0, <4>5, <4>6
      <4>2. k - start \in 1 .. Len(r2) /\ k - start <= n
        BY <1>3, <2>2, <3>5
      <4>3. r2[k - start] = input[k - start]
        BY <1>7, <4>2
      <4> QED
        BY <3>5, <4>1, <4>3
    <3>6. CASE w < k
      <4>1. b2[k - 1] = b[k - 1]
        BY <1>3, <1>5, <3>1, <3>6
      <4>2. k - start \in 1 .. Len(r2) /\ k - start > n /\ k - start - n = k - w
        BY <1>3, <2>2, <3>6
      <4>3. r2[k - start] = r[k - w]
        BY <1>7, <4>2
      <4>4. ~(k <= start) /\ ~(k <= w)
        BY <1>3, <3>6
      <4> QED
        BY <3>3, <4>1, <4>3, <4>4
    <3> QED
      BY <1>3, <3>4, <3>5, <3>6
  <2>4. DataLength - Len(r2) = start
    BY <1>3, <2>2
  <2>5. Holds(b2, out', r2)
    BY <2>1, <2>3, <2>4 DEF Holds
  <2>6. FrontInv' /\ out' \in 0 .. DataLength
    BY <1>2, <1>3, <1>4, <1>6, <1>7, <1>10, <2>1, <2>2 DEF FrontInv
  <2> QED
    BY <1>2, <1>3, <1>4, <1>5, <1>6, <1>7, <2>1, <2>5, <2>6, WindowElements
    DEF CacheInv, TypeOK, BackInv, WindowIsRecent, Window, buffer_lenth
<1> QED
  BY <1>9, <1>10

LEMMA FrontWrapsInv ==
  ASSUME CacheInv, NEW input \in Chunks, InsertFront(input), FrontWraps(input)
  PROVE  CacheInv'
<1>1. input \in Seq(Value) /\ Len(input) \in 0 .. DataLength
  BY ChunkIsSeq
<1>2. TypeOK /\ front /\ front' = front /\ flag' = TRUE
  BY DEF CacheInv, InsertFront, FrontWraps
<1>3. PICK n \in Nat, m \in Nat, w \in Nat, b \in [Positions -> Value], r \in Seq(Value) :
        /\ n = Len(input) /\ w = writer_index /\ b = buffer /\ r = recent
        /\ w < n /\ n <= DataLength /\ m = DataLength - n /\ DataLength = n + m
  BY <1>1, <1>2 DEF TypeOK, FrontWraps, buffer_lenth
<1>4. Len(r) \in Nat /\ Len(r) <= DataLength
  BY <1>2, <1>3 DEF TypeOK
<1>5. PICK placed \in [Positions -> Value] :
        /\ placed = Memcpy(b, DataLength, input)
        /\ \A k \in Positions :
             placed[k] = IF DataLength <= k /\ k < DataLength + n
                           THEN input[k - DataLength + 1] ELSE b[k]
  <2>1. /\ Memcpy(b, DataLength, input) \in [Positions -> Value]
        /\ \A k \in Positions : Memcpy(b, DataLength, input)[k]
             = IF DataLength <= k /\ k < DataLength + Len(input)
                 THEN input[k - DataLength + 1] ELSE b[k]
    BY <1>1, MemcpyBuffer
  <2> QED
    BY <1>3, <2>1
<1>6. PICK part \in Seq(Value) :
        /\ part = Slice(placed, w, m) /\ Len(part) = m
        /\ \A k \in 1 .. m : part[k] = placed[w + k - 1]
  <2>1. w + m <= buffer_lenth
    BY <1>3 DEF buffer_lenth
  <2>2. /\ Slice(placed, w, m) \in Seq(Value) /\ Len(Slice(placed, w, m)) = m
        /\ \A k \in 1 .. m : Slice(placed, w, m)[k] = placed[w + k - 1]
    BY <2>1, SliceSeq
  <2> QED
    BY <2>2
<1>7. /\ buffer' = Memcpy(placed, DataLength + n, part)
      /\ writer_index' = DataLength /\ out' = DataLength
      /\ recent' = KeepFront(input \o r)
  BY <1>3, <1>5, <1>6 DEF InsertFront, FrontWraps, buffer_lenth
<1>8. PICK b2 \in [Positions -> Value] :
        /\ b2 = buffer'
        /\ \A k \in Positions :
             b2[k] = IF DataLength + n <= k /\ k < 2 * DataLength
                       THEN part[k - (DataLength + n) + 1] ELSE placed[k]
  <2>1. /\ Memcpy(placed, DataLength + n, part) \in [Positions -> Value]
        /\ \A k \in Positions : Memcpy(placed, DataLength + n, part)[k]
             = IF DataLength + n <= k /\ k < DataLength + n + Len(part)
                 THEN part[k - (DataLength + n) + 1] ELSE placed[k]
    <3>1. DataLength + n \in Nat
      BY <1>3
    <3> QED
      BY <3>1, MemcpyBuffer
  <2>2. Len(part) = m
    BY <1>6
  <2>3. DataLength + n + Len(part) = 2 * DataLength
    BY ONLY <2>2, <1>3, LengthNat
  <2> QED
    BY <1>7, <2>1, <2>3
<1>9. PICK r2 \in Seq(Value) :
        /\ r2 = recent'
        /\ Len(r2) = IF n + Len(r) <= DataLength THEN n + Len(r) ELSE DataLength
        /\ \A k \in 1 .. Len(r2) : r2[k] = IF k <= n THEN input[k] ELSE r[k - n]
  <2> DEFINE kept == KeepFront(input \o r)
  <2>1. /\ kept \in Seq(Value)
        /\ Len(kept) = IF Len(input) + Len(r) <= DataLength
                         THEN Len(input) + Len(r) ELSE DataLength
        /\ \A k \in 1 .. Len(kept) :
             kept[k] = IF k <= Len(input) THEN input[k] ELSE r[k - Len(input)]
    BY <1>1, <1>3, <1>4, KeepFrontElements
  <2> HIDE DEF kept
  <2>2. kept = recent' /\ n = Len(input)
    BY <1>3, <1>7 DEF kept
  <2> QED
    BY <2>1, <2>2
<1>10. Holds(b, out, r)
  BY <1>3, WindowElements DEF CacheInv, WindowIsRecent, Window
(* What the second memcpy reads is the newest part of the old window. *)
<1>11. ASSUME NEW k \in 1 .. m PROVE b[w + k - 1] = r[k]
  <2>1. CASE flag
    <3>1. out = w /\ Len(r) = DataLength
      BY <1>2, <1>3, <2>1 DEF CacheInv, FrontInv
    <3>2. k \in 1 .. DataLength /\ ~(k <= DataLength - Len(r)) /\ k - (DataLength - Len(r)) = k
      BY <1>3, <3>1
    <3> QED
      BY <1>10, <3>1, <3>2 DEF Holds
  <2>2. CASE ~flag
    <3>1. out = 0 /\ Len(r) = DataLength - w
      BY <1>2, <1>3, <2>2 DEF CacheInv, FrontInv
    <3>2. DataLength - Len(r) = w
      BY <1>3, <3>1
    <3>3. w + k \in 1 .. DataLength /\ ~(w + k <= w) /\ w + k - w = k
      BY <1>3
    <3>4. PICK y \in 1 .. DataLength : y = w + k
      BY <3>3
    <3>5. b[0 + y - 1] = IF y <= w THEN Zero ELSE r[y - w]
      BY <1>10, <3>1, <3>2 DEF Holds
    <3>6. ~(y <= w) /\ y - w = k /\ 0 + y - 1 = w + k - 1
      BY <1>3, <3>4
    <3> QED
      BY <3>5, <3>6
  <2> QED
    BY <2>1, <2>2
<1>12. Len(r2) = DataLength
  <2>1. CASE flag
    <3>1. Len(r) = DataLength
      BY <1>2, <1>3, <2>1 DEF CacheInv, FrontInv
    <3> QED
      BY <1>3, <1>9, <3>1
  <2>2. CASE ~flag
    <3>1. Len(r) = DataLength - w
      BY <1>2, <1>3, <2>2 DEF CacheInv, FrontInv
    <3> QED
      BY <1>3, <1>9, <3>1
  <2> QED
    BY <2>1, <2>2
<1>13. ASSUME NEW k \in 1 .. DataLength PROVE b2[DataLength + k - 1] = r2[k]
  <2>1. DataLength + k - 1 \in Positions
    BY DEF Positions, buffer_lenth
  <2>2. CASE k <= n
    <3>1. b2[DataLength + k - 1] = placed[DataLength + k - 1]
      BY <1>3, <1>8, <2>1, <2>2
    <3>2. placed[DataLength + k - 1] = input[k]
      <4>1. /\ DataLength <= DataLength + k - 1 /\ DataLength + k - 1 < DataLength + n
            /\ DataLength + k - 1 - DataLength + 1 = k
        BY ONLY <1>3, <2>2, LengthNat, k \in 1 .. DataLength
      <4> QED
        BY <1>5, <2>1, <4>1
    <3> QED
      BY <1>9, <1>12, <2>2, <3>1, <3>2
  <2>3. CASE k > n
    <3>1. k - n \in 1 .. m
      BY <1>3, <2>3
    <3>2. b2[DataLength + k - 1] = part[k - n]
      <4>0. PICK at \in Positions : at = DataLength + k - 1
        BY <2>1
      <4>1. /\ DataLength + n <= at /\ at < 2 * DataLength
            /\ at - (DataLength + n) + 1 = k - n
        BY <1>3, <2>3, <4>0
      <4>2. b2[at] = part[at - (DataLength + n) + 1]
        BY <1>8, <4>1
      <4> QED
        BY <4>0, <4>1, <4>2
    <3>3. part[k - n] = placed[w + (k - n) - 1]
      BY <1>6, <3>1
    <3>4. w + (k - n) - 1 \in Positions /\ ~(DataLength <= w + (k - n) - 1)
      BY <1>3, <3>1 DEF Positions, buffer_lenth
    <3>5. placed[w + (k - n) - 1] = b[w + (k - n) - 1]
      BY <1>5, <3>4
    <3> QED
      BY <1>9, <1>11, <1>12, <2>3, <3>1, <3>2, <3>3, <3>5
  <2> QED
    BY <1>3, <2>2, <2>3
<1>14. Holds(b2, out', r2)
  BY <1>7, <1>12, <1>13 DEF Holds
<1>15. WindowIsRecent'
  BY <1>8, <1>9, <1>14, WindowElements DEF WindowIsRecent, Window
<1>16. FrontInv' /\ BackInv'
  BY <1>2, <1>7, <1>9, <1>12 DEF FrontInv, BackInv
<1>17. TypeOK'
  BY <1>2, <1>7, <1>8, <1>9, <1>12 DEF TypeOK, buffer_lenth
<1> QED
  BY <1>15, <1>16, <1>17 DEF CacheInv
-----------------------------------------------------------------------------
(* Inserting at the back shifts the padded history by the chunk. *)
LEMMA BackShift ==
  ASSUME NEW x \in Seq(Value), NEW r \in Seq(Value),
         Len(x) <= DataLength, Len(r) <= DataLength,
         NEW k \in 1 .. DataLength
  PROVE  Padded(KeepBack(r \o x))[k] = IF k <= DataLength - Len(x)
                                         THEN Padded(r)[k + Len(x)]
                                         ELSE x[k - (DataLength - Len(x))]
<1>1. PICK n \in Nat, l \in Nat : n = Len(x) /\ l = Len(r) /\ n <= DataLength /\ l <= DataLength
  OBVIOUS
<1>2. PICK r2 \in Seq(Value), l2 \in Nat, old \in Int :
        /\ r2 = KeepBack(r \o x) /\ l2 = Len(r2) /\ old = l2 - n
        /\ l2 = IF n + l <= DataLength THEN n + l ELSE DataLength
        /\ \A y \in 1 .. l2 : r2[y] = IF y <= old THEN r[y + (l - old)] ELSE x[y - old]
  <2> DEFINE kept == KeepBack(r \o x)
  <2>1. /\ kept \in Seq(Value)
        /\ Len(kept) = IF Len(x) + Len(r) <= DataLength THEN Len(x) + Len(r) ELSE DataLength
        /\ \A y \in 1 .. Len(kept) :
             kept[y] = IF y <= Len(kept) - Len(x)
                         THEN r[y + (Len(r) - (Len(kept) - Len(x)))] ELSE x[y - (Len(kept) - Len(x))]
    BY KeepBackElements
  <2> HIDE DEF kept
  <2>2. Len(kept) \in Nat /\ Len(kept) - n \in Int
    BY <1>1, <2>1
  <2>3. \E l2 \in Nat, old \in Int :
          /\ l2 = Len(kept) /\ old = l2 - n
          /\ l2 = IF n + l <= DataLength THEN n + l ELSE DataLength
          /\ \A y \in 1 .. l2 : kept[y] = IF y <= old THEN r[y + (l - old)] ELSE x[y - old]
    BY <1>1, <2>1, <2>2
  <2> QED
    BY <2>1, <2>3 DEF kept
<1>3. Padded(r2)[k] = IF k <= DataLength - l2 THEN Zero ELSE r2[k - (DataLength - l2)]
  BY <1>2 DEF Padded
<1>4. n <= l2 /\ l2 <= DataLength /\ l2 - l <= n /\ old \in Nat
  BY <1>1, <1>2
<1>5. CASE k <= DataLength - n
  <2>1. PICK kn \in 1 .. DataLength : kn = k + n
    BY <1>1, <1>5
  <2>2. Padded(r)[kn] = IF kn <= DataLength - l THEN Zero ELSE r[kn - (DataLength - l)]
    BY <1>1 DEF Padded
  <2>3. CASE k <= DataLength - l2
    <3>1. kn <= DataLength - l
      <4>1. CASE n + l <= DataLength
        BY <1>1, <1>2, <2>1, <2>3, <4>1
      <4>2. CASE ~(n + l <= DataLength)
        BY <1>1, <1>2, <2>3, <4>2
      <4> QED
        BY <4>1, <4>2
    <3> QED
      BY <1>1, <1>2, <1>3, <1>5, <2>1, <2>2, <2>3, <3>1
  <2>4. CASE ~(k <= DataLength - l2)
    <3>1. k - (DataLength - l2) \in 1 .. l2
      BY ONLY <1>4, <2>4, LengthNat, k \in 1 .. DataLength, l2 \in Nat
    <3>2. PICK y \in 1 .. l2 : y = k - (DataLength - l2)
      BY <3>1
    <3>3. /\ y <= old /\ y + (l - old) = kn - (DataLength - l)
          /\ ~(kn <= DataLength - l)
      <4>1. old = l2 - n
        BY <1>2
      <4>2. /\ y <= old /\ y + (l - old) = kn - (DataLength - l)
        BY ONLY <1>5, <2>1, <3>2, <4>1, LengthNat, k \in 1 .. DataLength, l2 \in Nat,
                n \in Nat, l \in Nat
      <4>3. ~(kn <= DataLength - l)
        BY ONLY <1>4, <2>1, <2>4, LengthNat, k \in 1 .. DataLength, l2 \in Nat,
                n \in Nat, l \in Nat
      <4> QED
        BY <4>2, <4>3
    <3>4. r2[y] = r[y + (l - old)]
      BY <1>2, <3>3
    <3> QED
      BY <1>1, <1>2, <1>3, <1>5, <2>1, <2>2, <2>4, <3>2, <3>3, <3>4
  <2> QED
    BY <2>3, <2>4
<1>6. CASE ~(k <= DataLength - n)
  <2>1. ~(k <= DataLength - l2) /\ k - (DataLength - l2) \in 1 .. l2
    BY ONLY <1>4, <1>6, LengthNat, k \in 1 .. DataLength, l2 \in Nat, n \in Nat
  <2>2. PICK y \in 1 .. l2 : y = k - (DataLength - l2)
    BY <2>1
  <2>3. ~(y <= old) /\ y - old = k - (DataLength - n)
    <3>1. old = l2 - n
      BY <1>2
    <3> QED
      BY ONLY <3>1, <1>6, <2>2, LengthNat, k \in 1 .. DataLength, l2 \in Nat, n \in Nat
  <2>4. r2[y] = x[y - old]
    BY <1>2, <2>3
  <2> QED
    BY <1>1, <1>2, <1>3, <1>6, <2>1, <2>2, <2>3, <2>4
<1> QED
  BY <1>5, <1>6

LEMMA BackSlidesInv ==
  ASSUME CacheInv, NEW input \in Chunks \cup {<<>>}, InsertBack(input), BackSlides(input)
  PROVE  CacheInv'
<1>1. input \in Seq(Value) /\ Len(input) \in 0 .. DataLength
  BY ChunkIsSeq
<1>2. TypeOK /\ ~front /\ front' = front /\ flag' = flag
  BY DEF CacheInv, InsertBack
<1>3. PICK n \in Nat, w \in Nat, b \in [Positions -> Value], r \in Seq(Value) :
        /\ n = Len(input) /\ w = writer_index /\ b = buffer /\ r = recent
        /\ w + n <= 2 * DataLength /\ n <= DataLength
  BY <1>1, <1>2 DEF TypeOK, BackSlides, buffer_lenth
<1>4. Len(r) \in Nat /\ Len(r) <= DataLength
  BY <1>2, <1>3 DEF TypeOK
<1>5. PICK o \in Nat : o = w - DataLength /\ w = DataLength + o /\ out = o /\ o + n <= DataLength
  BY <1>2, <1>3 DEF CacheInv, BackInv
<1>6. /\ buffer' = Memcpy(b, w, input) /\ writer_index' = w + n
      /\ out' = o + n /\ recent' = KeepBack(r \o input)
  BY <1>3, <1>5 DEF BackSlides, InsertBack
<1>7. PICK b2 \in [Positions -> Value] :
        /\ b2 = buffer'
        /\ \A k \in Positions :
             b2[k] = IF w <= k /\ k < w + n THEN input[k - w + 1] ELSE b[k]
  <2>1. /\ Memcpy(b, w, input) \in [Positions -> Value]
        /\ \A k \in Positions : Memcpy(b, w, input)[k]
             = IF w <= k /\ k < w + Len(input) THEN input[k - w + 1] ELSE b[k]
    BY <1>1, MemcpyBuffer
  <2> QED
    BY <1>3, <1>6, <2>1
<1>8. Slice(b, o, DataLength) = Padded(r)
  BY <1>3, <1>5 DEF CacheInv, WindowIsRecent, Window
<1>9. ASSUME NEW k \in 1 .. DataLength
      PROVE  b2[o + n + k - 1] = Padded(KeepBack(r \o input))[k]
  <2>1. PICK at \in Positions : at = o + n + k - 1
    BY <1>5 DEF Positions, buffer_lenth
  <2>2. CASE k <= DataLength - n
    <3>1. PICK y \in 1 .. DataLength : y = k + n
      BY <1>3, <2>2
    <3>2. Padded(KeepBack(r \o input))[k] = Padded(r)[y]
      BY <1>1, <1>3, <1>4, <2>2, <3>1, BackShift
    <3>3. Padded(r)[y] = b[o + y - 1]
      BY <1>8 DEF Slice
    <3>4. ~(w <= at) /\ o + y - 1 = at
      BY <1>5, <2>1, <2>2, <3>1
    <3> QED
      BY <1>7, <2>1, <3>2, <3>3, <3>4
  <2>3. CASE ~(k <= DataLength - n)
    <3>1. Padded(KeepBack(r \o input))[k] = input[k - (DataLength - n)]
      BY <1>1, <1>3, <1>4, <2>3, BackShift
    <3>2. w <= at /\ at < w + n /\ at - w + 1 = k - (DataLength - n)
      BY <1>3, <1>5, <2>1, <2>3
    <3>3. b2[at] = input[at - w + 1]
      BY <1>7, <3>2
    <3> QED
      BY <2>1, <3>1, <3>2, <3>3
  <2> QED
    BY <2>2, <2>3
<1>10. KeepBack(r \o input) \in Seq(Value) /\ Len(KeepBack(r \o input)) <= DataLength
  <2>1. /\ KeepBack(r \o input) \in Seq(Value)
        /\ Len(KeepBack(r \o input)) = IF Len(input) + Len(r) <= DataLength
                                          THEN Len(input) + Len(r) ELSE DataLength
    BY <1>1, <1>4, KeepBackElements
  <2> QED
    BY <1>1, <1>4, <2>1
<1>11. WindowIsRecent'
  BY <1>6, <1>7, <1>9, WindowPointwise
<1>12. FrontInv' /\ BackInv'
  BY <1>2, <1>5, <1>6 DEF FrontInv, BackInv
<1>13. TypeOK'
  BY <1>2, <1>3, <1>5, <1>6, <1>7, <1>10 DEF TypeOK, buffer_lenth
<1> QED
  BY <1>11, <1>12, <1>13 DEF CacheInv

LEMMA BackWrapsInv ==
  ASSUME CacheInv, NEW input \in Chunks \cup {<<>>}, InsertBack(input), BackWraps(input)
  PROVE  CacheInv'
<1>1. input \in Seq(Value) /\ Len(input) \in 0 .. DataLength
  BY ChunkIsSeq
<1>2. TypeOK /\ ~front /\ front' = front /\ flag' = flag
  BY DEF CacheInv, InsertBack
<1>3. PICK n \in Nat, m \in Nat, w \in Nat, b \in [Positions -> Value], r \in Seq(Value) :
        /\ n = Len(input) /\ w = writer_index /\ b = buffer /\ r = recent
        /\ w + n > 2 * DataLength /\ w <= 2 * DataLength /\ n <= DataLength
        /\ m = DataLength - n /\ DataLength = n + m
  BY <1>1, <1>2 DEF TypeOK, BackWraps, buffer_lenth
<1>4. Len(r) \in Nat /\ Len(r) <= DataLength
  BY <1>2, <1>3 DEF TypeOK
<1>5. PICK o \in Nat : o = w - DataLength /\ w = DataLength + o /\ out = o
  BY <1>2, <1>3 DEF CacheInv, BackInv
<1>6. PICK part \in Seq(Value) :
        /\ part = Slice(b, o + n, m) /\ Len(part) = m
        /\ \A k \in 1 .. m : part[k] = b[o + n + k - 1]
  <2>1. o + n \in Nat /\ o + n + m <= buffer_lenth
    BY <1>3, <1>5 DEF buffer_lenth
  <2>2. /\ Slice(b, o + n, m) \in Seq(Value) /\ Len(Slice(b, o + n, m)) = m
        /\ \A k \in 1 .. m : Slice(b, o + n, m)[k] = b[o + n + k - 1]
    BY <2>1, SliceSeq
  <2> QED
    BY <2>2
<1>7. PICK moved \in [Positions -> Value] :
        /\ moved = Memcpy(b, 0, part)
        /\ \A k \in Positions : moved[k] = IF 0 <= k /\ k < m THEN part[k - 0 + 1] ELSE b[k]
  <2>1. /\ Memcpy(b, 0, part) \in [Positions -> Value]
        /\ \A k \in Positions : Memcpy(b, 0, part)[k]
             = IF 0 <= k /\ k < 0 + Len(part) THEN part[k - 0 + 1] ELSE b[k]
    BY MemcpyBuffer
  <2>2. 0 + Len(part) = m
    BY <1>6
  <2> QED
    BY <2>1, <2>2
<1>8. /\ buffer' = Memcpy(moved, m, input) /\ writer_index' = DataLength
      /\ out' = 0 /\ recent' = KeepBack(r \o input)
  <2>1. writer_index + Len(input) - DataLength = o + n /\ DataLength - Len(input) = m
    BY <1>3, <1>5
  <2> QED
    BY <1>3, <1>6, <1>7, <2>1 DEF BackWraps, InsertBack
<1>9. PICK b2 \in [Positions -> Value] :
        /\ b2 = buffer'
        /\ \A k \in Positions :
             b2[k] = IF m <= k /\ k < m + n THEN input[k - m + 1] ELSE moved[k]
  <2>1. /\ Memcpy(moved, m, input) \in [Positions -> Value]
        /\ \A k \in Positions : Memcpy(moved, m, input)[k]
             = IF m <= k /\ k < m + Len(input) THEN input[k - m + 1] ELSE moved[k]
    BY <1>1, MemcpyBuffer
  <2> QED
    BY <1>3, <1>8, <2>1
<1>10. Slice(b, o, DataLength) = Padded(r)
  BY <1>3, <1>5 DEF CacheInv, WindowIsRecent, Window
<1>11. ASSUME NEW k \in 1 .. DataLength
       PROVE  b2[0 + k - 1] = Padded(KeepBack(r \o input))[k]
  <2>1. PICK at \in Positions : at = k - 1
    BY DEF Positions, buffer_lenth
  <2>2. CASE k <= DataLength - n
    <3>1. PICK y \in 1 .. DataLength : y = k + n
      BY <1>3, <2>2
    <3>2. Padded(KeepBack(r \o input))[k] = Padded(r)[y]
      BY <1>1, <1>3, <1>4, <2>2, <3>1, BackShift
    <3>3. Padded(r)[y] = b[o + y - 1]
      BY <1>10 DEF Slice
    <3>4. PICK z \in 1 .. m : z = k
      BY <1>3, <2>2
    <3>5. part[z] = b[o + n + z - 1]
      BY <1>6
    <3>6. 0 <= at /\ at < m /\ ~(m <= at) /\ at - 0 + 1 = z /\ o + n + z - 1 = o + y - 1
      BY <1>3, <2>1, <2>2, <3>1, <3>4
    <3>7. b2[at] = moved[at]
      BY <1>9, <3>6
    <3>8. moved[at] = part[at - 0 + 1]
      BY <1>7, <3>6
    <3>9. b2[at] = part[z]
      BY ONLY <3>6, <3>7, <3>8
    <3>10. part[z] = b[o + y - 1]
      BY ONLY <3>5, <3>6
    <3>11. 0 + k - 1 = at
      BY <2>1
    <3> QED
      BY ONLY <3>2, <3>3, <3>9, <3>10, <3>11
  <2>3. CASE ~(k <= DataLength - n)
    <3>1. Padded(KeepBack(r \o input))[k] = input[k - (DataLength - n)]
      BY <1>1, <1>3, <1>4, <2>3, BackShift
    <3>2. m <= at /\ at < m + n /\ at - m + 1 = k - (DataLength - n)
      BY <1>3, <2>1, <2>3
    <3>3. b2[at] = input[at - m + 1]
      BY <1>9, <3>2
    <3> QED
      BY <2>1, <3>1, <3>2, <3>3
  <2> QED
    BY <2>2, <2>3
<1>12. KeepBack(r \o input) \in Seq(Value) /\ Len(KeepBack(r \o input)) <= DataLength
  <2>1. /\ KeepBack(r \o input) \in Seq(Value)
        /\ Len(KeepBack(r \o input)) = IF Len(input) + Len(r) <= DataLength
                                          THEN Len(input) + Len(r) ELSE DataLength
    BY <1>1, <1>4, KeepBackElements
  <2> QED
    BY <1>1, <1>4, <2>1
<1>13. WindowIsRecent'
  BY <1>8, <1>9, <1>11, WindowPointwise
<1>14. FrontInv' /\ BackInv'
  BY <1>2, <1>8 DEF FrontInv, BackInv
<1>15. TypeOK'
  BY <1>2, <1>8, <1>9, <1>12 DEF TypeOK, buffer_lenth
<1> QED
  BY <1>13, <1>14, <1>15 DEF CacheInv

LEMMA CacheNextInv == CacheInv /\ [Next]_vars => CacheInv'
<1> SUFFICES ASSUME CacheInv, [Next]_vars PROVE CacheInv'
  OBVIOUS
<1>1. ASSUME NEW input \in Chunks, InsertFront(input) PROVE CacheInv'
  <2>1. CASE FrontSlides(input)
    BY <1>1, <2>1, FrontSlidesInv
  <2>2. CASE FrontWraps(input)
    BY <1>1, <2>2, FrontWrapsInv
  <2> QED
    BY <1>1, <2>1, <2>2 DEF InsertFront
<1>2. ASSUME NEW input \in Chunks \cup {<<>>}, InsertBack(input) PROVE CacheInv'
  <2>1. CASE BackSlides(input)
    BY <1>2, <2>1, BackSlidesInv
  <2>2. CASE BackWraps(input)
    BY <1>2, <2>2, BackWrapsInv
  <2> QED
    BY <1>2, <2>1, <2>2 DEF InsertBack
<1>3. CASE UNCHANGED vars
  BY <1>3 DEF vars, CacheInv, TypeOK, FrontInv, BackInv, WindowIsRecent, Window
<1> QED
  BY <1>1, <1>2, <1>3 DEF Next, GetBuffer

LEMMA SafeFromInv == CacheInv => AccessesSafe
BY DEF CacheInv, TypeOK, FrontInv, BackInv, AccessesSafe, buffer_lenth
-----------------------------------------------------------------------------
(* Every reachable state has its types and the writer where FrontInv and     *)
(* BackInv say.                                                              *)
THEOREM CacheInvariance == Spec => []CacheInv
<1>1. Init => CacheInv
  BY CacheInitInv
<1>2. CacheInv /\ [Next]_vars => CacheInv'
  BY CacheNextInv
<1> QED
  BY <1>1, <1>2, PTL DEF Spec

(* csinn_asr_buffer_t keeps its types: the writer never leaves the buffer and *)
(* the pointer asr_buffer_insert_front and _back return leaves room for a     *)
(* whole window.                                                              *)
THEOREM TypeCorrect == Spec => []TypeOK
<1>1. CacheInv => TypeOK
  BY DEF CacheInv
<1> QED
  BY <1>1, CacheInvariance, PTL

(* However the stream is cut into chunks, the window asr_buffer_insert_front, *)
(* asr_buffer_insert_back and asr_buffer_get_buffer return holds the last     *)
(* data_lenth elements inserted, padded with the zeros of the allocation.     *)
THEOREM WindowCorrect == Spec => []WindowIsRecent
<1>1. CacheInv => WindowIsRecent
  BY DEF CacheInv
<1> QED
  BY <1>1, CacheInvariance, PTL

(* No memcpy of asr_buffer_insert_front and asr_buffer_insert_back leaves the *)
(* buffer or overlaps its own source, for any chunk not longer than a window. *)
THEOREM AccessesInBounds == Spec => []AccessesSafe
<1>1. CacheInv => AccessesSafe
  BY SafeFromInv
<1> QED
  BY <1>1, CacheInvariance, PTL
-----------------------------------------------------------------------------
(* The blocks that rows, columns and channels are taken by *)

(* The widest block that fits is not empty and fits. *)
LEMMA WidestFits ==
  ASSUME NEW widths, widths \subseteq Nat \ {0}, NEW left \in Nat \ {0}
  PROVE  Widest(widths, left) \in 1 .. left
<1>1. CASE \E w \in widths : w <= left
  <2> DEFINE S == {w \in widths : w <= left}
  <2>1. S \in SUBSET (0 .. left) /\ S # {}
    <3>1. \A w \in S : w \in Nat /\ w <= left
      OBVIOUS
    <3>2. \A w \in S : w \in 0 .. left
      BY <3>1
    <3>3. S # {}
      BY <1>1
    <3> QED BY <3>2, <3>3
  <2>2. PICK w \in S : \A v \in S : v <= w
    <3> HIDE DEF S
    <3> QED BY <2>1, Greatest
  <2>3. w \in widths /\ w <= left /\ \A v \in widths : v <= left => v <= w
    BY <2>2
  <2>4. Widest(widths, left) = CHOOSE v \in widths : v <= left /\ \A u \in widths : u <= left => u <= v
    BY <1>1, Zenon DEF Widest
  <2> DEFINE Fits(v) == v <= left /\ \A u \in widths : u <= left => u <= v
  <2>5. Fits(CHOOSE v \in widths : Fits(v)) /\ (CHOOSE v \in widths : Fits(v)) \in widths
    <3>1. \E v \in widths : Fits(v)
      BY <2>3
    <3> HIDE DEF Fits
    <3> QED BY <3>1
  <2>6. Widest(widths, left) \in widths /\ Widest(widths, left) <= left
    BY <2>4, <2>5, Zenon
  <2>7. \A v \in widths : v \in Nat /\ v >= 1
    OBVIOUS
  <2> DEFINE chosen == Widest(widths, left)
  <2> HIDE DEF chosen
  <2>8. chosen \in Nat /\ chosen >= 1 /\ chosen <= left
    BY <2>6, <2>7, Zenon DEF chosen
  <2>9. chosen \in 1 .. left
    BY <2>8
  <2> QED BY <2>9 DEF chosen
<1>2. CASE ~ \E w \in widths : w <= left
  <2>1. Widest(widths, left) = left
    BY <1>2 DEF Widest
  <2> QED BY <2>1
<1> QED BY <1>1, <1>2

(* The blocks of one width: they start at its multiples, and the last one *)
(* takes what is left.                                                    *)
Width(pack, left) == Widest({pack}, left)
BlockFrom(pack, n, a) == [start |-> a, width |-> Width(pack, n - a)]
BlocksOf(pack, n, from) ==
  {BlockFrom(pack, n, a) : a \in {c \in 0 .. n - 1 : \E q \in Nat : c = from + q * pack}}

LEMMA OneWidth ==
  ASSUME NEW pack \in Nat \ {0}, NEW left \in Nat \ {0}
  PROVE  Width(pack, left) = IF pack <= left THEN pack ELSE left
<1>1. CASE pack <= left
  <2>1. \A w \in {pack} : w <= left /\ \A v \in {pack} : v <= left => v <= w
    BY <1>1
  <2> QED BY <1>1, <2>1 DEF Widest, Width
<1>2. CASE ~(pack <= left)
  BY <1>2 DEF Widest, Width
<1> QED BY <1>1, <1>2

LEMMA BlocksStep ==
  ASSUME NEW pack \in Nat \ {0}, NEW n \in Nat, NEW a \in 0 .. n - 1
  PROVE  /\ a + Width(pack, n - a) \in a + 1 .. n
         /\ BlocksOf(pack, n, a) = {BlockFrom(pack, n, a)} \cup BlocksOf(pack, n, a + Width(pack, n - a))
<1> DEFINE w == Width(pack, n - a)
           C(x) == {c \in 0 .. n - 1 : \E q \in Nat : c = x + q * pack}
<1>1. n - a \in Nat \ {0} /\ w = IF pack <= n - a THEN pack ELSE n - a
  BY OneWidth
<1>2. a + w \in a + 1 .. n /\ w \in Nat
  BY <1>1
<1>3. C(a) = {a} \cup C(a + w)
  <2>1. a \in C(a)
    <3>1. a = a + 0 * pack /\ a \in 0 .. n - 1
      OBVIOUS
    <3> QED BY <3>1
  <2>2. CASE pack <= n - a
    <3>1. w = pack
      BY <1>1, <2>2
    <3>2. ASSUME NEW c \in C(a + w) PROVE c \in C(a)
      <4>1. PICK q \in Nat : c = a + w + q * pack
        OBVIOUS
      <4>2. c = a + (q + 1) * pack /\ q + 1 \in Nat
        BY <3>1, <4>1
      <4> QED BY <4>2
    <3>3. ASSUME NEW c \in C(a), c # a PROVE c \in C(a + w)
      <4>1. PICK q \in Nat : c = a + q * pack
        OBVIOUS
      <4>2. q # 0
        BY <3>3, <4>1
      <4>3. q - 1 \in Nat /\ c = a + w + (q - 1) * pack
        BY <3>1, <4>1, <4>2
      <4> QED BY <4>3
    <3> QED BY <2>1, <3>2, <3>3
  <2>3. CASE ~(pack <= n - a)
    <3>1. a + w = n
      BY <1>1, <2>3
    <3>2. ASSUME NEW c \in C(a) PROVE c = a
      <4>1. PICK q \in Nat : c = a + q * pack
        OBVIOUS
      <4>2. c < n /\ c \in Nat
        OBVIOUS
      <4>3. q = 0
        <5>1. SUFFICES ASSUME q >= 1 PROVE FALSE
          OBVIOUS
        <5>2. q * pack >= pack
          BY <5>1
        <5> QED BY <2>3, <4>1, <4>2, <5>2
      <4> QED BY <4>1, <4>3
    <3>3. ASSUME NEW c \in C(a + w) PROVE FALSE
      <4>1. PICK q \in Nat : c = a + w + q * pack
        OBVIOUS
      <4>2. c < n /\ c \in Nat /\ q * pack >= 0
        OBVIOUS
      <4> QED BY <3>1, <4>1, <4>2
    <3> QED BY <2>1, <3>2, <3>3
  <2> QED BY <2>2, <2>3
<1>4. BlocksOf(pack, n, a) = {BlockFrom(pack, n, a)} \cup BlocksOf(pack, n, a + w)
  <2>1. \A x \in 0 .. n : BlocksOf(pack, n, x) = {BlockFrom(pack, n, c) : c \in C(x)}
    BY DEF BlocksOf
  <2> HIDE DEF C, w
  <2> QED BY <1>2, <1>3, <2>1
<1> QED BY <1>2, <1>4

LEMMA BlocksAre ==
  ASSUME NEW pack \in Nat \ {0}, NEW n \in Nat
  PROVE  Blocks({pack}, n) = BlocksOf(pack, n, 0)
<1> DEFINE Body(f, a) == IF a = n THEN {}
                         ELSE {BlockFrom(pack, n, a)} \cup f[a + Width(pack, n - a)]
           h == [a \in 0 .. n |-> BlocksOf(pack, n, a)]
           it == CHOOSE f : f = [a \in 0 .. n |-> Body(f, a)]
<1>1. Blocks({pack}, n) = it[0]
  BY Zenon DEF Blocks, BlockFrom, Width
<1>2. ASSUME NEW a \in 0 .. n PROVE h[a] = Body(h, a)
  <2>1. CASE a = n
    <3>1. ASSUME NEW c \in 0 .. n - 1, NEW q \in Nat, c = n + q * pack PROVE FALSE
      <4>1. q * pack >= 0
        OBVIOUS
      <4> QED BY <3>1, <4>1
    <3> QED BY <2>1, <3>1 DEF BlocksOf
  <2>2. CASE a # n
    <3>1. a \in 0 .. n - 1
      BY <2>2
    <3> DEFINE w == Width(pack, n - a)
    <3>2. a + w \in a + 1 .. n /\ BlocksOf(pack, n, a) = {BlockFrom(pack, n, a)} \cup BlocksOf(pack, n, a + w)
      BY <3>1, BlocksStep
    <3>3. a + w \in 0 .. n
      <4> HIDE DEF w
      <4> QED BY <3>2
    <3> QED BY <2>2, <3>2, <3>3, Zenon
  <2> QED BY <2>1, <2>2
<1>3. h = [a \in 0 .. n |-> Body(h, a)]
  <2> HIDE DEF Body
  <2> QED BY <1>2
<1>4. it = [a \in 0 .. n |-> Body(it, a)]
  <2> HIDE DEF h, Body
  <2> QED BY <1>3
<1>5. \A a \in 0 .. n : it[a] = Body(it, a)
  <2> HIDE DEF it, Body
  <2> QED BY <1>4
<1> HIDE DEF it
<1> DEFINE T == {d \in 0 .. n : \A a \in n - d .. n : it[a] = BlocksOf(pack, n, a)}
<1>6. 0 \in T
  <2>1. it[n] = {} /\ BlocksOf(pack, n, n) = {}
    <3>1. n \in 0 .. n
      OBVIOUS
    <3>2. it[n] = {} /\ h[n] = {}
      BY <1>2, <1>5, <3>1, Zenon
    <3> QED BY <3>1, <3>2
  <2>2. ASSUME NEW a \in n - 0 .. n PROVE it[a] = BlocksOf(pack, n, a)
    <3>1. a = n
      OBVIOUS
    <3> QED BY <2>1, <3>1, Zenon
  <2> QED BY <2>2
<1>7. ASSUME NEW d \in 0 .. n - 1, d \in T PROVE d + 1 \in T
  <2>1. ASSUME NEW a \in n - (d + 1) .. n PROVE it[a] = BlocksOf(pack, n, a)
    <3>1. CASE a \in n - d .. n
      BY <1>7, <3>1
    <3>2. CASE a \notin n - d .. n
      <4> DEFINE w == Width(pack, n - a)
      <4>1. a \in 0 .. n - 1 /\ a \in 0 .. n /\ a # n /\ a + 1 = n - d
        BY <3>2
      <4>2. a + w \in a + 1 .. n /\ BlocksOf(pack, n, a) = {BlockFrom(pack, n, a)} \cup BlocksOf(pack, n, a + w)
        <5>1. a \in 0 .. n - 1
          BY <4>1
        <5> QED BY <5>1, BlocksStep
      <4>3. it[a] = {BlockFrom(pack, n, a)} \cup it[a + w]
        BY <1>5, <4>1
      <4>4. it[a + w] = BlocksOf(pack, n, a + w)
        <5>1. a + w \in n - d .. n
          BY <4>1, <4>2
        <5> QED BY <1>7, <5>1
      <4> QED BY <4>2, <4>3, <4>4
    <3> QED BY <3>1, <3>2
  <2> QED BY <2>1
<1>8. n \in T
  <2> HIDE DEF T
  <2> QED BY <1>6, <1>7, Counting
<1> QED BY <1>1, <1>8

-----------------------------------------------------------------------------
(* Where the channels of a layout are *)

Start(pack, n, ch) == BlockOf(Blocks({pack}, n), ch).start

LEMMA BlockFacts ==
  ASSUME NEW pack \in Nat \ {0}, NEW n \in Nat, NEW ch \in 0 .. n - 1
  PROVE  /\ \E q \in Nat : Start(pack, n, ch) = q * pack
         /\ Start(pack, n, ch) \in 0 .. ch
         /\ BlockOf(Blocks({pack}, n), ch).width = Width(pack, n - Start(pack, n, ch))
         /\ ch < Start(pack, n, ch) + Width(pack, n - Start(pack, n, ch))
<1> DEFINE S == {c \in 0 .. ch : \E q \in Nat : c = q * pack}
           T == {c \in 0 .. n - 1 : \E q \in Nat : c = 0 + q * pack}
           Covered(b) == ch \in b.start .. b.start + b.width - 1
<1>1. PICK c \in S : \A x \in S : x <= c
  <2>1. 0 \in S
    <3>1. 0 = 0 * pack /\ 0 \in 0 .. ch
      OBVIOUS
    <3> QED BY <3>1
  <2>2. ch \in Nat /\ S \in SUBSET (0 .. ch)
    OBVIOUS
  <2> HIDE DEF S
  <2> QED BY <2>1, <2>2, Greatest
<1>2. c + pack > ch
  <2>1. SUFFICES ASSUME c + pack <= ch PROVE FALSE
    OBVIOUS
  <2>2. PICK q \in Nat : c = q * pack
    OBVIOUS
  <2>3. c + pack = (q + 1) * pack /\ q + 1 \in Nat /\ c + pack \in 0 .. ch
    BY <2>1, <2>2
  <2>4. c + pack \in S
    BY <2>3
  <2>5. c + pack <= c
    BY <1>1, <2>4
  <2> QED BY <2>5
<1>3. c \in T
  <2>1. PICK q \in Nat : c = q * pack
    OBVIOUS
  <2>2. c = 0 + q * pack /\ c \in 0 .. n - 1
    BY <2>1
  <2> QED BY <2>2
<1>4. Blocks({pack}, n) = {BlockFrom(pack, n, a) : a \in T}
  BY BlocksAre DEF BlocksOf
<1>5. Covered(BlockFrom(pack, n, c))
  <2>1. n - c \in Nat \ {0}
    OBVIOUS
  <2>2. Width(pack, n - c) = IF pack <= n - c THEN pack ELSE n - c
    BY <2>1, OneWidth
  <2>3. ch \in c .. c + Width(pack, n - c) - 1
    BY <1>2, <2>2
  <2> QED BY <2>3 DEF BlockFrom
<1> DEFINE b == BlockOf(Blocks({pack}, n), ch)
<1>6. b \in Blocks({pack}, n) /\ Covered(b)
  <2>1. BlockFrom(pack, n, c) \in Blocks({pack}, n)
    BY <1>3, <1>4
  <2>2. b = CHOOSE x \in Blocks({pack}, n) : Covered(x)
    BY Zenon DEF BlockOf
  <2>3. \E x \in Blocks({pack}, n) : Covered(x)
    BY <1>5, <2>1, Zenon
  <2> HIDE DEF Covered, b
  <2> QED BY <2>2, <2>3
<1>7. PICK a \in T : b = BlockFrom(pack, n, a)
  <2>1. b \in Blocks({pack}, n)
    BY <1>6
  <2> HIDE DEF T, b
  <2>2. b \in {BlockFrom(pack, n, a) : a \in T}
    BY <1>4, <2>1, Zenon
  <2>3. \A z : z \in {BlockFrom(pack, n, a) : a \in T} => \E a \in T : z = BlockFrom(pack, n, a)
    OBVIOUS
  <2> QED BY <2>2, <2>3, Zenon
<1>8. b.start = a /\ b.width = Width(pack, n - a)
  <2>1. BlockFrom(pack, n, a).start = a /\ BlockFrom(pack, n, a).width = Width(pack, n - a)
    BY DEF BlockFrom
  <2> QED BY <1>7, <2>1, Zenon
<1>9. Start(pack, n, ch) = a
  BY <1>8, Zenon DEF Start
<1>10. a \in 0 .. n - 1 /\ \E q \in Nat : a = q * pack
  OBVIOUS
<1>11. ch \in a .. a + Width(pack, n - a) - 1
  BY <1>6, <1>8, Zenon
<1>12. Width(pack, n - a) \in Nat
  <2>1. n - a \in Nat \ {0}
    BY <1>10
  <2> QED BY <2>1, OneWidth
<1>13. a \in 0 .. ch /\ ch < a + Width(pack, n - a)
  <2> DEFINE wd == Width(pack, n - a)
  <2>1. wd \in Nat /\ ch \in a .. a + wd - 1
    BY <1>11, <1>12
  <2> HIDE DEF wd
  <2>2. a \in 0 .. ch /\ ch < a + wd
    BY <1>10, <2>1
  <2> QED BY <2>2 DEF wd
<1> QED BY <1>8, <1>9, <1>10, <1>13, Zenon

(* The arithmetic of a block: pos rows of its width, and a lane in the row. *)
LEMMA LaneArithmetic ==
  ASSUME NEW st \in Nat, NEW w \in Nat, NEW n \in Nat, NEW size \in Nat,
         NEW pos \in 0 .. size - 1, NEW lane \in 0 .. w - 1, st + w <= n
  PROVE  /\ st * size + pos * w + lane \in st * size .. (st + w) * size - 1
         /\ (st + w) * size <= n * size
<1>1. pos * w + w <= size * w
  <2>1. pos + 1 <= size
    OBVIOUS
  <2>2. (pos + 1) * w <= size * w
    BY <2>1
  <2> QED BY <2>2
<1>2. (st + w) * size = st * size + size * w
  OBVIOUS
<1>3. st * size \in Nat /\ pos * w \in Nat /\ size * w \in Nat
  OBVIOUS
<1>4. (st + w) * size <= n * size
  <2>1. PICK x \in Nat : n = (st + w) + x
    <3>1. n - (st + w) \in Nat /\ n = (st + w) + (n - (st + w))
      OBVIOUS
    <3> QED BY <3>1
  <2>2. n * size = (st + w) * size + x * size /\ x * size \in Nat
    BY <2>1
  <2> QED BY <2>2
<1>5. st * size + pos * w + lane \in st * size .. (st + w) * size - 1
  <2> DEFINE a == st * size
             c == pos * w
             e == size * w
  <2>1. a \in Nat /\ c \in Nat /\ e \in Nat /\ c + w <= e /\ (st + w) * size = a + e
    BY <1>1, <1>2, <1>3
  <2> HIDE DEF a, c, e
  <2>2. a + c + lane \in a .. a + e - 1
    BY <2>1
  <2> QED BY <2>1, <2>2 DEF a, c
<1> QED BY <1>4, <1>5

LEMMA RowsApart ==
  ASSUME NEW w \in Nat, NEW p1 \in Nat, NEW p2 \in Nat,
         NEW l1 \in 0 .. w - 1, NEW l2 \in 0 .. w - 1, p1 * w + l1 = p2 * w + l2
  PROVE  p1 = p2 /\ l1 = l2
<1>1. ASSUME NEW a \in Nat, NEW c \in Nat, a < c PROVE c * w >= a * w + w
  <2>1. PICK x \in Nat : c = a + 1 + x
    <3>1. c - (a + 1) \in Nat /\ c = a + 1 + (c - (a + 1))
      BY <1>1
    <3> QED BY <3>1
  <2>2. c * w = a * w + w + x * w /\ x * w \in Nat
    BY <2>1
  <2> QED BY <2>2
<1>2. p1 * w \in Nat /\ p2 * w \in Nat
  OBVIOUS
<1>3. ~(p1 < p2)
  <2>1. SUFFICES ASSUME p1 < p2 PROVE FALSE
    OBVIOUS
  <2>2. p2 * w >= p1 * w + w
    BY <1>1, <2>1
  <2> QED BY <1>2, <2>2
<1>4. ~(p2 < p1)
  <2>1. SUFFICES ASSUME p2 < p1 PROVE FALSE
    OBVIOUS
  <2>2. p1 * w >= p2 * w + w
    BY <1>1, <2>1
  <2> QED BY <1>2, <2>2
<1>5. p1 = p2
  BY <1>3, <1>4
<1> QED BY <1>2, <1>5

LEMMA LaneIs ==
  ASSUME NEW pack \in Nat \ {0}, NEW n \in Nat, NEW size \in Nat,
         NEW ch \in 0 .. n - 1, NEW pos \in 0 .. size - 1
  PROVE  LET st == Start(pack, n, ch)
             w  == Width(pack, n - st)
         IN  /\ LaneAt(pack, n, size, ch, pos) = st * size + pos * w + (ch - st)
             /\ st \in 0 .. ch /\ w \in Nat /\ w <= pack /\ st + w <= n
             /\ ch - st \in 0 .. w - 1
<1> DEFINE st == Start(pack, n, ch)
           w  == Width(pack, n - st)
<1>1. st \in 0 .. ch /\ ch < st + w
  BY BlockFacts
<1>2. w \in Nat /\ w <= pack /\ w <= n - st
  <2> HIDE DEF st
  <2>1. n - st \in Nat \ {0}
    BY <1>1
  <2>2. w = IF pack <= n - st THEN pack ELSE n - st
    BY <2>1, OneWidth
  <2> HIDE DEF w
  <2> QED BY <2>1, <2>2
<1>3. LaneAt(pack, n, size, ch, pos) = st * size + pos * w + ch - st
  <2>1. BlockOf(Blocks({pack}, n), ch).width = w
    BY BlockFacts, Zenon
  <2> QED BY <2>1, Zenon DEF LaneAt, Start
<1> HIDE DEF st, w
<1>4. st + w <= n /\ ch - st \in 0 .. w - 1
  BY <1>1, <1>2
<1>5. st * size + pos * w + ch - st = st * size + pos * w + (ch - st)
  <2>1. st * size \in Int /\ pos * w \in Int
    BY <1>1, <1>2
  <2> DEFINE a == st * size
             c == pos * w
  <2>2. a \in Int /\ c \in Int /\ st \in Int /\ ch \in Int
    BY <1>1, <2>1
  <2> HIDE DEF a, c
  <2>3. a + c + ch - st = a + c + (ch - st)
    BY <2>2
  <2> QED BY <2>3 DEF a, c
<1>6. LaneAt(pack, n, size, ch, pos) = st * size + pos * w + (ch - st)
  BY <1>3, <1>5, Zenon
<1> QED BY <1>1, <1>2, <1>4, <1>6 DEF st, w

LEMMA LaneInside ==
  ASSUME NEW pack \in Nat \ {0}, NEW n \in Nat, NEW size \in Nat,
         NEW ch \in 0 .. n - 1, NEW pos \in 0 .. size - 1
  PROVE  LaneAt(pack, n, size, ch, pos) \in 0 .. n * size - 1
<1> DEFINE st == Start(pack, n, ch)
           w  == Width(pack, n - st)
           lane == ch - st
<1>1. /\ LaneAt(pack, n, size, ch, pos) = st * size + pos * w + lane
      /\ st \in 0 .. ch /\ w \in Nat /\ st + w <= n /\ lane \in 0 .. w - 1
  BY LaneIs
<1> HIDE DEF st, w, lane
<1>2. st \in Nat
  BY <1>1
<1>3. /\ st * size + pos * w + lane \in st * size .. (st + w) * size - 1
      /\ (st + w) * size <= n * size
  BY <1>1, <1>2, LaneArithmetic
<1>4. st * size \in Nat /\ (st + w) * size \in Nat /\ n * size \in Nat
  BY <1>1, <1>2
<1> DEFINE a == st * size
           c == (st + w) * size
           e == n * size
           x == st * size + pos * w + lane
<1>5. a \in Nat /\ c \in Nat /\ e \in Nat /\ x \in a .. c - 1 /\ c <= e
  BY <1>3, <1>4
<1>6. x \in 0 .. e - 1
  <2> HIDE DEF a, c, e, x
  <2> QED BY <1>5
<1> QED BY <1>1, <1>6

(* No two elements of a layout are at the same place. *)
LEMMA LaneInjective ==
  ASSUME NEW pack \in Nat \ {0}, NEW n \in Nat, NEW size \in Nat,
         NEW ch1 \in 0 .. n - 1, NEW pos1 \in 0 .. size - 1,
         NEW ch2 \in 0 .. n - 1, NEW pos2 \in 0 .. size - 1,
         LaneAt(pack, n, size, ch1, pos1) = LaneAt(pack, n, size, ch2, pos2)
  PROVE  ch1 = ch2 /\ pos1 = pos2
<1> DEFINE st(ch) == Start(pack, n, ch)
           w(ch) == Width(pack, n - st(ch))
           lane(ch) == ch - st(ch)
           place(ch, pos) == st(ch) * size + pos * w(ch) + lane(ch)
<1>1. ASSUME NEW ch \in 0 .. n - 1, NEW pos \in 0 .. size - 1
      PROVE  /\ LaneAt(pack, n, size, ch, pos) = place(ch, pos)
             /\ st(ch) \in Nat /\ w(ch) \in Nat /\ w(ch) <= pack /\ st(ch) + w(ch) <= n
             /\ lane(ch) \in 0 .. w(ch) - 1 /\ ch = st(ch) + lane(ch)
             /\ place(ch, pos) \in st(ch) * size .. (st(ch) + w(ch)) * size - 1
  <2>1. /\ LaneAt(pack, n, size, ch, pos) = place(ch, pos)
        /\ st(ch) \in 0 .. ch /\ w(ch) \in Nat /\ w(ch) <= pack /\ st(ch) + w(ch) <= n
        /\ lane(ch) \in 0 .. w(ch) - 1
    BY LaneIs
  <2> DEFINE a == st(ch)
             c == w(ch)
             e == lane(ch)
  <2>2. a \in 0 .. ch /\ c \in Nat /\ a + c <= n /\ e \in 0 .. c - 1 /\ e = ch - a
    BY <2>1
  <2> HIDE DEF a, c, e
  <2>3. a \in Nat /\ ch = a + e
    BY <2>2
  <2>4. a * size + pos * c + e \in a * size .. (a + c) * size - 1
    BY <2>2, <2>3, LaneArithmetic
  <2> QED BY <2>1, <2>3, <2>4 DEF a, c, e
<1>2. \A ch \in 0 .. n - 1 : \E q \in Nat : st(ch) = q * pack
  BY BlockFacts
<1>3. ASSUME NEW x \in 0 .. n - 1, NEW y \in 0 .. n - 1,
             NEW px \in 0 .. size - 1, NEW py \in 0 .. size - 1,
             st(x) < st(y), place(x, px) = place(y, py)
      PROVE  FALSE
  <2> DEFINE a == st(x)
             c == st(y)
             e == w(x)
             f == w(y)
  <2>1. /\ a \in Nat /\ c \in Nat /\ e \in Nat /\ e <= pack /\ a < c
        /\ place(x, px) \in a * size .. (a + e) * size - 1
        /\ place(y, py) \in c * size .. (c + f) * size - 1 /\ f \in Nat
    BY <1>1, <1>3
  <2>2. PICK qx \in Nat : a = qx * pack
    BY <1>2
  <2>3. PICK qy \in Nat : c = qy * pack
    BY <1>2
  <2> DEFINE place1 == place(x, px)
             place2 == place(y, py)
  <2>9. /\ place1 = place2
        /\ place1 \in a * size .. (a + e) * size - 1
        /\ place2 \in c * size .. (c + f) * size - 1
    BY <1>3, <2>1
  <2> HIDE DEF a, c, e, f, place1, place2, place
  <2>4. qx < qy
    <3>1. SUFFICES ASSUME qy <= qx PROVE FALSE
      OBVIOUS
    <3>2. PICK d \in Nat : qx = qy + d
      <4>1. qx - qy \in Nat /\ qx = qy + (qx - qy)
        BY <3>1
      <4> QED BY <4>1
    <3>3. a = c + d * pack /\ d * pack \in Nat
      BY <2>2, <2>3, <3>2
    <3> QED BY <2>1, <3>3
  <2>5. a + e <= c
    <3>1. PICK d \in Nat : qy = qx + 1 + d
      <4>1. qy - (qx + 1) \in Nat /\ qy = qx + 1 + (qy - (qx + 1))
        BY <2>4
      <4> QED BY <4>1
    <3>2. c = a + pack + d * pack /\ d * pack \in Nat
      BY <2>2, <2>3, <3>1
    <3> QED BY <2>1, <3>2
  <2>6. (a + e) * size <= c * size
    <3>1. PICK d \in Nat : c = (a + e) + d
      <4>1. c - (a + e) \in Nat /\ c = (a + e) + (c - (a + e))
        BY <2>1, <2>5
      <4> QED BY <4>1
    <3>2. c * size = (a + e) * size + d * size /\ d * size \in Nat
      BY <2>1, <3>1
    <3>3. (a + e) * size \in Nat
      BY <2>1
    <3> QED BY <3>2, <3>3
  <2> DEFINE u == (a + e) * size
             v == c * size
             lo == a * size
             hi == (c + f) * size
  <2>7. u \in Nat /\ v \in Nat /\ lo \in Nat /\ hi \in Nat /\ u <= v /\ place1 = place2
        /\ place1 \in lo .. u - 1 /\ place2 \in v .. hi - 1
    BY <2>1, <2>6, <2>9
  <2> HIDE DEF u, v, lo, hi
  <2> QED BY <2>7
<1>4. place(ch1, pos1) = place(ch2, pos2)
  BY <1>1
<1>5. st(ch1) \in Nat /\ st(ch2) \in Nat
  BY <1>1
<1>6. st(ch1) = st(ch2)
  <2>1. ~(st(ch1) < st(ch2))
    <3> HIDE DEF st, place
    <3> QED BY <1>3, <1>4
  <2>2. ~(st(ch2) < st(ch1))
    <3>1. place(ch2, pos2) = place(ch1, pos1)
      BY <1>4, Zenon
    <3> HIDE DEF st, place
    <3> QED BY <1>3, <3>1
  <2> HIDE DEF st
  <2> QED BY <1>5, <2>1, <2>2
<1> DEFINE a == st(ch1)
           c == w(ch1)
           l1 == lane(ch1)
           l2 == lane(ch2)
<1>7. /\ a \in Nat /\ c \in Nat /\ l1 \in 0 .. c - 1 /\ ch1 = a + l1
      /\ l2 \in 0 .. c - 1 /\ ch2 = a + l2
  <2>1. w(ch2) = c /\ st(ch2) = a
    BY <1>6, Zenon
  <2>2. /\ a \in Nat /\ c \in Nat /\ l1 \in 0 .. c - 1 /\ ch1 = a + l1
    BY <1>1
  <2>3. l2 \in 0 .. w(ch2) - 1 /\ ch2 = st(ch2) + l2
    BY <1>1
  <2> QED BY <2>1, <2>2, <2>3, Zenon
<1>8. a * size + pos1 * c + l1 = a * size + pos2 * c + l2
  BY <1>4, <1>6, Zenon
<1> HIDE DEF a, c, l1, l2
<1>9. pos1 * c + l1 = pos2 * c + l2
  <2>1. a * size \in Int /\ pos1 * c \in Int /\ pos2 * c \in Int /\ l1 \in Int /\ l2 \in Int
    BY <1>7
  <2> DEFINE u == a * size
             v1 == pos1 * c
             v2 == pos2 * c
  <2>2. u \in Int /\ v1 \in Int /\ v2 \in Int /\ u + v1 + l1 = u + v2 + l2
    BY <1>8, <2>1
  <2> HIDE DEF u, v1, v2
  <2>3. v1 + l1 = v2 + l2
    BY <2>1, <2>2
  <2> QED BY <2>3 DEF v1, v2
<1>10. pos1 \in Nat /\ pos2 \in Nat
  OBVIOUS
<1>11. pos1 = pos2 /\ l1 = l2
  BY <1>7, <1>9, <1>10, RowsApart
<1> QED BY <1>7, <1>11

-----------------------------------------------------------------------------
(* The numbers of a convolution *)

LEMMA ShapeNumbers ==
  ASSUME NEW x \in Convolution
  PROVE  /\ x.group \in Nat \ {0} /\ x.m \in Nat \ {0}
         /\ K(x) \in Nat \ {0} /\ N(x) \in Nat \ {0}
         /\ PackN(x) \in Nat \ {0} /\ Pack(x) \in Nat \ {0}
         /\ RowWidths(x) \subseteq Nat \ {0}
         /\ x.backend \in {"rvv", "c908"} /\ x.size \in {2, 4}
<1>1. /\ x.group \in Nat \ {0} /\ x.m \in Nat \ {0} /\ x.cin \in Nat \ {0}
      /\ x.kh \in Nat \ {0} /\ x.kw \in Nat \ {0} /\ x.oh \in Nat \ {0} /\ x.ow \in Nat \ {0}
      /\ x.backend \in {"rvv", "c908"} /\ x.size \in {2, 4} /\ x.vlenb \in {16, 32}
  BY DEF Convolution
<1>2. \A a, b \in Nat \ {0} : a * b \in Nat \ {0}
  OBVIOUS
<1>3. K(x) \in Nat \ {0} /\ N(x) \in Nat \ {0}
  <2>1. x.kh * x.kw \in Nat \ {0} /\ x.oh * x.ow \in Nat \ {0}
    BY <1>1, <1>2
  <2>2. x.cin * (x.kh * x.kw) \in Nat \ {0}
    BY <1>1, <1>2, <2>1
  <2> QED BY <2>1, <2>2, Zenon DEF K, N, Maxk
<1>4. PackN(x) \in {4, 8, 16}
  <2>1. CASE x.vlenb = 16 /\ x.size = 2
    BY <2>1 DEF PackN
  <2>2. CASE x.vlenb = 16 /\ x.size = 4
    BY <2>2 DEF PackN
  <2>3. CASE x.vlenb = 32 /\ x.size = 2
    BY <2>3 DEF PackN
  <2>4. CASE x.vlenb = 32 /\ x.size = 4
    BY <2>4 DEF PackN
  <2> QED BY <1>1, <2>1, <2>2, <2>3, <2>4
<1>5. PackN(x) \in Nat \ {0} /\ 2 * PackN(x) \in Nat \ {0}
  BY <1>4
<1>6. Pack(x) \in Nat \ {0}
  <2>1. Pack(x) = 1 \/ Pack(x) = PackN(x)
    BY DEF Pack
  <2> QED BY <1>5, <2>1
<1>7. RowWidths(x) \subseteq Nat \ {0}
  <2>1. RowWidths(x) = {8, 4, 2, 1} \/ RowWidths(x) = {2 * PackN(x), PackN(x)}
    BY Zenon DEF RowWidths
  <2>2. {8, 4, 2, 1} \subseteq Nat \ {0} /\ {2 * PackN(x), PackN(x)} \subseteq Nat \ {0}
    BY <1>5
  <2> QED BY <2>1, <2>2, Zenon
<1> QED BY <1>1, <1>3, <1>5, <1>6, <1>7

LEMMA TileWidthsPositive ==
  ASSUME s \in Shape, NEW rows PROVE TileWidths(rows) \subseteq Nat \ {0}
<1>1. s.backend \in {"rvv", "c908"} /\ s.size \in {2, 4}
  BY ShapeAssumption, ShapeNumbers
<1>2. /\ rvv_ncxhwx_gemm_12xpack2n(rows) \subseteq Nat \ {0}
      /\ rvv_gemm_8x8_fp32(rows) \subseteq Nat \ {0}
      /\ rvv_gemm_8x16_fp16(rows) \subseteq Nat \ {0}
      /\ c908_gemm_8x12_fp32(rows) \subseteq Nat \ {0}
      /\ c908_gemm_8x16_fp32_v256(rows) \subseteq Nat \ {0}
      /\ c908_gemm_8x24_fp16(rows) \subseteq Nat \ {0}
      /\ c908_gemm_8x32_fp16_v256(rows) \subseteq Nat \ {0}
  BY DEF rvv_ncxhwx_gemm_12xpack2n, rvv_gemm_8x8_fp32, rvv_gemm_8x16_fp16, c908_gemm_8x12_fp32,
         c908_gemm_8x16_fp32_v256, c908_gemm_8x24_fp16, c908_gemm_8x32_fp16_v256
<1>3. TileWidths(rows) \in {rvv_ncxhwx_gemm_12xpack2n(rows), rvv_gemm_8x8_fp32(rows),
        rvv_gemm_8x16_fp16(rows), c908_gemm_8x12_fp32(rows), c908_gemm_8x16_fp32_v256(rows),
        c908_gemm_8x24_fp16(rows), c908_gemm_8x32_fp16_v256(rows)}
  <2>1. \A a, b, c, d, e, f :
          Of(s, a, b, c, d, e, f) = a \/ Of(s, a, b, c, d, e, f) = b \/ Of(s, a, b, c, d, e, f) = c
          \/ Of(s, a, b, c, d, e, f) = d \/ Of(s, a, b, c, d, e, f) = e \/ Of(s, a, b, c, d, e, f) = f
    BY <1>1 DEF Of
  <2>2. TileWidths(rows) = IF ~Pack1(s) THEN rvv_ncxhwx_gemm_12xpack2n(rows)
          ELSE Of(s, rvv_gemm_8x8_fp32(rows), rvv_gemm_8x16_fp16(rows), c908_gemm_8x12_fp32(rows),
                  c908_gemm_8x16_fp32_v256(rows), c908_gemm_8x24_fp16(rows), c908_gemm_8x32_fp16_v256(rows))
    BY Zenon DEF TileWidths
  <2>3. CASE Pack1(s)
    <3>1. TileWidths(rows)
            = Of(s, rvv_gemm_8x8_fp32(rows), rvv_gemm_8x16_fp16(rows), c908_gemm_8x12_fp32(rows),
                 c908_gemm_8x16_fp32_v256(rows), c908_gemm_8x24_fp16(rows), c908_gemm_8x32_fp16_v256(rows))
      BY <2>2, <2>3, Zenon
    <3> QED BY <2>1, <3>1
  <2>4. CASE ~Pack1(s)
    BY <2>2, <2>4, Zenon
  <2> QED BY <2>3, <2>4
<1> QED BY <1>2, <1>3, Zenon

-----------------------------------------------------------------------------
(* The loops *)

CellAt(x, h, row, col) == h * x.m * N(x) + LaneAt(Pack(x), x.m, N(x), row, col)

(* The outputs of the group that the tiles before this one have written *)
Made == {CellAt(s, g, rc[1], rc[2]) : rc \in {z \in (0 .. s.m - 1) \X (0 .. N(s) - 1) :
           z[1] < i \/ (z[1] < i + Rows /\ z[2] < j)}}

ConvInv ==
  /\ s \in Shape
  /\ g \in 0 .. s.group /\ i \in 0 .. s.m - 1 /\ j \in 0 .. N(s) - 1
  /\ DOMAIN output \subseteq (0 .. g * s.m * N(s) - 1) \cup Made

LEMMA TileFits ==
  ASSUME s \in Shape, i \in 0 .. s.m - 1, j \in 0 .. N(s) - 1
  PROVE  Rows \in 1 .. s.m - i /\ Cols \in 1 .. N(s) - j
<1>1. s \in Convolution
  BY ShapeAssumption
<1>2. s.m \in Nat \ {0} /\ N(s) \in Nat \ {0} /\ RowWidths(s) \subseteq Nat \ {0}
  BY <1>1, ShapeNumbers
<1>3. s.m - i \in Nat \ {0}
  BY <1>2
<1>4. N(s) - j \in Nat \ {0}
  BY <1>2
<1>5. Widest(RowWidths(s), s.m - i) \in 1 .. s.m - i
  BY <1>2, <1>3, WidestFits
<1>6. TileWidths(Rows) \subseteq Nat \ {0}
  BY TileWidthsPositive
<1>7. Widest(TileWidths(Rows), N(s) - j) \in 1 .. N(s) - j
  BY <1>4, <1>6, WidestFits
<1> QED BY <1>5, <1>7, Zenon DEF Rows, Cols

LEMMA GroupPart ==
  ASSUME NEW h \in Nat, NEW m \in Nat, NEW n \in Nat, NEW a \in 0 .. m * n - 1
  PROVE  /\ h * m * n + a \in h * m * n .. (h + 1) * m * n - 1
         /\ h * m * n \in Nat /\ (h + 1) * m * n \in Nat
         /\ h * m * n <= (h + 1) * m * n
<1> DEFINE u == h * m * n
           v == m * n
<1>1. (h + 1) * m * n = u + v /\ u \in Nat /\ v \in Nat
  OBVIOUS
<1>2. a \in 0 .. v - 1
  OBVIOUS
<1> HIDE DEF u, v
<1>3. u + a \in u .. (u + v) - 1 /\ u + v \in Nat /\ u <= u + v
  BY <1>1, <1>2
<1> QED BY <1>1, <1>3 DEF u

LEMMA CellInside ==
  ASSUME NEW x \in Convolution, NEW h \in Nat,
         NEW row \in 0 .. x.m - 1, NEW col \in 0 .. N(x) - 1
  PROVE  CellAt(x, h, row, col) \in h * x.m * N(x) .. (h + 1) * x.m * N(x) - 1
<1>1. x.m \in Nat /\ N(x) \in Nat /\ Pack(x) \in Nat \ {0}
  BY ShapeNumbers
<1>2. LaneAt(Pack(x), x.m, N(x), row, col) \in 0 .. x.m * N(x) - 1
  BY <1>1, LaneInside
<1>3. h * x.m * N(x) + LaneAt(Pack(x), x.m, N(x), row, col) \in h * x.m * N(x) .. (h + 1) * x.m * N(x) - 1
  BY <1>1, <1>2, GroupPart
<1> QED BY <1>3, Zenon DEF CellAt

LEMMA CellInjective ==
  ASSUME NEW x \in Convolution, NEW h \in Nat,
         NEW row1 \in 0 .. x.m - 1, NEW col1 \in 0 .. N(x) - 1,
         NEW row2 \in 0 .. x.m - 1, NEW col2 \in 0 .. N(x) - 1,
         CellAt(x, h, row1, col1) = CellAt(x, h, row2, col2)
  PROVE  row1 = row2 /\ col1 = col2
<1>1. x.m \in Nat /\ N(x) \in Nat /\ Pack(x) \in Nat \ {0}
  BY ShapeNumbers
<1> DEFINE a1 == LaneAt(Pack(x), x.m, N(x), row1, col1)
           a2 == LaneAt(Pack(x), x.m, N(x), row2, col2)
           b == h * x.m * N(x)
<1>2. a1 \in 0 .. x.m * N(x) - 1 /\ a2 \in 0 .. x.m * N(x) - 1
  BY <1>1, LaneInside
<1>3. b \in Nat /\ a1 \in Int /\ a2 \in Int
  BY <1>1, <1>2
<1>4. b + a1 = b + a2
  BY Zenon DEF CellAt
<1>5. a1 = a2
  <2> HIDE DEF a1, a2, b
  <2> QED BY <1>3, <1>4
<1> DEFINE m == x.m
           n == N(x)
           pack == Pack(x)
<1>6. /\ m \in Nat /\ n \in Nat /\ pack \in Nat \ {0}
      /\ row1 \in 0 .. m - 1 /\ row2 \in 0 .. m - 1 /\ col1 \in 0 .. n - 1 /\ col2 \in 0 .. n - 1
      /\ LaneAt(pack, m, n, row1, col1) = LaneAt(pack, m, n, row2, col2)
  BY <1>1, <1>5
<1> HIDE DEF m, n, pack
<1> QED BY <1>6, LaneInjective

LEMMA KernelInside ==
  ASSUME NEW h \in Nat, NEW m \in Nat, NEW k \in Nat, NEW a \in Nat, NEW rows \in Nat,
         a + rows <= m, NEW c \in 0 .. k - 1, NEW r \in 0 .. rows - 1
  PROVE  h * m * k + a * k + rows * c + r \in h * m * k .. (h + 1) * m * k - 1
<1> DEFINE t == a * k + c * rows + r
<1>1. t \in a * k .. (a + rows) * k - 1 /\ (a + rows) * k <= m * k
  BY LaneArithmetic
<1>2. t \in 0 .. m * k - 1
  <2> DEFINE u == a * k
             v == (a + rows) * k
             z == m * k
  <2>1. u \in Nat /\ v \in Nat /\ z \in Nat /\ t \in u .. v - 1 /\ v <= z
    BY <1>1
  <2> HIDE DEF u, v, z, t
  <2> QED BY <2>1 DEF z
<1>3. h * m * k + t \in h * m * k .. (h + 1) * m * k - 1
  <2> HIDE DEF t
  <2> QED BY <1>2, GroupPart
<1>4. h * m * k + t = h * m * k + a * k + rows * c + r
  <2>1. c * rows = rows * c
    OBVIOUS
  <2> DEFINE u == h * m * k
             v == a * k
             z == rows * c
  <2>2. u \in Int /\ v \in Int /\ z \in Int /\ r \in Int
    OBVIOUS
  <2>3. t = v + z + r
    BY <2>1
  <2> HIDE DEF u, v, z, t
  <2>4. u + t = u + v + z + r
    BY <2>2, <2>3
  <2> QED BY <2>4 DEF u, v, z
<1> QED BY <1>3, <1>4

LEMMA InputInside ==
  ASSUME NEW k \in Nat, NEW n \in Nat, NEW a \in Nat, NEW cols \in Nat, a + cols <= n,
         NEW c \in 0 .. k - 1, NEW x \in 0 .. cols - 1
  PROVE  /\ a * k + cols * c + x \in 0 .. k * n - 1
         /\ (a + x) * k + c \in 0 .. k * n - 1
<1> DEFINE z == k * n
<1>0. z \in Nat /\ n * k = z
  OBVIOUS
<1>1. a * k + cols * c + x \in 0 .. z - 1
  <2> DEFINE u == a * k
             v == (a + cols) * k
             t == a * k + cols * c + x
  <2>1. a * k + c * cols + x \in a * k .. (a + cols) * k - 1 /\ (a + cols) * k <= n * k
    BY LaneArithmetic
  <2>2. c * cols = cols * c
    OBVIOUS
  <2>3. u \in Nat /\ v \in Nat /\ v <= z /\ t \in u .. v - 1
    BY <1>0, <2>1, <2>2
  <2>4. t \in 0 .. z - 1
    <3> HIDE DEF u, v, z, t
    <3> QED BY <1>0, <2>3
  <2> QED BY <2>4
<1>2. (a + x) * k + c \in 0 .. z - 1
  <2> DEFINE d == a + x
             u == d * k
             v == (d + 1) * k
  <2>1. d \in Nat /\ d + 1 <= n
    OBVIOUS
  <2>2. PICK e \in Nat : n = (d + 1) + e
    <3> HIDE DEF d
    <3>1. n - (d + 1) \in Nat /\ n = (d + 1) + (n - (d + 1))
      BY <2>1
    <3> QED BY <3>1
  <2>3. n * k = v + e * k /\ e * k \in Nat /\ v = u + k /\ u \in Nat
    <3> HIDE DEF d
    <3> QED BY <2>1, <2>2
  <2>4. u + c \in 0 .. z - 1
    <3> DEFINE y == e * k
    <3>1. y \in Nat /\ z = u + k + y
      BY <1>0, <2>3
    <3> HIDE DEF u, z, y
    <3> QED BY <1>0, <2>3, <3>1
  <2> QED BY <2>4
<1> QED BY <1>1, <1>2

(* What is true of the tile that runs, in every state the invariant allows. *)
LEMMA TileInv ==
  ASSUME ConvInv, Running
  PROVE  /\ \A r \in Reads : /\ r[1] \in g * s.m * K(s) .. (g + 1) * s.m * K(s) - 1
                             /\ r[2] \in 0 .. K(s) * N(s) - 1
         /\ Writes \subseteq g * s.m * N(s) .. (g + 1) * s.m * N(s) - 1
         /\ Writes \cap DOMAIN output = {}
         /\ \A w \in Writes : \E r \in 0 .. Rows - 1, x \in 0 .. Cols - 1 : w = CellAt(s, g, i + r, j + x)
<1> DEFINE rows == Rows
           cols == Cols
           k == K(s)
           n == N(s)
           m == s.m
<1>1. /\ s \in Convolution
      /\ s \in Shape /\ g \in 0 .. s.group /\ i \in 0 .. s.m - 1 /\ j \in 0 .. N(s) - 1
      /\ DOMAIN output \subseteq (0 .. g * s.m * N(s) - 1) \cup Made
  BY ShapeAssumption DEF ConvInv
<1>2. m \in Nat /\ k \in Nat /\ n \in Nat /\ s.group \in Nat
  BY <1>1, ShapeNumbers
<1>3. rows \in 1 .. m - i /\ cols \in 1 .. n - j
  BY <1>1, TileFits
<1>4. g \in Nat /\ i \in 0 .. m - 1 /\ j \in 0 .. n - 1
  BY <1>1, <1>2
<1>5. i \in Nat /\ j \in Nat /\ rows \in Nat /\ cols \in Nat /\ i + rows <= m /\ j + cols <= n
  <2> HIDE DEF rows, cols, k, n, m
  <2> QED BY <1>2, <1>3, <1>4
<1>6. ASSUME NEW r \in 0 .. rows - 1, NEW x \in 0 .. cols - 1, NEW c \in 0 .. k - 1
      PROVE  /\ KernelAt(rows, c, r) \in g * m * k .. (g + 1) * m * k - 1
             /\ InputAt(cols, c, x) \in 0 .. k * n - 1
  <2>1. KernelAt(rows, c, r) = g * m * k + i * k + rows * c + r
    BY Zenon DEF KernelAt
  <2>2. InputAt(cols, c, x) = (j + x) * k + c \/ InputAt(cols, c, x) = j * k + cols * c + x
    BY Zenon DEF InputAt
  <2> HIDE DEF rows, cols, k, n, m
  <2>3. g * m * k + i * k + rows * c + r \in g * m * k .. (g + 1) * m * k - 1
    BY <1>2, <1>4, <1>5, KernelInside
  <2>4. j * k + cols * c + x \in 0 .. k * n - 1 /\ (j + x) * k + c \in 0 .. k * n - 1
    BY <1>2, <1>5, InputInside
  <2> QED BY <2>1, <2>2, <2>3, <2>4, Zenon
<1>7. ASSUME NEW r \in Reads
      PROVE  r[1] \in g * m * k .. (g + 1) * m * k - 1 /\ r[2] \in 0 .. k * n - 1
  <2>1. PICK r0 \in 0 .. rows - 1, x0 \in 0 .. cols - 1, c0 \in 0 .. k - 1 :
          r = <<KernelAt(rows, c0, r0), InputAt(cols, c0, x0)>>
    BY DEF Reads, Products
  <2>2. r[1] = KernelAt(rows, c0, r0) /\ r[2] = InputAt(cols, c0, x0)
    BY <2>1
  <2> QED BY <1>6, <2>2, Zenon
<1>8. \A w \in Writes : \E r \in 0 .. Rows - 1, x \in 0 .. Cols - 1 : w = CellAt(s, g, i + r, j + x)
  <2>1. \A r, x : Place(r, x) = CellAt(s, g, i + r, j + x)
    BY Zenon DEF Place, CellAt
  <2> QED BY <2>1 DEF Writes
<1>9. ASSUME NEW w \in Writes
      PROVE  w \in g * m * n .. (g + 1) * m * n - 1 /\ w \notin DOMAIN output
  <2>1. PICK r \in 0 .. rows - 1, x \in 0 .. cols - 1 : w = CellAt(s, g, i + r, j + x)
    BY <1>8
  <2>2. i + r \in 0 .. m - 1 /\ j + x \in 0 .. n - 1
    <3> HIDE DEF rows, cols, k, n, m
    <3> QED BY <1>2, <1>5
  <2>3. w \in g * m * n .. (g + 1) * m * n - 1
    BY <1>1, <1>4, <2>1, <2>2, CellInside
  <2>4. w \notin 0 .. g * m * n - 1
    <3> DEFINE u == g * m * n
               v == (g + 1) * m * n
    <3>1. u \in Int /\ v \in Int /\ w \in u .. v - 1
      BY <1>2, <1>4, <2>3
    <3> HIDE DEF u, v
    <3>2. w \notin 0 .. u - 1
      BY <3>1
    <3> QED BY <3>2 DEF u
  <2>5. w \notin Made
    <3>1. SUFFICES ASSUME w \in Made PROVE FALSE
      OBVIOUS
    <3>2. PICK row \in 0 .. m - 1, col \in 0 .. n - 1 :
            w = CellAt(s, g, row, col) /\ (row < i \/ (row < i + rows /\ col < j))
      BY <3>1 DEF Made
    <3>3. row = i + r /\ col = j + x
      <4>1. CellAt(s, g, row, col) = CellAt(s, g, i + r, j + x)
        BY <2>1, <3>2, Zenon
      <4> QED BY <1>1, <1>4, <2>2, <4>1, CellInjective
    <3> HIDE DEF rows, cols, k, n, m
    <3>4. ~(i + r < i) /\ ~(j + x < j)
      BY <1>5
    <3> QED BY <3>2, <3>3, <3>4, Zenon
  <2>6. w \notin DOMAIN output
    BY <1>1, <2>4, <2>5, Zenon
  <2> QED BY <2>3, <2>6
<1> QED BY <1>7, <1>8, <1>9, Zenon

LEMMA MadeInGroup ==
  ASSUME ConvInv
  PROVE  /\ Made \subseteq g * s.m * N(s) .. (g + 1) * s.m * N(s) - 1
         /\ DOMAIN output \subseteq 0 .. (g + 1) * s.m * N(s) - 1
         /\ s.m \in Nat /\ N(s) \in Nat /\ g \in Nat
<1>1. s \in Convolution /\ g \in 0 .. s.group
      /\ DOMAIN output \subseteq (0 .. g * s.m * N(s) - 1) \cup Made
  BY ShapeAssumption DEF ConvInv
<1>2. s.m \in Nat /\ N(s) \in Nat /\ g \in Nat
  BY <1>1, ShapeNumbers
<1>3. ASSUME NEW w \in Made PROVE w \in g * s.m * N(s) .. (g + 1) * s.m * N(s) - 1
  <2>1. PICK row \in 0 .. s.m - 1, col \in 0 .. N(s) - 1 : w = CellAt(s, g, row, col)
    BY <1>3 DEF Made
  <2> QED BY <1>1, <1>2, <2>1, CellInside
<1> DEFINE u == g * s.m * N(s)
           v == (g + 1) * s.m * N(s)
<1>4. u \in Nat /\ v \in Nat /\ u <= v
  <2> DEFINE m == s.m
             n == N(s)
  <2>1. m \in Nat /\ n \in Nat
    BY <1>2
  <2> HIDE DEF m, n
  <2>2. g * m * n \in Nat /\ (g + 1) * m * n = g * m * n + m * n /\ m * n \in Nat
    BY <1>2, <2>1
  <2>3. g * m * n <= (g + 1) * m * n /\ (g + 1) * m * n \in Nat
    <3> DEFINE y == g * m * n
               z == m * n
    <3>1. y \in Nat /\ z \in Nat /\ (g + 1) * m * n = y + z
      BY <2>2
    <3> HIDE DEF y, z
    <3>2. y <= y + z /\ y + z \in Nat
      BY <3>1
    <3> QED BY <3>1, <3>2 DEF y
  <2> QED BY <2>2, <2>3 DEF m, n
<1>5. Made \subseteq u .. v - 1 /\ DOMAIN output \subseteq (0 .. u - 1) \cup Made
  BY <1>1, <1>3
<1> HIDE DEF u, v
<1>6. DOMAIN output \subseteq 0 .. v - 1
  <2> SUFFICES ASSUME NEW a \in DOMAIN output PROVE a \in 0 .. v - 1
    OBVIOUS
  <2>1. a \in 0 .. u - 1 \/ a \in u .. v - 1
    BY <1>5
  <2> QED BY <1>4, <2>1
<1> QED BY <1>2, <1>5, <1>6 DEF u, v

LEMMA ConvInitInv == ConvInit => ConvInv
<1> SUFFICES ASSUME ConvInit PROVE ConvInv
  OBVIOUS
<1>1. s \in Shape /\ g = 0 /\ i = 0 /\ j = 0 /\ DOMAIN output = {}
  BY DEF ConvInit
<1>2. s \in Convolution
  BY <1>1, ShapeAssumption
<1>3. s.group \in Nat \ {0} /\ s.m \in Nat \ {0} /\ N(s) \in Nat \ {0}
  BY <1>2, ShapeNumbers
<1>4. g \in 0 .. s.group /\ i \in 0 .. s.m - 1 /\ j \in 0 .. N(s) - 1
  BY <1>1, <1>3
<1> QED BY <1>1, <1>4, Zenon DEF ConvInv

LEMMA LoopsUnchanged ==
  ASSUME ConvInv, UNCHANGED <<s, g, i, j, output>> PROVE ConvInv'
<1>1. s' = s /\ g' = g /\ i' = i /\ j' = j /\ output' = output
  OBVIOUS
<1>2. Rows' = Rows
  BY <1>1, Zenon DEF Rows
<1>3. Made' = Made
  BY <1>1, <1>2, Zenon DEF Made
<1> QED BY <1>1, <1>3, Zenon DEF ConvInv

LEMMA CallInv == ASSUME ConvInv, NEW o \in Op, Gemm2d(o), s' = s PROVE ConvInv'
<1>1. s' \in Shape /\ g' = 0 /\ i' = 0 /\ j' = 0 /\ DOMAIN output' = {}
  BY DEF ConvInv, Gemm2d
<1>2. s' \in Convolution
  BY <1>1, ShapeAssumption
<1>3. s'.group \in Nat \ {0} /\ s'.m \in Nat \ {0} /\ N(s') \in Nat \ {0}
  BY <1>2, ShapeNumbers
<1>4. g' \in 0 .. s'.group /\ i' \in 0 .. s'.m - 1 /\ j' \in 0 .. N(s') - 1
  BY <1>1, <1>3
<1> QED BY <1>1, <1>4, Zenon DEF ConvInv

LEMMA SkipInv == ASSUME ConvInv, SkipGroup PROVE ConvInv'
<1>1. /\ g < s.group /\ g' = g + 1
      /\ s' = s /\ i' = i /\ j' = j /\ output' = output
  BY DEF SkipGroup, Running
<1>2. s \in Shape /\ g \in 0 .. s.group /\ i \in 0 .. s.m - 1 /\ j \in 0 .. N(s) - 1
  BY DEF ConvInv
<1>3. DOMAIN output \subseteq 0 .. (g + 1) * s.m * N(s) - 1
  BY MadeInGroup
<1>4. g' \in 0 .. s'.group
  <2>1. s.group \in Nat
    BY <1>2, ShapeAssumption, ShapeNumbers
  <2> QED BY <1>1, <1>2, <2>1
<1>5. DOMAIN output' \subseteq 0 .. g' * s'.m * N(s') - 1
  BY <1>1, <1>3, Zenon
<1>6. i' \in 0 .. s'.m - 1 /\ j' \in 0 .. N(s') - 1 /\ s' \in Shape
  BY <1>1, <1>2, Zenon
<1>7. DOMAIN output' \subseteq (0 .. g' * s'.m * N(s') - 1) \cup Made'
  BY <1>5
<1> QED BY <1>4, <1>6, <1>7, Zenon DEF ConvInv

(* A tile adds its outputs to those made, and the loops move past them. *)
LEMMA TileStepInv == ASSUME ConvInv, Tile PROVE ConvInv'
<1>1. /\ Running /\ s' = s
      /\ j' = IF LastColumns THEN 0 ELSE j + Cols
      /\ i' = IF ~LastColumns THEN i ELSE IF LastRows THEN 0 ELSE i + Rows
      /\ g' = IF LastColumns /\ LastRows THEN g + 1 ELSE g
  BY DEF Tile
<1>2. s \in Shape /\ g \in 0 .. s.group /\ i \in 0 .. s.m - 1 /\ j \in 0 .. N(s) - 1
      /\ DOMAIN output \subseteq (0 .. g * s.m * N(s) - 1) \cup Made
  BY DEF ConvInv
<1>3. s \in Convolution
  BY <1>2, ShapeAssumption
<1>4. s.group \in Nat \ {0} /\ s.m \in Nat \ {0} /\ N(s) \in Nat \ {0}
  BY <1>3, ShapeNumbers
<1>5. Rows \in 1 .. s.m - i /\ Cols \in 1 .. N(s) - j
  BY <1>2, TileFits
<1>6. DOMAIN output' = Writes \cup DOMAIN output
  <2>1. DOMAIN TileResult = Writes
    BY DEF TileResult
  <2>2. DOMAIN Stored(TileResult) = DOMAIN TileResult \cup DOMAIN output
    BY DEF Stored
  <2>3. DOMAIN Unpacked(Stored(TileResult)) = DOMAIN Stored(TileResult)
    BY DEF Unpacked
  <2>4. output' = Unpacked(Stored(TileResult)) \/ output' = Stored(TileResult)
    BY Zenon DEF Tile
  <2> QED BY <2>1, <2>2, <2>3, <2>4, Zenon
<1>7. /\ Writes \subseteq g * s.m * N(s) .. (g + 1) * s.m * N(s) - 1
      /\ \A w \in Writes : \E r \in 0 .. Rows - 1, x \in 0 .. Cols - 1 : w = CellAt(s, g, i + r, j + x)
  BY <1>1, TileInv
<1> DEFINE rows == Rows
           cols == Cols
           n == N(s)
           m == s.m
<1>8. /\ i \in Nat /\ j \in Nat /\ rows \in Nat /\ cols \in Nat /\ rows > 0 /\ cols > 0
      /\ i + rows <= m /\ j + cols <= n /\ m \in Nat /\ n \in Nat /\ g \in Nat /\ i < m /\ j < n
  <2>1. m \in Nat /\ n \in Nat /\ i \in 0 .. m - 1 /\ j \in 0 .. n - 1
        /\ rows \in 1 .. m - i /\ cols \in 1 .. n - j /\ g \in Nat
    BY <1>2, <1>4, <1>5
  <2> HIDE DEF rows, cols, m, n
  <2> QED BY <2>1
<1>9. CASE LastColumns /\ LastRows
  <2>1. j' = 0 /\ i' = 0 /\ g' = g + 1
    BY <1>1, <1>9
  <2>2. DOMAIN output \subseteq 0 .. (g + 1) * s.m * N(s) - 1
    BY MadeInGroup
  <2>3. Writes \subseteq 0 .. (g + 1) * s.m * N(s) - 1
    <3> DEFINE u == g * m * n
               v == (g + 1) * m * n
    <3>1. u \in Nat /\ v \in Nat
      <4> HIDE DEF m, n
      <4> QED BY <1>8
    <3>2. Writes \subseteq u .. v - 1
      BY <1>7
    <3> HIDE DEF u, v
    <3>3. Writes \subseteq 0 .. v - 1
      <4>1. \A w \in u .. v - 1 : w \in 0 .. v - 1
        BY <3>1
      <4> QED BY <3>2, <4>1, Zenon
    <3> QED BY <3>3 DEF v
  <2>4. DOMAIN output' \subseteq 0 .. g' * s'.m * N(s') - 1
    <3>1. DOMAIN output' \subseteq 0 .. (g + 1) * s.m * N(s) - 1
      BY <1>6, <2>2, <2>3, Zenon
    <3> QED BY <1>1, <2>1, <3>1, Zenon
  <2>5. g' \in 0 .. s'.group /\ i' \in 0 .. s'.m - 1 /\ j' \in 0 .. N(s') - 1
    <3>1. g < s.group
      BY <1>1 DEF Running
    <3>2. g + 1 \in 0 .. s.group /\ 0 \in 0 .. s.m - 1 /\ 0 \in 0 .. N(s) - 1
      BY <1>2, <1>4, <3>1
    <3> QED BY <1>1, <2>1, <3>2, Zenon
  <2>6. s' \in Shape
    BY <1>1, <1>2
  <2> QED BY <2>4, <2>5, <2>6, Zenon DEF ConvInv
<1>10. CASE ~(LastColumns /\ LastRows)
  <2>1. g' = g /\ s' = s
    BY <1>1, <1>10
  <2>2. i' \in 0 .. m - 1 /\ j' \in 0 .. n - 1
        /\ \A a \in 0 .. m - 1, b \in 0 .. n - 1 :
             (a < i + rows /\ (a < i \/ b < j + cols)) => a < i' \/ (i' = i /\ a < i + rows /\ b < j')
    <3>1. CASE LastColumns
      <4>1. i' = i + rows /\ j' = 0 /\ i + rows # m
        BY <1>1, <1>10, <3>1 DEF LastRows
      <4> HIDE DEF rows, cols, m, n
      <4> QED BY <1>8, <4>1
    <3>2. CASE ~LastColumns
      <4>1. i' = i /\ j' = j + cols /\ j + cols # n
        BY <1>1, <3>2 DEF LastColumns
      <4> HIDE DEF rows, cols, m, n
      <4> QED BY <1>8, <4>1
    <3> QED BY <3>1, <3>2
  <2>3. ASSUME NEW a \in 0 .. m - 1, NEW b \in 0 .. n - 1,
               a < i + rows, a < i \/ b < j + cols
        PROVE  CellAt(s, g, a, b) \in Made'
    <3>1. a < i' \/ (i' = i /\ a < i + rows /\ b < j')
      BY <2>2, <2>3
    <3>2. i' = i => Rows' = Rows
      BY <2>1, Zenon DEF Rows
    <3>3. a < i' \/ (a < i' + Rows' /\ b < j')
      BY <3>1, <3>2, Zenon
    <3>4. <<a, b>> \in {z \in (0 .. s'.m - 1) \X (0 .. N(s') - 1) : z[1] < i' \/ (z[1] < i' + Rows' /\ z[2] < j')}
      <4>1. <<a, b>> \in (0 .. s'.m - 1) \X (0 .. N(s') - 1) /\ <<a, b>>[1] = a /\ <<a, b>>[2] = b
        <5>1. s'.m = m /\ N(s') = n
          BY <2>1, Zenon
        <5> HIDE DEF m, n
        <5> QED BY <5>1
      <4> QED BY <3>3, <4>1, Zenon
    <3>5. CellAt(s, g, a, b) = CellAt(s', g', <<a, b>>[1], <<a, b>>[2])
      BY <2>1
    <3> QED BY <3>4, <3>5 DEF Made
  <2>4. Writes \subseteq Made'
    <3> SUFFICES ASSUME NEW w \in Writes PROVE w \in Made'
      OBVIOUS
    <3>1. PICK r \in 0 .. rows - 1, x \in 0 .. cols - 1 : w = CellAt(s, g, i + r, j + x)
      BY <1>7
    <3>2. i + r \in 0 .. m - 1 /\ j + x \in 0 .. n - 1 /\ i + r < i + rows /\ j + x < j + cols
      <4> HIDE DEF rows, cols, m, n
      <4> QED BY <1>8
    <3> QED BY <2>3, <3>1, <3>2, Zenon
  <2>5. Made \subseteq Made'
    <3> SUFFICES ASSUME NEW w \in Made PROVE w \in Made'
      OBVIOUS
    <3>1. PICK a \in 0 .. m - 1, b \in 0 .. n - 1 :
            w = CellAt(s, g, a, b) /\ (a < i \/ (a < i + rows /\ b < j))
      BY DEF Made
    <3>2. a < i + rows /\ (a < i \/ b < j + cols)
      <4> HIDE DEF rows, cols, m, n
      <4> QED BY <1>8, <3>1
    <3> QED BY <2>3, <3>1, <3>2, Zenon
  <2>6. DOMAIN output' \subseteq (0 .. g' * s'.m * N(s') - 1) \cup Made'
    <3>1. DOMAIN output' \subseteq (0 .. g * s.m * N(s) - 1) \cup Made'
      BY <1>2, <1>6, <2>4, <2>5, Zenon
    <3> QED BY <2>1, <3>1, Zenon
  <2>7. s' \in Shape /\ g' \in 0 .. s'.group /\ i' \in 0 .. s'.m - 1 /\ j' \in 0 .. N(s') - 1
    BY <1>2, <2>1, <2>2, Zenon
  <2> QED BY <2>6, <2>7, Zenon DEF ConvInv
<1> QED BY <1>9, <1>10

LEMMA ConvStep == ASSUME ConvInv, [ConvNext]_convVars PROVE ConvInv'
<1>1. ASSUME NEW o \in Op, Init2d(o) PROVE ConvInv'
  <2>1. UNCHANGED <<s, g, i, j, output>>
    BY <1>1 DEF Init2d
  <2> QED BY <2>1, LoopsUnchanged
<1>2. ASSUME NEW o \in Op, Conv2d(o) PROVE ConvInv'
  <2>1. s' = s /\ (Winograd2d(o) \/ Gemm2d(o))
    BY <1>2 DEF Conv2d
  <2>2. CASE Winograd2d(o)
    <3>1. UNCHANGED <<s, g, i, j, output>>
      BY <2>1, <2>2 DEF Winograd2d
    <3> QED BY <3>1, LoopsUnchanged
  <2>3. CASE Gemm2d(o)
    BY <2>1, <2>3, CallInv
  <2> QED BY <2>1, <2>2, <2>3
<1>3. CASE Tile
  BY <1>3, TileStepInv
<1>4. CASE SkipGroup
  BY <1>4, SkipInv
<1>5. CASE Return
  <2>1. UNCHANGED <<s, g, i, j, output>>
    BY <1>5 DEF Return
  <2> QED BY <2>1, LoopsUnchanged
<1>6. CASE UNCHANGED convVars
  <2>1. UNCHANGED <<s, g, i, j, output>>
    BY <1>6 DEF convVars
  <2> QED BY <2>1, LoopsUnchanged
<1> QED BY <1>1, <1>2, <1>3, <1>4, <1>5, <1>6, Zenon DEF ConvNext

(* Whatever the shape of the convolution, the loops over rows and columns of  *)
(* the multiplications read inside the packed kernel of the group and inside  *)
(* the packed image, and write each output of the group once and no other.    *)
THEOREM TilesStayInside == ConvSpec => []TilesInside
<1>1. ConvInv => TilesInside
  BY TileInv, Zenon DEF TilesInside
<1> QED
  BY <1>1, ConvInitInv, ConvStep, PTL DEF ConvSpec

-----------------------------------------------------------------------------
(* The blocks of several widths: where they start is reached from 0 by       *)
(* going past one block after the other.                                     *)
Past(widths, n, a) == a + Widest(widths, n - a)
GoesOn(widths, n, A) == \A x \in A : x < n => Past(widths, n, x) \in A
Reached(widths, n, from) ==
  {c \in 0 .. n - 1 : \A A \in SUBSET (0 .. n) : from \in A /\ GoesOn(widths, n, A) => c \in A}
Starts(widths, n) == Reached(widths, n, 0)
BlockAt(widths, n, a) == [start |-> a, width |-> Widest(widths, n - a)]

LEMMA PastFits ==
  ASSUME NEW widths, widths \subseteq Nat \ {0}, NEW n \in Nat, NEW a \in 0 .. n - 1
  PROVE  /\ Past(widths, n, a) \in a + 1 .. n /\ Past(widths, n, a) \in 0 .. n
         /\ Widest(widths, n - a) \in 1 .. n - a
<1>1. n - a \in Nat \ {0}
  OBVIOUS
<1>2. Widest(widths, n - a) \in 1 .. n - a
  BY <1>1, WidestFits
<1> DEFINE w == Widest(widths, n - a)
<1>3. w \in 1 .. n - a
  BY <1>2
<1> HIDE DEF w
<1>4. a + w \in a + 1 .. n /\ a + w \in 0 .. n
  BY <1>3
<1> QED
  BY <1>2, <1>4 DEF Past, w

LEMMA ReachedStep ==
  ASSUME NEW widths, widths \subseteq Nat \ {0}, NEW n \in Nat
  PROVE  /\ Reached(widths, n, n) = {}
         /\ \A a \in 0 .. n - 1 : Reached(widths, n, a) = {a} \cup Reached(widths, n, Past(widths, n, a))
         /\ \A a \in 0 .. n : \A c \in Reached(widths, n, a) : c \in a .. n - 1
<1>1. Reached(widths, n, n) = {}
  <2> SUFFICES ASSUME NEW c \in Reached(widths, n, n) PROVE FALSE
    OBVIOUS
  <2>1. {n} \in SUBSET (0 .. n) /\ n \in {n} /\ GoesOn(widths, n, {n})
    BY DEF GoesOn
  <2>2. c \in {n} /\ c \in 0 .. n - 1
    BY <2>1 DEF Reached
  <2> QED
    BY <2>2
<1>2. ASSUME NEW a \in 0 .. n - 1
      PROVE  Reached(widths, n, a) = {a} \cup Reached(widths, n, Past(widths, n, a))
  <2>1. Past(widths, n, a) \in 0 .. n /\ a \in 0 .. n /\ a < n
    <3>1. Past(widths, n, a) \in 0 .. n
      BY PastFits
    <3> QED
      BY <3>1
  <2>2. a \in Reached(widths, n, a)
    BY DEF Reached
  <2>3. ASSUME NEW c \in Reached(widths, n, Past(widths, n, a)) PROVE c \in Reached(widths, n, a)
    <3>1. c \in 0 .. n - 1
      BY DEF Reached
    <3>2. ASSUME NEW A \in SUBSET (0 .. n), a \in A, GoesOn(widths, n, A) PROVE c \in A
      <4>1. Past(widths, n, a) \in A
        BY <2>1, <3>2 DEF GoesOn
      <4> QED
        BY <3>2, <4>1 DEF Reached
    <3> QED
      BY <3>1, <3>2 DEF Reached
  <2>4. ASSUME NEW c \in Reached(widths, n, a), c # a PROVE c \in Reached(widths, n, Past(widths, n, a))
    <3>1. c \in 0 .. n - 1
      BY DEF Reached
    <3>2. ASSUME NEW A \in SUBSET (0 .. n), Past(widths, n, a) \in A, GoesOn(widths, n, A) PROVE c \in A
      <4>1. A \cup {a} \in SUBSET (0 .. n) /\ a \in A \cup {a} /\ GoesOn(widths, n, A \cup {a})
        BY <2>1, <3>2 DEF GoesOn
      <4>2. c \in A \cup {a}
        BY <4>1 DEF Reached
      <4> QED
        BY <2>4, <4>2
    <3> QED
      BY <3>1, <3>2 DEF Reached
  <2> QED
    BY <2>2, <2>3, <2>4
<1>3. ASSUME NEW a \in 0 .. n, NEW c \in Reached(widths, n, a) PROVE c \in a .. n - 1
  <2> DEFINE A == a .. n
  <2>1. A \in SUBSET (0 .. n) /\ a \in A
    OBVIOUS
  <2>2. GoesOn(widths, n, A)
    <3> SUFFICES ASSUME NEW x \in A, x < n PROVE Past(widths, n, x) \in A
      BY DEF GoesOn
    <3>1. x \in 0 .. n - 1
      OBVIOUS
    <3>2. Past(widths, n, x) \in x + 1 .. n
      BY <3>1, PastFits
    <3> QED
      BY <3>2
  <2>3. c \in A /\ c \in 0 .. n - 1
    BY <2>1, <2>2 DEF Reached
  <2> QED
    BY <2>3
<1> QED
  BY <1>1, <1>2, <1>3

LEMMA BlocksReached ==
  ASSUME NEW widths, widths \subseteq Nat \ {0}, NEW n \in Nat
  PROVE  Blocks(widths, n) = {BlockAt(widths, n, a) : a \in Starts(widths, n)}
<1> DEFINE Body(f, a) == IF a = n THEN {}
                         ELSE {BlockAt(widths, n, a)} \cup f[Past(widths, n, a)]
           B(a) == {BlockAt(widths, n, c) : c \in Reached(widths, n, a)}
           h == [a \in 0 .. n |-> B(a)]
           it == CHOOSE f : f = [a \in 0 .. n |-> Body(f, a)]
<1>1. Blocks(widths, n) = it[0]
  BY Zenon DEF Blocks, BlockAt, Past
<1>2. ASSUME NEW a \in 0 .. n PROVE h[a] = Body(h, a) /\ B(a) = Body(h, a)
  <2>1. CASE a = n
    BY <2>1, ReachedStep
  <2>2. CASE a # n
    <3>1. a \in 0 .. n - 1
      BY <2>2
    <3>2. Reached(widths, n, a) = {a} \cup Reached(widths, n, Past(widths, n, a))
      <4>1. \A c \in 0 .. n - 1 : Reached(widths, n, c) = {c} \cup Reached(widths, n, Past(widths, n, c))
        BY ReachedStep
      <4> QED
        BY <3>1, <4>1, Zenon
    <3>3. Past(widths, n, a) \in 0 .. n
      BY <3>1, PastFits
    <3>4. B(a) = {BlockAt(widths, n, a)} \cup B(Past(widths, n, a))
      BY <3>2
    <3> HIDE DEF B
    <3> QED
      BY <2>2, <3>3, <3>4, Zenon
  <2> QED
    BY <2>1, <2>2
<1>3. h = [a \in 0 .. n |-> Body(h, a)]
  <2> HIDE DEF Body
  <2> QED
    BY <1>2
<1>4. it = [a \in 0 .. n |-> Body(it, a)]
  <2> HIDE DEF h, Body
  <2> QED
    BY <1>3
<1>5. \A a \in 0 .. n : it[a] = Body(it, a)
  <2> HIDE DEF it, Body
  <2> QED
    BY <1>4
<1>6. \A a \in 0 .. n : B(a) = Body(h, a) /\ h[a] = B(a)
  BY <1>2
<1> HIDE DEF it, B
<1> DEFINE T == {d \in 0 .. n : \A a \in n - d .. n : it[a] = B(a)}
<1>7. 0 \in T
  <2>1. ASSUME NEW a \in n - 0 .. n PROVE it[a] = B(a)
    <3>1. a = n /\ n \in 0 .. n
      OBVIOUS
    <3>2. it[n] = {} /\ B(n) = {}
      BY <1>5, <1>6, <3>1, Zenon
    <3> QED
      BY <3>1, <3>2, Zenon
  <2> QED
    BY <2>1
<1>8. ASSUME NEW d \in 0 .. n - 1, d \in T PROVE d + 1 \in T
  <2>1. ASSUME NEW a \in n - (d + 1) .. n PROVE it[a] = B(a)
    <3>1. CASE a \in n - d .. n
      BY <1>8, <3>1
    <3>2. CASE a \notin n - d .. n
      <4>1. a \in 0 .. n - 1 /\ a \in 0 .. n /\ a # n /\ a + 1 = n - d
        BY <3>2
      <4> DEFINE nx == Past(widths, n, a)
      <4>2. nx \in a + 1 .. n /\ nx \in 0 .. n
        <5>1. a \in 0 .. n - 1
          BY <4>1
        <5> QED
          BY <5>1, PastFits
      <4>3. it[a] = {BlockAt(widths, n, a)} \cup it[nx]
        BY <1>5, <4>1
      <4>4. B(a) = {BlockAt(widths, n, a)} \cup B(nx)
        BY <1>6, <4>1, <4>2
      <4> HIDE DEF nx
      <4>5. it[nx] = B(nx)
        <5>1. nx \in n - d .. n
          BY <4>1, <4>2
        <5> QED
          BY <1>8, <5>1
      <4> QED
        BY <4>3, <4>4, <4>5
    <3> QED
      BY <3>1, <3>2
  <2> QED
    BY <2>1
<1>9. n \in T
  <2> HIDE DEF T
  <2> QED
    BY <1>7, <1>8, Counting
<1>10. it[0] = B(0)
  BY <1>9
<1> QED
  BY <1>1, <1>10 DEF B, Starts

(* Blocks do not overlap: in each there is one start. *)
LEMMA StartsApart ==
  ASSUME NEW widths, widths \subseteq Nat \ {0}, NEW n \in Nat
  PROVE  \A a, c \in Starts(widths, n) : a < c => Past(widths, n, a) <= c
<1> DEFINE InOrder(x) == \A a, c \in Reached(widths, n, x) : a < c => Past(widths, n, a) <= c
           T == {d \in 0 .. n : \A x \in n - d .. n : InOrder(x)}
<1>1. 0 \in T
  <2>1. \A x \in n - 0 .. n : x = n
    OBVIOUS
  <2>2. InOrder(n)
    BY ReachedStep
  <2> HIDE DEF InOrder
  <2> QED
    BY <2>1, <2>2
<1>2. ASSUME NEW d \in 0 .. n - 1, d \in T PROVE d + 1 \in T
  <2>1. ASSUME NEW x \in n - (d + 1) .. n, x \notin n - d .. n PROVE InOrder(x)
    <3>1. x \in 0 .. n - 1 /\ x + 1 = n - d
      BY <2>1
    <3> DEFINE nx == Past(widths, n, x)
    <3>2. Reached(widths, n, x) = {x} \cup Reached(widths, n, nx)
      <4>1. \A c \in 0 .. n - 1 : Reached(widths, n, c) = {c} \cup Reached(widths, n, Past(widths, n, c))
        BY ReachedStep
      <4> QED
        BY <3>1, <4>1, Zenon
    <3>3. nx \in x + 1 .. n /\ nx \in 0 .. n
      BY <3>1, PastFits
    <3> HIDE DEF nx
    <3>4. \A c \in Reached(widths, n, nx) : c \in nx .. n - 1
      BY <3>3, ReachedStep
    <3>5. InOrder(nx)
      <4>1. nx \in n - d .. n
        BY <3>1, <3>3
      <4> HIDE DEF InOrder
      <4> QED
        BY <1>2, <4>1
    <3> SUFFICES ASSUME NEW a \in Reached(widths, n, x), NEW c \in Reached(widths, n, x), a < c
                 PROVE  Past(widths, n, a) <= c
      OBVIOUS
    <3>6. CASE a = x
      <4>1. c \in Reached(widths, n, nx)
        BY <3>2, <3>6
      <4> QED
        BY <3>1, <3>3, <3>4, <3>6, <4>1 DEF nx
    <3>7. CASE a # x /\ c # x
      BY <3>2, <3>5, <3>7
    <3>8. CASE a # x /\ c = x
      BY <3>1, <3>2, <3>3, <3>4, <3>8
    <3> QED
      BY <3>6, <3>7, <3>8
  <2> HIDE DEF InOrder
  <2>2. \A x \in n - (d + 1) .. n : InOrder(x)
    BY <1>2, <2>1
  <2> QED
    BY <2>2
<1>3. n \in T
  <2> HIDE DEF T
  <2> QED
    BY <1>1, <1>2, Counting
<1>4. InOrder(0)
  <2> HIDE DEF InOrder
  <2> QED
    BY <1>3
<1> QED
  BY <1>4 DEF Starts

LEMMA StartsFacts ==
  ASSUME NEW widths, widths \subseteq Nat \ {0}, NEW n \in Nat
  PROVE  /\ n > 0 => 0 \in Starts(widths, n)
         /\ \A a \in Starts(widths, n) :
              /\ a \in 0 .. n - 1
              /\ Widest(widths, n - a) \in 1 .. n - a
              /\ a + Widest(widths, n - a) < n => a + Widest(widths, n - a) \in Starts(widths, n)
<1>1. n > 0 => 0 \in Starts(widths, n)
  BY DEF Starts, Reached
<1>2. \A a \in Starts(widths, n) : a \in 0 .. n - 1
  BY DEF Starts, Reached
<1>3. ASSUME NEW a \in Starts(widths, n), Past(widths, n, a) < n
      PROVE  Past(widths, n, a) \in Starts(widths, n)
  <2>1. a \in 0 .. n - 1
    BY <1>2
  <2>2. a < n /\ Past(widths, n, a) \in 0 .. n - 1
    <3>1. Past(widths, n, a) \in 0 .. n
      BY <2>1, PastFits
    <3> DEFINE nx == Past(widths, n, a)
    <3>2. nx \in 0 .. n /\ nx < n
      BY <1>3, <3>1
    <3> HIDE DEF nx
    <3>3. nx \in 0 .. n - 1
      BY <3>2
    <3> QED
      BY <2>1, <3>3 DEF nx
  <2>3. ASSUME NEW A \in SUBSET (0 .. n), 0 \in A, GoesOn(widths, n, A) PROVE Past(widths, n, a) \in A
    <3>1. a \in A
      BY <2>3 DEF Starts, Reached
    <3> QED
      BY <2>2, <2>3, <3>1 DEF GoesOn
  <2> QED
    BY <2>2, <2>3 DEF Starts, Reached
<1>4. \A a \in Starts(widths, n) : Widest(widths, n - a) \in 1 .. n - a
  BY <1>2, PastFits
<1> QED
  BY <1>1, <1>2, <1>3, <1>4, Zenon DEF Past

(* The block of a place is that of the last start before it. *)
LEMMA BlockHere ==
  ASSUME NEW widths, widths \subseteq Nat \ {0}, NEW n \in Nat, NEW a \in Starts(widths, n),
         NEW t \in a .. a + Widest(widths, n - a) - 1
  PROVE  BlockOf(Blocks(widths, n), t) = BlockAt(widths, n, a)
<1> DEFINE Covered(b) == t \in b.start .. b.start + b.width - 1
           b == BlockOf(Blocks(widths, n), t)
<1>1. \A c : BlockAt(widths, n, c).start = c /\ BlockAt(widths, n, c).width = Widest(widths, n - c)
  BY DEF BlockAt
<1>2. Covered(BlockAt(widths, n, a)) /\ BlockAt(widths, n, a) \in Blocks(widths, n)
  BY <1>1, BlocksReached
<1>3. b \in Blocks(widths, n) /\ Covered(b)
  <2>1. b = CHOOSE x \in Blocks(widths, n) : Covered(x)
    BY Zenon DEF BlockOf
  <2> HIDE DEF Covered, b
  <2> QED
    BY <1>2, <2>1
<1>4. PICK c \in Starts(widths, n) : b = BlockAt(widths, n, c)
  <2>1. b \in {BlockAt(widths, n, d) : d \in Starts(widths, n)}
    BY <1>3, BlocksReached, Zenon
  <2> HIDE DEF b
  <2> QED
    BY <2>1
<1>5. t \in c .. c + Widest(widths, n - c) - 1
  BY <1>1, <1>3, <1>4, Zenon
<1> HIDE DEF b
<1> DEFINE u == Widest(widths, n - a)
           v == Widest(widths, n - c)
<1>6. a \in Nat /\ c \in Nat /\ u \in Nat /\ v \in Nat
  <2>1. a \in 0 .. n - 1 /\ c \in 0 .. n - 1 /\ u \in 1 .. n - a /\ v \in 1 .. n - c
    BY StartsFacts
  <2> HIDE DEF u, v
  <2> QED
    BY <2>1
<1>7. (a < c => a + u <= c) /\ (c < a => c + v <= a)
  BY StartsApart DEF Past
<1>8. t \in a .. a + u - 1 /\ t \in c .. c + v - 1
  BY <1>5
<1>9. a = c
  <2> HIDE DEF u, v
  <2> QED
    BY <1>6, <1>7, <1>8
<1> QED
  BY <1>4, <1>9, Zenon DEF b

(* Rows of a width, one after the other: the row of a place, and where in it. *)
LEMMA Divided ==
  ASSUME NEW w \in Nat \ {0}, NEW t \in Nat
  PROVE  /\ t \div w \in Nat /\ t % w \in 0 .. w - 1 /\ t = (t \div w) * w + (t % w)
         /\ \A q0 \in Nat : t < q0 * w => t \div w < q0
<1> DEFINE q == t \div w
           r == t % w
<1>1. r \in 0 .. w - 1
  OBVIOUS
<1>2. t = w * q + r /\ q \in Int
  OBVIOUS
<1> HIDE DEF q, r
<1>3. q \in Nat
  <2> SUFFICES ASSUME q <= -1 PROVE FALSE
    BY <1>2
  <2>1. PICK d \in Nat : q = -1 - d
    <3>1. -1 - q \in Nat /\ q = -1 - (-1 - q)
      BY <1>2
    <3> QED
      BY <3>1
  <2>2. w * q = -w - w * d /\ w * d \in Nat
    BY <2>1
  <2> QED
    BY <1>1, <1>2, <2>2
<1>4. w * q = q * w
  BY <1>3
<1>5. ASSUME NEW q0 \in Nat, t < q0 * w PROVE q < q0
  <2> SUFFICES ASSUME q0 <= q PROVE FALSE
    BY <1>3
  <2>1. PICK d \in Nat : q = q0 + d
    <3>1. q - q0 \in Nat /\ q = q0 + (q - q0)
      BY <1>3
    <3> QED
      BY <3>1
  <2>2. q * w = q0 * w + d * w /\ d * w \in Nat /\ q0 * w \in Nat
    BY <2>1
  <2> QED
    BY <1>1, <1>2, <1>4, <1>5, <2>2
<1> QED
  BY <1>1, <1>2, <1>3, <1>4, <1>5 DEF q, r

LEMMA RowAndLane ==
  ASSUME NEW w \in Nat \ {0}, NEW q0 \in Nat, NEW l \in 0 .. w - 1
  PROVE  (q0 * w + l) \div w = q0 /\ (q0 * w + l) % w = l
<1> DEFINE x == q0 * w + l
           q == x \div w
           r == x % w
<1>1. x \in Nat
  <2>1. q0 * w \in Nat
    OBVIOUS
  <2> QED
    BY <2>1
<1>2. q \in Nat /\ r \in 0 .. w - 1 /\ q * w + r = q0 * w + l
  <2>1. x = q0 * w + l
    OBVIOUS
  <2> HIDE DEF x
  <2>2. q \in Nat /\ r \in 0 .. w - 1 /\ x = q * w + r
    BY <1>1, Divided
  <2> QED
    BY <2>1, <2>2, Zenon
<1> HIDE DEF q, r
<1>3. q = q0 /\ r = l
  BY <1>2, RowsApart
<1> QED
  BY <1>3 DEF q, r

(* A block of a layout holds whole elements. *)
LEMMA BlockPart ==
  ASSUME NEW st \in Nat, NEW w \in Nat \ {0}, NEW size \in Nat \ {0}, NEW pos \in 0 .. size - 1,
         NEW lane \in 0 .. w - 1
  PROVE  /\ pos * w + lane \in Nat
         /\ (st * size + pos * w + lane) \div size \in st .. st + w - 1
         /\ (st * size + pos * w + lane) - st * size = pos * w + lane
<1> DEFINE t == st * size + pos * w + lane
           a == st * size
           c == pos * w
           b == (st + w) * size
<1>1. t \in a .. b - 1 /\ a \in Nat /\ c \in Nat /\ b \in Nat
  BY LaneArithmetic
<1>2. t \in Nat /\ t < b /\ t - a = c + lane /\ c + lane \in Nat /\ t >= a
  <2>1. t = a + c + lane
    OBVIOUS
  <2> HIDE DEF t, a, b, c
  <2> QED
    BY <1>1, <2>1
<1>3. t \div size \in Nat /\ t \div size < st + w
  <2>1. st + w \in Nat
    OBVIOUS
  <2> HIDE DEF t
  <2> QED
    BY <1>2, <2>1, Divided
<1>4. t \div size >= st
  <2> DEFINE q == t \div size
             r == t % size
  <2>1. q \in Nat /\ r \in 0 .. size - 1 /\ t = q * size + r
    <3> HIDE DEF t
    <3> QED
      BY <1>2, Divided
  <2> SUFFICES ASSUME q < st PROVE FALSE
    BY <2>1
  <2> HIDE DEF q, r
  <2>2. PICK d \in Nat : st = q + 1 + d
    <3>1. st - (q + 1) \in Nat /\ st = q + 1 + (st - (q + 1))
      BY <2>1
    <3> QED
      BY <3>1
  <2>3. a = q * size + size + d * size /\ d * size \in Nat /\ q * size \in Nat
    BY <2>1, <2>2
  <2> QED
    <3> HIDE DEF t, a
    <3> QED
      BY <1>2, <2>1, <2>3
<1>5. t \div size \in st .. st + w - 1
  <2> DEFINE q == t \div size
  <2>1. q \in Nat /\ q < st + w /\ q >= st
    BY <1>3, <1>4
  <2> HIDE DEF q
  <2>2. q \in st .. st + w - 1
    BY <2>1
  <2> QED
    BY <2>2 DEF q
<1> QED
  BY <1>2, <1>5

(* What is in a layout at the place of an element is that element ... *)
LEMMA LaneStart ==
  ASSUME NEW pack \in Nat \ {0}, NEW n \in Nat, NEW ch \in 0 .. n - 1
  PROVE  Start(pack, n, ch) \in Starts({pack}, n)
<1>1. /\ \E q \in Nat : Start(pack, n, ch) = q * pack
      /\ Start(pack, n, ch) \in 0 .. ch
  BY BlockFacts
<1> DEFINE st == Start(pack, n, ch)
<1>2. st \in 0 .. n - 1 /\ \E q \in Nat : st = 0 + q * pack
  <2>1. PICK q \in Nat : st = q * pack
    BY <1>1
  <2>2. st \in 0 .. ch
    BY <1>1
  <2> HIDE DEF st
  <2>3. st = 0 + q * pack /\ st \in 0 .. n - 1
    BY <2>1, <2>2
  <2> QED
    BY <2>3
<1> HIDE DEF st
<1>3. BlockFrom(pack, n, st) \in Blocks({pack}, n)
  BY <1>2, BlocksAre DEF BlocksOf
<1>4. {pack} \subseteq Nat \ {0}
  OBVIOUS
<1>5. PICK a \in Starts({pack}, n) : BlockFrom(pack, n, st) = BlockAt({pack}, n, a)
  <2>1. Blocks({pack}, n) = {BlockAt({pack}, n, a) : a \in Starts({pack}, n)}
    BY <1>4, BlocksReached
  <2> QED
    BY <1>3, <2>1, Zenon
<1>6. BlockFrom(pack, n, st).start = st /\ BlockAt({pack}, n, a).start = a
  BY DEF BlockFrom, BlockAt
<1>7. st = a
  BY <1>5, <1>6, Zenon
<1> QED
  BY <1>7 DEF st

LEMMA LaneBack ==
  ASSUME NEW pack \in Nat \ {0}, NEW n \in Nat, NEW size \in Nat \ {0},
         NEW ch \in 0 .. n - 1, NEW pos \in 0 .. size - 1
  PROVE  Lane(pack, n, size, LaneAt(pack, n, size, ch, pos)) = [ch |-> ch, pos |-> pos]
<1> DEFINE st == Start(pack, n, ch)
           w  == Width(pack, n - st)
           lane == ch - st
           t == LaneAt(pack, n, size, ch, pos)
           b == BlockOf(Blocks({pack}, n), t \div size)
           o == t - b.start * size
<1>1. /\ t = st * size + pos * w + lane
      /\ st \in 0 .. ch /\ w \in Nat /\ w <= pack /\ st + w <= n
      /\ lane \in 0 .. w - 1
  BY LaneIs
<1>2. {pack} \subseteq Nat \ {0} /\ st \in Starts({pack}, n)
  BY LaneStart
<1>3. w = Widest({pack}, n - st)
  BY DEF Width
<1>4. st \in Nat /\ w \in Nat \ {0} /\ ch = st + lane
  <2>1. st \in 0 .. ch /\ w \in Nat /\ lane \in 0 .. w - 1 /\ lane = ch - st
    BY <1>1
  <2> HIDE DEF st, w, lane
  <2> QED
    BY <2>1
<1>5. t \div size \in st .. st + w - 1 /\ t - st * size = pos * w + lane
  <2>1. lane \in 0 .. w - 1
    BY <1>1
  <2> HIDE DEF st, w, lane
  <2>2. /\ (st * size + pos * w + lane) \div size \in st .. st + w - 1
        /\ (st * size + pos * w + lane) - st * size = pos * w + lane
    BY <1>4, <2>1, BlockPart
  <2> HIDE DEF t
  <2>3. t = st * size + pos * w + lane
    BY <1>1 DEF t, st, w, lane
  <2> QED
    BY <2>2, <2>3
<1>6. b = BlockAt({pack}, n, st)
  <2> HIDE DEF st, t
  <2> QED
    BY <1>2, <1>3, <1>5, BlockHere
<1>7. b.start = st /\ b.width = w
  <2>1. BlockAt({pack}, n, st).start = st /\ BlockAt({pack}, n, st).width = Widest({pack}, n - st)
    BY DEF BlockAt
  <2> QED
    BY <1>3, <1>6, <2>1, Zenon
<1>8. o = pos * w + lane
  BY <1>5, <1>7, Zenon
<1>9. o \div w = pos /\ o % w = lane
  <2>1. lane \in 0 .. w - 1 /\ pos \in Nat
    BY <1>1
  <2> HIDE DEF st, w, lane, o
  <2> QED
    BY <1>4, <1>8, <2>1, RowAndLane
<1>10. Lane(pack, n, size, t) = [ch |-> b.start + (o % b.width), pos |-> o \div b.width]
  BY Zenon DEF Lane
<1> QED
  BY <1>4, <1>7, <1>9, <1>10, Zenon

(* ... and every place holds the element of its own. *)
LEMMA LaneOf ==
  ASSUME NEW pack \in Nat \ {0}, NEW n \in Nat, NEW size \in Nat \ {0}, NEW t \in 0 .. n * size - 1
  PROVE  /\ Lane(pack, n, size, t).ch \in 0 .. n - 1
         /\ Lane(pack, n, size, t).pos \in 0 .. size - 1
         /\ LaneAt(pack, n, size, Lane(pack, n, size, t).ch, Lane(pack, n, size, t).pos) = t
<1> DEFINE d == t \div size
           st == Start(pack, n, d)
           w  == Width(pack, n - st)
           b == BlockOf(Blocks({pack}, n), d)
           o == t - b.start * size
           y == t - st * size
           ch == st + (y % w)
           pos == y \div w
<1>1. d \in 0 .. n - 1 /\ t \in Nat /\ t % size \in 0 .. size - 1 /\ t = d * size + (t % size)
  <2>1. n * size \in Nat
    OBVIOUS
  <2>2. t \in Nat /\ t < n * size
    BY <2>1
  <2>3. d \in Nat /\ d < n /\ t % size \in 0 .. size - 1 /\ t = d * size + (t % size)
    BY <2>2, Divided
  <2> HIDE DEF d
  <2> QED
    BY <2>2, <2>3
<1> HIDE DEF d
<1>2. /\ st \in 0 .. d /\ w \in Nat /\ d < st + w /\ b.start = st /\ b.width = w
      /\ st + w <= n
  <2>1. st \in 0 .. d /\ d < st + w /\ b.width = w
    BY <1>1, BlockFacts
  <2>2. 0 \in 0 .. size - 1
    OBVIOUS
  <2>3. w \in Nat /\ st + w <= n
    BY <1>1, <2>2, LaneIs
  <2> QED
    BY <2>1, <2>3, Zenon DEF Start
<1>3. {pack} \subseteq Nat \ {0} /\ st \in Starts({pack}, n) /\ w = Widest({pack}, n - st)
  BY <1>1, LaneStart DEF Width
<1>4. st \in Nat /\ w \in Nat \ {0} /\ d \in Nat
  <2> HIDE DEF st, w
  <2> QED
    BY <1>1, <1>2
<1>5. y \in Nat /\ y < size * w
  <2>1. PICK e \in Nat : d = st + e /\ e + 1 <= w
    <3>1. d - st \in Nat /\ d = st + (d - st) /\ (d - st) + 1 <= w
      <4> HIDE DEF st, w
      <4> QED
        BY <1>1, <1>2, <1>4
    <3> QED
      BY <3>1
  <2>2. d * size = st * size + e * size
    <3> HIDE DEF st
    <3> QED
      BY <1>4, <2>1
  <2>3. e * size + size <= size * w
    <3>1. PICK f \in Nat : w = (e + 1) + f
      <4>1. w - (e + 1) \in Nat /\ w = (e + 1) + (w - (e + 1))
        <5> HIDE DEF w
        <5> QED
          BY <1>4, <2>1
      <4> QED
        BY <4>1
    <3>2. size * w = e * size + size + f * size /\ f * size \in Nat /\ e * size \in Nat
      <4> HIDE DEF w
      <4> QED
        BY <3>1
    <3> QED
      <4> HIDE DEF w
      <4> QED
        BY <3>2
  <2> DEFINE u == st * size
             v == e * size
             x == size * w
             r == t % size
  <2>4. u \in Nat /\ v \in Nat /\ x \in Nat /\ v + size <= x /\ r \in 0 .. size - 1 /\ t = u + v + r
    <3>1. t = d * size + r /\ r \in 0 .. size - 1
      BY <1>1
    <3>2. u \in Nat /\ v \in Nat /\ x \in Nat
      <4> HIDE DEF st, w
      <4> QED
        BY <1>4, <2>1
    <3>3. v + size <= x /\ d * size = u + v
      BY <2>2, <2>3
    <3> HIDE DEF u, v, x, r
    <3> QED
      BY <3>1, <3>2, <3>3
  <2>5. t - u \in Nat /\ t - u < x
    <3> HIDE DEF u, v, x, r
    <3> QED
      BY <2>4
  <2> QED
    BY <2>5
<1> HIDE DEF st, w, b
<1>6. /\ y % w \in 0 .. w - 1 /\ pos \in Nat /\ y = pos * w + (y % w) /\ pos < size
  <2> HIDE DEF y
  <2> QED
    BY <1>4, <1>5, Divided
<1>7. pos \in 0 .. size - 1
  <2> HIDE DEF pos
  <2> QED
    BY <1>6
<1> DEFINE lane == y % w
<1>8. lane \in 0 .. w - 1 /\ y = pos * w + lane
  BY <1>6
<1>9. Lane(pack, n, size, t) = [ch |-> b.start + (o % b.width), pos |-> o \div b.width]
  BY Zenon DEF Lane, b, d
<1>10. o = y
  BY <1>2, Zenon
<1>11. Lane(pack, n, size, t).ch = ch /\ Lane(pack, n, size, t).pos = pos
  <2>1. Lane(pack, n, size, t) = [ch |-> ch, pos |-> pos]
    BY <1>2, <1>9, <1>10, Zenon
  <2> QED
    BY <2>1
<1> HIDE DEF lane, pos
<1>12. ch \in 0 .. n - 1 /\ ch \in st .. st + w - 1 /\ ch - st = lane
  <2>1. ch = st + lane
    BY DEF lane
  <2> HIDE DEF ch, o, y
  <2> QED
    BY <1>2, <1>4, <1>8, <2>1
<1> HIDE DEF ch
<1>13. BlockOf(Blocks({pack}, n), ch) = BlockAt({pack}, n, st)
  BY <1>3, <1>12, BlockHere
<1>14. BlockAt({pack}, n, st).start = st /\ BlockAt({pack}, n, st).width = w
  BY <1>3 DEF BlockAt
<1>15. LaneAt(pack, n, size, ch, pos) = st * size + pos * w + ch - st
  BY <1>13, <1>14, Zenon DEF LaneAt
<1>16. st * size + pos * w + ch - st = t
  <2> DEFINE u == st * size
             v == pos * w
  <2>1. u \in Nat /\ v \in Nat /\ t \in Nat /\ t - u = v + lane /\ lane \in Nat /\ ch = st + lane
    <3>1. lane \in Nat
      <4> HIDE DEF o, y
      <4> QED
        BY <1>4, <1>8
    <3>2. y = v + lane /\ y = t - u
      BY <1>8
    <3>3. ch = st + lane
      BY <1>4, <1>12, <3>1
    <3> QED
      BY <1>1, <1>4, <1>7, <3>1, <3>2, <3>3
  <2> HIDE DEF u, v, o, y
  <2>2. u + v + ch - st = t
    BY <1>4, <2>1
  <2> QED
    BY <2>2 DEF u, v
<1> QED
  BY <1>7, <1>11, <1>12, <1>15, <1>16, Zenon

-----------------------------------------------------------------------------
(* The products of an output: every channel with every tap, each once *)

LEMMA ChannelNumbers ==
  ASSUME NEW x \in Convolution
  PROVE  /\ x.cin \in Nat \ {0} /\ x.kh \in Nat \ {0} /\ x.kw \in Nat \ {0} /\ Maxk(x) \in Nat \ {0}
         /\ Maxk(x) = x.kh * x.kw /\ K(x) = x.cin * Maxk(x)
<1>1. x.cin \in Nat \ {0} /\ x.kh \in Nat \ {0} /\ x.kw \in Nat \ {0}
  BY DEF Convolution
<1>2. Maxk(x) = x.kh * x.kw /\ K(x) = x.cin * Maxk(x)
  BY DEF Maxk, K
<1>3. \A a, b \in Nat \ {0} : a * b \in Nat \ {0}
  OBVIOUS
<1>4. Maxk(x) \in Nat \ {0}
  BY <1>1, <1>2, <1>3, Zenon
<1> QED
  BY <1>1, <1>2, <1>4, Zenon

LEMMA ProductOf ==
  ASSUME NEW x \in Convolution, NEW c \in 0 .. K(x) - 1
  PROVE  /\ Product(x, c).ch \in 0 .. x.cin - 1
         /\ Product(x, c).pos \in 0 .. Maxk(x) - 1
         /\ LaneAt(Pack(x), x.cin, Maxk(x), Product(x, c).ch, Product(x, c).pos) = c
         /\ Tap(x, c) = Product(x, c).ch * Maxk(x) + Product(x, c).pos
         /\ Tap(x, c) \in 0 .. K(x) - 1
<1> DEFINE pack == Pack(x)
           n == x.cin
           size == Maxk(x)
<1>1. pack \in Nat \ {0} /\ n \in Nat /\ size \in Nat \ {0} /\ c \in 0 .. n * size - 1
  BY ShapeNumbers, ChannelNumbers
<1>2. Product(x, c) = Lane(pack, n, size, c)
  BY Zenon DEF Product
<1>3. Tap(x, c) = Product(x, c).ch * size + Product(x, c).pos
  BY Zenon DEF Tap
<1>4. K(x) = n * size
  BY ChannelNumbers
<1> HIDE DEF pack, n, size
<1>5. /\ Product(x, c).ch \in 0 .. n - 1 /\ Product(x, c).pos \in 0 .. size - 1
      /\ LaneAt(pack, n, size, Product(x, c).ch, Product(x, c).pos) = c
  BY <1>1, <1>2, LaneOf
<1> DEFINE ch == Product(x, c).ch
           pos == Product(x, c).pos
<1>6. ch * size + pos \in 0 .. n * size - 1
  <2>1. ch \in 0 .. n - 1 /\ pos \in 0 .. size - 1
    BY <1>5
  <2> HIDE DEF ch, pos
  <2>2. PICK d \in Nat : n = ch + 1 + d
    <3>1. n - (ch + 1) \in Nat /\ n = ch + 1 + (n - (ch + 1))
      BY <1>1, <2>1
    <3> QED
      BY <3>1
  <2>3. n * size = ch * size + size + d * size /\ d * size \in Nat /\ ch * size \in Nat
    BY <1>1, <2>1, <2>2
  <2> QED
    BY <1>1, <2>1, <2>3
<1> QED
  BY <1>3, <1>4, <1>5, <1>6 DEF pack, n, size

LEMMA ProductExists ==
  ASSUME NEW x \in Convolution, NEW ch \in 0 .. x.cin - 1, NEW pos \in 0 .. Maxk(x) - 1
  PROVE  \E c \in 0 .. K(x) - 1 : Product(x, c).ch = ch /\ Product(x, c).pos = pos
<1> DEFINE pack == Pack(x)
           n == x.cin
           size == Maxk(x)
           c == LaneAt(pack, n, size, ch, pos)
<1>1. pack \in Nat \ {0} /\ n \in Nat /\ size \in Nat \ {0} /\ ch \in 0 .. n - 1 /\ pos \in 0 .. size - 1
  BY ShapeNumbers, ChannelNumbers
<1>2. K(x) = n * size /\ Product(x, c) = Lane(pack, n, size, c)
  BY ChannelNumbers, Zenon DEF Product
<1> HIDE DEF pack, n, size
<1>3. c \in 0 .. n * size - 1
  BY <1>1, LaneInside
<1>4. Lane(pack, n, size, c) = [ch |-> ch, pos |-> pos]
  BY <1>1, LaneBack
<1>5. Product(x, c).ch = ch /\ Product(x, c).pos = pos
  BY <1>2, <1>4
<1> HIDE DEF c
<1> QED
  BY <1>2, <1>3, <1>5, Zenon

LEMMA TapInjective ==
  ASSUME NEW x \in Convolution, NEW c \in 0 .. K(x) - 1, NEW d \in 0 .. K(x) - 1, Tap(x, c) = Tap(x, d)
  PROVE  c = d
<1> DEFINE size == Maxk(x)
           a == Product(x, c).ch
           b == Product(x, d).ch
           u == Product(x, c).pos
           v == Product(x, d).pos
<1>1. /\ a \in 0 .. x.cin - 1 /\ u \in 0 .. size - 1 /\ LaneAt(Pack(x), x.cin, size, a, u) = c
      /\ b \in 0 .. x.cin - 1 /\ v \in 0 .. size - 1 /\ LaneAt(Pack(x), x.cin, size, b, v) = d
      /\ Tap(x, c) = a * size + u /\ Tap(x, d) = b * size + v
  BY ProductOf
<1>2. a * size + u = b * size + v
  BY <1>1, Zenon
<1>3. size \in Nat /\ a \in Nat /\ b \in Nat
  BY <1>1, ChannelNumbers
<1>4. u \in 0 .. size - 1 /\ v \in 0 .. size - 1
  BY <1>1
<1>5. a = b /\ u = v
  <2> HIDE DEF size, a, b, u, v
  <2> QED
    BY <1>2, <1>3, <1>4, RowsApart
<1> QED
  BY <1>1, <1>5, Zenon

-----------------------------------------------------------------------------
(* The widest block is the one that no other that fits exceeds. *)
LEMMA WidestIs ==
  ASSUME NEW widths, widths \subseteq Nat, NEW left \in Nat, NEW w \in widths, w <= left,
         \A v \in widths : v <= left => v <= w
  PROVE  Widest(widths, left) = w
<1> DEFINE z == CHOOSE u \in widths : u <= left /\ \A v \in widths : v <= left => v <= u
<1>1. z \in widths /\ z <= left /\ \A v \in widths : v <= left => v <= z
  OBVIOUS
<1> HIDE DEF z
<1>2. z = w
  BY <1>1
<1>3. Widest(widths, left) = z
  BY Zenon DEF Widest, z
<1> QED
  BY <1>2, <1>3

(* Rows that fill vectors leave none over. *)
LEMMA RowsFill ==
  ASSUME NEW pn \in Nat \ {0}, NEW m \in Nat, m % pn = 0, NEW a \in Starts({2 * pn, pn}, m)
  PROVE  Widest({2 * pn, pn}, m - a) >= pn
<1> DEFINE widths == {2 * pn, pn}
           A == {x \in 0 .. m : \E q \in Nat : x = q * pn}
<1>1. PICK e \in Nat : m = e * pn
  <2>1. m = (m \div pn) * pn + (m % pn) /\ m \div pn \in Nat
    BY Divided
  <2> DEFINE e == m \div pn
  <2>2. m = e * pn + 0 /\ e \in Nat
    BY <2>1
  <2> HIDE DEF e
  <2>3. m = e * pn
    BY <2>2
  <2> QED
    BY <2>2, <2>3
<1>2. ASSUME NEW x \in A, x < m
      PROVE  /\ Widest(widths, m - x) >= pn
             /\ Past(widths, m, x) \in A
  <2>1. PICK q \in Nat : x = q * pn
    OBVIOUS
  <2>2. x \in 0 .. m - 1 /\ widths \subseteq Nat \ {0} /\ widths \subseteq Nat
    BY <1>2
  <2>3. m - x >= pn /\ m - x \in Nat
    <3>1. q < e
      <4> SUFFICES ASSUME e <= q PROVE FALSE
        OBVIOUS
      <4>1. PICK d \in Nat : q = e + d
        <5>1. q - e \in Nat /\ q = e + (q - e)
          OBVIOUS
        <5> QED
          BY <5>1
      <4>2. x = m + d * pn /\ d * pn \in Nat
        BY <1>1, <2>1, <4>1
      <4> QED
        BY <1>2, <4>2
    <3>2. PICK d \in Nat : e = q + 1 + d
      <4>1. e - (q + 1) \in Nat /\ e = q + 1 + (e - (q + 1))
        BY <3>1
      <4> QED
        BY <4>1
    <3>3. m = x + pn + d * pn /\ d * pn \in Nat
      BY <1>1, <2>1, <3>2
    <3> QED
      BY <2>2, <3>3
  <2>4. Widest(widths, m - x) = 2 * pn \/ Widest(widths, m - x) = pn
    <3> DEFINE z == m - x
    <3>1. z \in Nat /\ z >= pn
      BY <2>3
    <3>2. widths \subseteq Nat /\ pn \in widths /\ 2 * pn \in widths
      OBVIOUS
    <3>3. \A v \in widths : v = pn \/ v = 2 * pn
      OBVIOUS
    <3> HIDE DEF widths, z
    <3>4. CASE 2 * pn <= z
      <4>1. \A v \in widths : v <= z => v <= 2 * pn
        BY <3>3
      <4> DEFINE y == 2 * pn
      <4>3. y \in widths /\ y <= z /\ \A v \in widths : v <= z => v <= y
        BY <3>2, <3>4, <4>1
      <4> HIDE DEF y
      <4>2. Widest(widths, z) = y
        BY <3>1, <3>2, <4>3, WidestIs
      <4> QED
        BY <4>2 DEF z, y
    <3>5. CASE ~(2 * pn <= z)
      <4>1. \A v \in widths : v <= z => v <= pn
        BY <3>3, <3>5
      <4>2. Widest(widths, z) = pn
        BY <3>1, <3>2, <4>1, WidestIs
      <4> QED
        BY <4>2 DEF z
    <3> QED
      BY <3>4, <3>5
  <2>5. Past(widths, m, x) \in 0 .. m
    BY <2>2, PastFits
  <2>6. Past(widths, m, x) = x + Widest(widths, m - x)
    BY DEF Past
  <2>7. \E r \in Nat : Past(widths, m, x) = r * pn
    <3>1. Past(widths, m, x) = x + 2 * pn \/ Past(widths, m, x) = x + pn
      BY <2>4, <2>6
    <3>2. x + 2 * pn = (q + 2) * pn /\ x + pn = (q + 1) * pn
      BY <2>1
    <3>3. q + 2 \in Nat /\ q + 1 \in Nat
      OBVIOUS
    <3> QED
      BY <3>1, <3>2, <3>3, Zenon
  <2> QED
    <3>1. Widest(widths, m - x) >= pn
      <4> DEFINE w == Widest(widths, m - x)
      <4>1. w = 2 * pn \/ w = pn
        BY <2>4
      <4> HIDE DEF w
      <4>2. w >= pn
        BY <4>1
      <4> QED
        BY <4>2 DEF w
    <3> QED
      BY <2>5, <2>7, <3>1
<1>3. A \in SUBSET (0 .. m) /\ 0 \in A /\ GoesOn(widths, m, A)
  <2>1. 0 \in A
    <3>1. 0 = 0 * pn /\ 0 \in 0 .. m
      OBVIOUS
    <3> QED
      BY <3>1
  <2> HIDE DEF widths
  <2>2. \A x \in A : x < m => Past(widths, m, x) \in A
    BY <1>2
  <2> QED
    BY <2>1, <2>2 DEF GoesOn
<1>4. a \in A /\ a \in 0 .. m - 1
  BY <1>3 DEF Starts, Reached
<1>5. a < m
  BY <1>4
<1> HIDE DEF A, widths
<1>6. Widest(widths, m - a) >= pn
  BY <1>2, <1>4, <1>5
<1> QED
  BY <1>6 DEF widths

-----------------------------------------------------------------------------
(* The packed kernel *)

(* Where element r of column c of a block of w rows is, and how the packing *)
(* comes back to block, column and row.                                     *)
LEMMA PackedPlace ==
  ASSUME NEW m \in Nat \ {0}, NEW k \in Nat \ {0}, NEW a \in Nat, NEW w \in Nat \ {0}, a + w <= m,
         NEW c \in 0 .. k - 1, NEW r \in 0 .. w - 1
  PROVE  /\ a * k + w * c + r \in 0 .. m * k - 1
         /\ (a * k + w * c + r) \div k \in a .. a + w - 1
         /\ (a * k + w * c + r) - a * k = w * c + r
         /\ (w * c + r) % w = r /\ (w * c + r) \div w = c
<1>1. c \in Nat /\ w * c = c * w /\ k \in Nat
  OBVIOUS
<1>2. /\ (a * k + c * w + r) \div k \in a .. a + w - 1
      /\ (a * k + c * w + r) - a * k = c * w + r
  BY BlockPart
<1>3. (c * w + r) % w = r /\ (c * w + r) \div w = c
  BY <1>1, RowAndLane
<1> DEFINE u == a * k + c * w + r
           lo == a * k
           mid == (a + w) * k
           hi == m * k
<1>4. u \in lo .. mid - 1 /\ mid <= hi
  BY <1>1, LaneArithmetic
<1>5. lo \in Nat /\ mid \in Nat /\ hi \in Nat
  BY <1>1
<1>6. u \in 0 .. hi - 1
  <2> HIDE DEF u, lo, mid, hi
  <2> QED
    BY <1>4, <1>5
<1> QED
  BY <1>1, <1>2, <1>3, <1>6

LEMMA GroupPlace ==
  ASSUME NEW m \in Nat \ {0}, NEW k \in Nat \ {0}, NEW groups \in Nat, NEW h \in 0 .. groups - 1,
         NEW u \in 0 .. m * k - 1
  PROVE  /\ h * m * k + u \in 0 .. groups * m * k - 1
         /\ (h * m * k + u) \div (m * k) = h /\ (h * m * k + u) % (m * k) = u
<1> DEFINE size == m * k
<1>1. size \in Nat \ {0} /\ h * m * k = h * size /\ groups * m * k = groups * size
  OBVIOUS
<1>2. u \in 0 .. size - 1 /\ h \in Nat
  OBVIOUS
<1> HIDE DEF size
<1>3. (h * size + u) \div size = h /\ (h * size + u) % size = u
  BY <1>1, <1>2, RowAndLane
<1>4. h * size + u \in 0 .. groups * size - 1
  <2>1. PICK d \in Nat : groups = h + 1 + d
    <3>1. groups - (h + 1) \in Nat /\ groups = h + 1 + (groups - (h + 1))
      OBVIOUS
    <3> QED
      BY <3>1
  <2>2. groups * size = h * size + size + d * size /\ d * size \in Nat /\ h * size \in Nat
    BY <1>1, <1>2, <2>1
  <2> QED
    BY <1>1, <1>2, <2>2
<1> QED
  BY <1>1, <1>3, <1>4, Zenon DEF size

(* Every block of rows is copied. *)
RowsCopied(a) == (Packn(s) \/ Pack1ton(s)) => Widest(RowWidths(s), s.m - a) >= PackN(s)

LEMMA AllRowsCopied ==
  ASSUME s \in Shape, Accepted(s), NEW a \in Starts(RowWidths(s), s.m) PROVE RowsCopied(a)
<1> SUFFICES ASSUME Packn(s) \/ Pack1ton(s) PROVE Widest(RowWidths(s), s.m - a) >= PackN(s)
  BY DEF RowsCopied
<1>1. s \in Convolution
  BY ShapeAssumption
<1> DEFINE pn == PackN(s)
           m == s.m
<1>2. pn \in Nat \ {0} /\ m \in Nat
  BY <1>1, ShapeNumbers
<1>3. m % pn = 0
  BY DEF Accepted
<1>4. RowWidths(s) = {2 * pn, pn}
  BY DEF RowWidths, Packn, Pack1ton, Pack1
<1>5. a \in Starts({2 * pn, pn}, m)
  BY <1>4, Zenon
<1> HIDE DEF pn, m
<1>6. Widest({2 * pn, pn}, m - a) >= pn
  BY <1>2, <1>3, <1>5, RowsFill
<1> QED
  BY <1>4, <1>6 DEF m, pn

LEMMA ReorderedAt ==
  ASSUME s \in Shape, NEW b, NEW a \in Starts(RowWidths(s), s.m), RowsCopied(a),
         NEW r \in 0 .. Widest(RowWidths(s), s.m - a) - 1, NEW c \in 0 .. K(s) - 1
  PROVE  ReorderKernel(b, s)[a * K(s) + Widest(RowWidths(s), s.m - a) * c + r]
           = b[(a + r) * K(s) + Tap(s, c)]
<1> DEFINE m == s.m
           k == K(s)
           widths == RowWidths(s)
           w == Widest(widths, m - a)
           t == a * k + w * c + r
           q == BlockOf(Blocks(widths, m), t \div k)
<1>1. s \in Convolution
  BY ShapeAssumption
<1>2. m \in Nat \ {0} /\ k \in Nat \ {0} /\ widths \subseteq Nat \ {0}
  BY <1>1, ShapeNumbers
<1>3. a \in Nat /\ w \in Nat \ {0} /\ a + w <= m
  <2>1. a \in 0 .. m - 1 /\ w \in 1 .. m - a
    <3> HIDE DEF m, widths
    <3>1. \A x \in Starts(widths, m) : x \in 0 .. m - 1 /\ Widest(widths, m - x) \in 1 .. m - x
      BY <1>2, StartsFacts
    <3>2. a \in Starts(widths, m)
      BY DEF widths, m
    <3> QED
      BY <3>1, <3>2
  <2> HIDE DEF w, m
  <2> QED
    BY <1>2, <2>1
<1>4. /\ t \in 0 .. m * k - 1 /\ t \div k \in a .. a + w - 1 /\ t - a * k = w * c + r
      /\ (w * c + r) % w = r /\ (w * c + r) \div w = c
  <2>1. r \in 0 .. w - 1 /\ c \in 0 .. k - 1
    OBVIOUS
  <2> HIDE DEF m, k, w
  <2> QED
    BY <1>2, <1>3, <2>1, PackedPlace
<1>5. q = BlockAt(widths, m, a)
  <2>1. t \div k \in a .. a + Widest(widths, m - a) - 1 /\ a \in Starts(widths, m)
    BY <1>4
  <2> HIDE DEF t, m, k, widths
  <2> QED
    BY <1>2, <2>1, BlockHere
<1>6. q.start = a /\ q.width = w
  BY <1>5 DEF BlockAt
<1>7. ReorderKernel(b, s)[t]
        = IF (Packn(s) \/ Pack1ton(s)) /\ q.width < PackN(s) THEN <<>>
          ELSE b[(q.start + ((t - q.start * k) % q.width)) * k + Tap(s, (t - q.start * k) \div q.width)]
  <2> DEFINE body(x) == LET v == BlockOf(Blocks(widths, m), x \div k)
                            o == x - v.start * k
                        IN IF (Packn(s) \/ Pack1ton(s)) /\ v.width < PackN(s) THEN <<>>
                           ELSE b[(v.start + (o % v.width)) * k + Tap(s, o \div v.width)]
  <2>1. ReorderKernel(b, s) = [x \in 0 .. m * k - 1 |-> body(x)]
    BY Zenon DEF ReorderKernel
  <2>2. ReorderKernel(b, s)[t] = body(t)
    <3> HIDE DEF body, t
    <3> QED
      BY <1>4, <2>1
  <2> QED
    BY <2>2, Zenon
<1>8. ~((Packn(s) \/ Pack1ton(s)) /\ q.width < PackN(s))
  <2>1. (Packn(s) \/ Pack1ton(s)) => w >= PackN(s)
    BY DEF RowsCopied
  <2>2. PackN(s) \in Nat
    BY <1>1, ShapeNumbers
  <2> HIDE DEF w, q
  <2> QED
    BY <1>3, <1>6, <2>1, <2>2
<1>9. ReorderKernel(b, s)[t] = b[(a + ((t - a * k) % w)) * k + Tap(s, (t - a * k) \div w)]
  <2> HIDE DEF t, q
  <2> QED
    BY <1>6, <1>7, <1>8, Zenon
<1>10. ReorderKernel(b, s)[t] = b[(a + r) * k + Tap(s, c)]
  <2> HIDE DEF t
  <2> QED
    BY <1>4, <1>9, Zenon
<1> QED
  BY <1>10

Original == kdata = [t \in 0 .. s.group * s.m * K(s) - 1 |-> <<t>>]

(* The multiplication finds in the packed kernel of each group, block by      *)
(* block, the weights of the rows in the order of the products.               *)
RightKernel(x, packed) ==
  /\ DOMAIN packed = 0 .. x.group * x.m * K(x) - 1
  /\ \A h \in 0 .. x.group - 1, a \in Starts(RowWidths(x), x.m), c \in 0 .. K(x) - 1 :
       \A r \in 0 .. Widest(RowWidths(x), x.m - a) - 1 :
         /\ h * x.m * K(x) + a * K(x) + Widest(RowWidths(x), x.m - a) * c + r
              \in 0 .. x.group * x.m * K(x) - 1
         /\ packed[h * x.m * K(x) + a * K(x) + Widest(RowWidths(x), x.m - a) * c + r]
              = <<h * x.m * K(x) + (a + r) * K(x) + Tap(x, c)>>
KernelRight == RightKernel(s, kdata)

LEMMA PackingRight ==
  ASSUME s \in Shape, s' = s, Accepted(s), Original, kdata' = PackedKernel
  PROVE  KernelRight'
<1> DEFINE m == s.m
           k == K(s)
           groups == s.group
           widths == RowWidths(s)
           sub(h) == [t \in 0 .. m * k - 1 |-> kdata[h * (m * k) + t]]
<1>1. s \in Convolution
  BY ShapeAssumption
<1>2. m \in Nat \ {0} /\ k \in Nat \ {0} /\ groups \in Nat \ {0} /\ widths \subseteq Nat \ {0}
  BY <1>1, ShapeNumbers
<1>3. DOMAIN kdata = 0 .. groups * m * k - 1
      /\ \A t \in 0 .. groups * m * k - 1 : kdata[t] = <<t>>
  BY DEF Original
<1>4. DOMAIN kdata' = 0 .. groups * m * k - 1
  <2>1. DOMAIN PackedKernel = DOMAIN kdata
    BY DEF PackedKernel
  <2> QED
    BY <1>3, <2>1, Zenon
<1>5. ASSUME NEW t \in 0 .. groups * m * k - 1, t \div (m * k) \in 0 .. groups - 1
      PROVE  kdata'[t] = ReorderKernel(sub(t \div (m * k)), s)[t % (m * k)]
  <2> DEFINE part == [h \in 0 .. groups - 1 |-> ReorderKernel(sub(h), s)]
  <2>1. PackedKernel = [x \in DOMAIN kdata |-> part[x \div (m * k)][x % (m * k)]]
    BY Zenon DEF PackedKernel
  <2>2. PackedKernel[t] = part[t \div (m * k)][t % (m * k)]
    <3> HIDE DEF part, m, k, groups
    <3> QED
      BY <1>3, <1>5, <2>1
  <2>3. part[t \div (m * k)] = ReorderKernel(sub(t \div (m * k)), s)
    <3> HIDE DEF sub, m, k, groups
    <3> QED
      BY <1>5
  <2> QED
    BY <2>2, <2>3, Zenon
<1>6. ASSUME NEW h \in 0 .. groups - 1, NEW a \in Starts(widths, m), NEW c \in 0 .. k - 1,
             NEW r \in 0 .. Widest(widths, m - a) - 1
      PROVE  /\ h * m * k + a * k + Widest(widths, m - a) * c + r \in 0 .. groups * m * k - 1
             /\ kdata'[h * m * k + a * k + Widest(widths, m - a) * c + r]
                  = <<h * m * k + (a + r) * k + Tap(s, c)>>
  <2> DEFINE w == Widest(widths, m - a)
             u == a * k + w * c + r
             t == h * m * k + u
             v == (a + r) * k + Tap(s, c)
  <2>1. a \in Nat /\ w \in Nat \ {0} /\ a + w <= m
    <3>1. a \in 0 .. m - 1 /\ w \in 1 .. m - a
      <4> HIDE DEF m, widths
      <4>1. \A x \in Starts(widths, m) : x \in 0 .. m - 1 /\ Widest(widths, m - x) \in 1 .. m - x
        BY <1>2, StartsFacts
      <4> QED
        BY <4>1
    <3> HIDE DEF w, m
    <3> QED
      BY <1>2, <3>1
  <2>2. u \in 0 .. m * k - 1
    <3>1. r \in 0 .. w - 1
      OBVIOUS
    <3> HIDE DEF m, k, w
    <3> QED
      BY <1>2, <2>1, <3>1, PackedPlace
  <2>3. t \in 0 .. groups * m * k - 1 /\ t \div (m * k) = h /\ t % (m * k) = u
    <3> HIDE DEF m, k, groups, u
    <3> QED
      BY <1>2, <2>2, GroupPlace
  <2>4. kdata'[t] = ReorderKernel(sub(h), s)[u]
    <3> HIDE DEF m, k, groups, u, t, sub
    <3> QED
      BY <1>5, <2>3
  <2>5. ReorderKernel(sub(h), s)[u] = sub(h)[v]
    <3>1. RowsCopied(a)
      BY AllRowsCopied
    <3> HIDE DEF sub
    <3> QED
      BY <3>1, ReorderedAt
  <2>6. v \in 0 .. m * k - 1
    <3> DEFINE row == a + r
               tap == Tap(s, c)
    <3>1. tap \in 0 .. k - 1
      BY <1>1, ProductOf
    <3>2. row \in 0 .. m - 1
      <4>1. r \in 0 .. w - 1
        OBVIOUS
      <4> HIDE DEF w, m
      <4> QED
        BY <1>2, <2>1, <4>1
    <3> HIDE DEF m, k, row, tap
    <3>3. PICK d \in Nat : m = row + 1 + d
      <4>1. m - (row + 1) \in Nat /\ m = row + 1 + (m - (row + 1))
        BY <1>2, <3>2
      <4> QED
        BY <4>1
    <3>4. m * k = row * k + k + d * k /\ d * k \in Nat /\ row * k \in Nat
      BY <1>2, <3>2, <3>3
    <3>5. row * k + tap \in 0 .. m * k - 1
      BY <1>2, <3>1, <3>4
    <3> QED
      BY <3>5 DEF row, tap
  <2>7. sub(h)[v] = kdata[h * (m * k) + v]
    <3> HIDE DEF v
    <3> QED
      BY <2>6
  <2>8. h * m * k + v \in 0 .. groups * m * k - 1
    <3> HIDE DEF m, k, groups, v
    <3> QED
      BY <1>2, <2>6, GroupPlace
  <2>9. h * (m * k) = h * m * k
    <3> HIDE DEF m, k
    <3> QED
      BY <1>2
  <2>10. kdata'[t] = <<h * m * k + v>>
    <3> HIDE DEF m, k, groups, u, v, t, sub
    <3> QED
      BY <1>3, <2>4, <2>5, <2>7, <2>8, <2>9, Zenon
  <2>11. t = h * m * k + a * k + w * c + r /\ h * m * k + v = h * m * k + (a + r) * k + Tap(s, c)
    <3> DEFINE z1 == h * m * k
               z2 == a * k
               z3 == w * c
               z4 == (a + r) * k
               z5 == Tap(s, c)
    <3>1. z1 \in Nat /\ z2 \in Nat /\ z3 \in Nat /\ z4 \in Nat /\ r \in Nat
      <4> HIDE DEF m, k, w
      <4> QED
        BY <1>2, <2>1
    <3>2. z5 \in Nat
      BY <1>1, ProductOf
    <3> HIDE DEF z1, z2, z3, z4, z5
    <3>3. z1 + (z2 + z3 + r) = z1 + z2 + z3 + r /\ z1 + (z4 + z5) = z1 + z4 + z5
      BY <3>1, <3>2
    <3> QED
      BY <3>3 DEF z1, z2, z3, z4, z5
  <2> QED
    <3> HIDE DEF t, v
    <3> QED
      BY <2>3, <2>10, <2>11, Zenon
<1> QED
  <2> HIDE DEF sub
  <2>1. /\ DOMAIN kdata' = 0 .. s.group * s.m * K(s) - 1
        /\ \A h \in 0 .. s.group - 1, a \in Starts(RowWidths(s), s.m), c \in 0 .. K(s) - 1 :
             \A r \in 0 .. Widest(RowWidths(s), s.m - a) - 1 :
               /\ h * s.m * K(s) + a * K(s) + Widest(RowWidths(s), s.m - a) * c + r
                    \in 0 .. s.group * s.m * K(s) - 1
               /\ kdata'[h * s.m * K(s) + a * K(s) + Widest(RowWidths(s), s.m - a) * c + r]
                    = <<h * s.m * K(s) + (a + r) * K(s) + Tap(s, c)>>
    BY <1>4, <1>6
  <2>2. RightKernel(s, kdata')
    BY <2>1 DEF RightKernel
  <2>3. s' = s
    OBVIOUS
  <2> QED
    BY <2>2, <2>3, Zenon DEF KernelRight

-----------------------------------------------------------------------------
(* The packed image *)

LEMMA PackWidthsPositive == ASSUME s \in Shape PROVE PackWidths \subseteq Nat \ {0}
<1>1. s.backend \in {"rvv", "c908"} /\ s.size \in {2, 4}
  BY ShapeAssumption, ShapeNumbers
<1>2. \A a, b, c, d, e, f :
        Of(s, a, b, c, d, e, f) = a \/ Of(s, a, b, c, d, e, f) = b \/ Of(s, a, b, c, d, e, f) = c
        \/ Of(s, a, b, c, d, e, f) = d \/ Of(s, a, b, c, d, e, f) = e \/ Of(s, a, b, c, d, e, f) = f
  BY <1>1 DEF Of
<1>3. CASE ~Pack1(s)
  BY <1>3 DEF PackWidths, rvv_reorder_input_z12_packn
<1>4. CASE Pack1(s)
  <2>1. PackWidths = Of(s, rvv_reorder_input_z8_fp32, rvv_reorder_input_z16_fp16,
          c908_reorder_input_z12_fp32, c908_reorder_input_z16_fp32_v256,
          c908_reorder_input_z24_fp16, c908_reorder_input_z32_fp16_v256)
    BY <1>4, Zenon DEF PackWidths
  <2>2. PackWidths \in {rvv_reorder_input_z8_fp32, rvv_reorder_input_z16_fp16,
          c908_reorder_input_z12_fp32, c908_reorder_input_z16_fp32_v256,
          c908_reorder_input_z24_fp16, c908_reorder_input_z32_fp16_v256}
    BY <1>2, <2>1
  <2> QED
    BY <2>2 DEF rvv_reorder_input_z8_fp32, rvv_reorder_input_z16_fp16,
          c908_reorder_input_z12_fp32, c908_reorder_input_z16_fp32_v256,
          c908_reorder_input_z24_fp16, c908_reorder_input_z32_fp16_v256
<1> QED
  BY <1>3, <1>4

(* Where the packing of thead_rvv and its multiplication have other widths. *)
LEMMA NarrowWidths ==
  ASSUME NEW P, NEW T, NEW left \in Nat \ {0},
         \/ P = {8, 1} /\ (T = {8, 4, 2, 1} \/ T = {8, 1})
         \/ P = {16, 8, 1} /\ (T = {16, 8, 4, 2, 1} \/ T = {16, 8, 1})
  PROVE  /\ left >= 8 => Widest(P, left) = Widest(T, left) /\ Widest(T, left) >= 8
         /\ left < 8 => Widest(P, left) = 1 /\ Widest(T, left) \in {1, 2, 4}
<1>1. P \subseteq Nat /\ T \subseteq Nat /\ 1 \in P /\ 8 \in P /\ 1 \in T /\ 8 \in T
  OBVIOUS
<1>2. CASE left >= 16 /\ 16 \in P
  <2>1. 16 \in T /\ \A v \in P \cup T : v <= 16
    BY <1>2
  <2>2. Widest(P, left) = 16
    BY <1>1, <1>2, <2>1, WidestIs
  <2>3. Widest(T, left) = 16
    BY <1>1, <1>2, <2>1, WidestIs
  <2> QED
    BY <1>2, <2>2, <2>3
<1>3. CASE left >= 8 /\ (left < 16 \/ 16 \notin P)
  <2>1. \A v \in P \cup T : v <= left => v <= 8
    BY <1>3
  <2>2. Widest(P, left) = 8
    BY <1>1, <1>3, <2>1, WidestIs
  <2>3. Widest(T, left) = 8
    BY <1>1, <1>3, <2>1, WidestIs
  <2> QED
    BY <1>3, <2>2, <2>3
<1>4. CASE left < 8
  <2>1. \A v \in P : v <= left => v <= 1
    BY <1>4
  <2>2. Widest(P, left) = 1
    BY <1>1, <2>1, WidestIs
  <2>3. CASE 4 \in T /\ left >= 4
    <3>1. \A v \in T : v <= left => v <= 4
      BY <1>4
    <3>2. Widest(T, left) = 4
      BY <1>1, <2>3, <3>1, WidestIs
    <3> QED
      BY <1>4, <2>2, <3>2
  <2>4. CASE 4 \in T /\ left < 4 /\ left >= 2
    <3>1. 2 \in T /\ \A v \in T : v <= left => v <= 2
      BY <2>4
    <3>2. Widest(T, left) = 2
      BY <1>1, <2>4, <3>1, WidestIs
    <3> QED
      BY <1>4, <2>2, <3>2
  <2>5. CASE 4 \notin T \/ left < 2
    <3>1. \A v \in T : v <= left => v <= 1
      BY <1>4, <2>5
    <3>2. Widest(T, left) = 1
      BY <1>1, <3>1, WidestIs
    <3> QED
      BY <1>4, <2>2, <3>2
  <2> QED
    BY <2>3, <2>4, <2>5
<1> QED
  BY <1>2, <1>3, <1>4

(* Columns stored one by one are all starts of blocks. *)
LEMMA OneByOne ==
  ASSUME NEW widths, widths \subseteq Nat \ {0}, NEW n \in Nat, NEW a \in Starts(widths, n),
         NEW k \in {1, 2, 4}, a + k <= n, \A y \in a .. n - 1 : Widest(widths, n - y) = 1
  PROVE  /\ \A x \in 0 .. k - 1 : a + x \in Starts(widths, n) /\ Widest(widths, n - (a + x)) = 1
         /\ a + k < n => a + k \in Starts(widths, n)
<1>1. a \in Nat
  <2>1. \A y \in Starts(widths, n) : y \in 0 .. n - 1
    BY StartsFacts
  <2> QED
    BY <2>1
<1>2. ASSUME NEW y \in a .. n - 1, y \in Starts(widths, n), y + 1 < n PROVE y + 1 \in Starts(widths, n)
  <2>1. Widest(widths, n - y) = 1
    OBVIOUS
  <2>2. y + Widest(widths, n - y) < n => y + Widest(widths, n - y) \in Starts(widths, n)
    BY <1>2, StartsFacts
  <2> QED
    BY <1>2, <2>1, <2>2
<1> DEFINE S == Starts(widths, n)
<1>3. a \in S /\ (a + 1 < n => a + 1 \in S)
  BY <1>1, <1>2
<1> HIDE DEF S
<1>4. \A y \in a .. n - 1 : y \in S /\ y + 1 < n => y + 1 \in S
  BY <1>2 DEF S
<1>5. a + 2 < n => a + 2 \in S
  <2> SUFFICES ASSUME a + 2 < n PROVE a + 2 \in S
    OBVIOUS
  <2>1. a + 1 \in a .. n - 1 /\ a + 1 < n /\ (a + 1) + 1 < n /\ (a + 1) + 1 = a + 2
    BY <1>1
  <2> QED
    BY <1>3, <1>4, <2>1
<1>6. a + 3 < n => a + 3 \in S
  <2> SUFFICES ASSUME a + 3 < n PROVE a + 3 \in S
    OBVIOUS
  <2>1. a + 2 \in a .. n - 1 /\ a + 2 < n /\ (a + 2) + 1 < n /\ (a + 2) + 1 = a + 3
    BY <1>1
  <2> QED
    BY <1>4, <1>5, <2>1
<1>7. a + 4 < n => a + 4 \in S
  <2> SUFFICES ASSUME a + 4 < n PROVE a + 4 \in S
    OBVIOUS
  <2>1. a + 3 \in a .. n - 1 /\ a + 3 < n /\ (a + 3) + 1 < n /\ (a + 3) + 1 = a + 4
    BY <1>1
  <2> QED
    BY <1>4, <1>6, <2>1
<1>8. ASSUME NEW x \in 0 .. k - 1 PROVE a + x \in S /\ a + x \in a .. n - 1
  <2>1. x \in {0, 1, 2, 3} /\ a + x < n /\ a + x \in a .. n - 1 /\ a + 0 = a
    BY <1>1
  <2> QED
    BY <1>3, <1>5, <1>6, <2>1
<1>9. a + k < n => a + k \in S
  BY <1>3, <1>5, <1>7
<1> QED
  BY <1>8, <1>9 DEF S

LEMMA ColumnsMeet ==
  ASSUME s \in Shape, i \in 0 .. s.m - 1, j \in Starts(PackWidths, N(s))
  PROVE  /\ j \in 0 .. N(s) - 1
         /\ j + Cols < N(s) => j + Cols \in Starts(PackWidths, N(s))
         /\ IF Pack1(s) /\ s.backend = "rvv" /\ Cols < 8
            THEN \A x \in 0 .. Cols - 1 :
                   j + x \in Starts(PackWidths, N(s)) /\ Widest(PackWidths, N(s) - (j + x)) = 1
            ELSE Widest(PackWidths, N(s) - j) = Cols
<1> DEFINE n == N(s)
           P == PackWidths
           T == TileWidths(Rows)
<1>1. s \in Convolution
  BY ShapeAssumption
<1>2. n \in Nat \ {0} /\ P \subseteq Nat \ {0} /\ s.backend \in {"rvv", "c908"} /\ s.size \in {2, 4}
  BY <1>1, ShapeNumbers, PackWidthsPositive
<1>3. j \in 0 .. n - 1 /\ (j + Widest(P, n - j) < n => j + Widest(P, n - j) \in Starts(P, n))
  <2>1. \A a \in Starts(P, n) : /\ a \in 0 .. n - 1
                                /\ a + Widest(P, n - a) < n => a + Widest(P, n - a) \in Starts(P, n)
    <3> HIDE DEF n, P
    <3> QED
      BY <1>2, StartsFacts
  <2> QED
    BY <2>1, Zenon
<1>4. Cols = Widest(T, n - j)
  BY DEF Cols
<1>5. Cols \in 1 .. n - j
  BY <1>3, TileFits
<1>6. CASE T = P /\ ~(Pack1(s) /\ s.backend = "rvv")
  <2>1. Widest(P, n - j) = Cols
    BY <1>4, <1>6, Zenon
  <2> QED
    BY <1>3, <1>6, <2>1, Zenon
<1>7. CASE ~Pack1(s)
  <2>1. T = P
    BY <1>7, Zenon DEF PackWidths, TileWidths, rvv_reorder_input_z12_packn, rvv_ncxhwx_gemm_12xpack2n
  <2> QED
    BY <1>6, <1>7, <2>1
<1>8. CASE Pack1(s) /\ s.backend = "c908"
  <2>1. P = Of(s, rvv_reorder_input_z8_fp32, rvv_reorder_input_z16_fp16,
          c908_reorder_input_z12_fp32, c908_reorder_input_z16_fp32_v256,
          c908_reorder_input_z24_fp16, c908_reorder_input_z32_fp16_v256)
    BY <1>8, Zenon DEF PackWidths
  <2>2. T = Of(s, rvv_gemm_8x8_fp32(Rows), rvv_gemm_8x16_fp16(Rows),
          c908_gemm_8x12_fp32(Rows), c908_gemm_8x16_fp32_v256(Rows),
          c908_gemm_8x24_fp16(Rows), c908_gemm_8x32_fp16_v256(Rows))
    BY <1>8, Zenon DEF TileWidths
  <2>3. /\ c908_reorder_input_z12_fp32 = c908_gemm_8x12_fp32(Rows)
        /\ c908_reorder_input_z16_fp32_v256 = c908_gemm_8x16_fp32_v256(Rows)
        /\ c908_reorder_input_z24_fp16 = c908_gemm_8x24_fp16(Rows)
        /\ c908_reorder_input_z32_fp16_v256 = c908_gemm_8x32_fp16_v256(Rows)
    BY Zenon DEF c908_reorder_input_z12_fp32, c908_gemm_8x12_fp32,
          c908_reorder_input_z16_fp32_v256, c908_gemm_8x16_fp32_v256,
          c908_reorder_input_z24_fp16, c908_gemm_8x24_fp16,
          c908_reorder_input_z32_fp16_v256, c908_gemm_8x32_fp16_v256
  <2>5. Of(s, rvv_gemm_8x8_fp32(Rows), rvv_gemm_8x16_fp16(Rows),
          c908_reorder_input_z12_fp32, c908_reorder_input_z16_fp32_v256,
          c908_reorder_input_z24_fp16, c908_reorder_input_z32_fp16_v256) = P
    <3> HIDE DEF P
    <3> QED
      BY <1>2, <1>8, <2>1 DEF Of
  <2>6. T = P
    BY <2>2, <2>3, <2>5, Zenon
  <2> QED
    BY <1>6, <1>8, <2>6
<1>9. CASE Pack1(s) /\ s.backend = "rvv"
  <2>1. \/ P = {8, 1} /\ (T = {8, 4, 2, 1} \/ T = {8, 1})
        \/ P = {16, 8, 1} /\ (T = {16, 8, 4, 2, 1} \/ T = {16, 8, 1})
    <3>1. P = Of(s, rvv_reorder_input_z8_fp32, rvv_reorder_input_z16_fp16,
            c908_reorder_input_z12_fp32, c908_reorder_input_z16_fp32_v256,
            c908_reorder_input_z24_fp16, c908_reorder_input_z32_fp16_v256)
      BY <1>9, Zenon DEF PackWidths
    <3>2. T = Of(s, rvv_gemm_8x8_fp32(Rows), rvv_gemm_8x16_fp16(Rows),
            c908_gemm_8x12_fp32(Rows), c908_gemm_8x16_fp32_v256(Rows),
            c908_gemm_8x24_fp16(Rows), c908_gemm_8x32_fp16_v256(Rows))
      BY <1>9, Zenon DEF TileWidths
    <3>5. /\ P = IF s.size = 4 THEN rvv_reorder_input_z8_fp32 ELSE rvv_reorder_input_z16_fp16
          /\ T = IF s.size = 4 THEN rvv_gemm_8x8_fp32(Rows) ELSE rvv_gemm_8x16_fp16(Rows)
      <4> HIDE DEF P, T
      <4> QED
        BY <1>2, <1>9, <3>1, <3>2 DEF Of
    <3>4. \/ P = rvv_reorder_input_z8_fp32 /\ T = rvv_gemm_8x8_fp32(Rows)
          \/ P = rvv_reorder_input_z16_fp16 /\ T = rvv_gemm_8x16_fp16(Rows)
      BY <3>5, Zenon
    <3> QED
      BY <3>4, Zenon DEF rvv_reorder_input_z8_fp32, rvv_gemm_8x8_fp32,
           rvv_reorder_input_z16_fp16, rvv_gemm_8x16_fp16
  <2>2. ASSUME NEW left \in Nat \ {0}
        PROVE  /\ left >= 8 => Widest(P, left) = Widest(T, left) /\ Widest(T, left) >= 8
               /\ left < 8 => Widest(P, left) = 1 /\ Widest(T, left) \in {1, 2, 4}
    <3> HIDE DEF P, T
    <3> QED
      BY <2>1, NarrowWidths
  <2>3. n - j \in Nat \ {0}
    <3> HIDE DEF n
    <3> QED
      BY <1>2, <1>3
  <2>4. CASE n - j >= 8
    <3>1. Widest(P, n - j) = Cols /\ Cols >= 8
      <4>1. Widest(P, n - j) = Widest(T, n - j) /\ Widest(T, n - j) >= 8
        BY <2>2, <2>3, <2>4
      <4> QED
        BY <1>4, <4>1, Zenon
    <3>2. ~(Cols < 8)
      <4> DEFINE z == Cols
      <4>1. z \in 1 .. n - j /\ n - j \in Nat /\ z >= 8
        BY <1>5, <2>3, <3>1
      <4> HIDE DEF z, n
      <4>2. ~(z < 8)
        BY <4>1
      <4> QED
        BY <4>2 DEF z
    <3> QED
      BY <1>3, <3>1, <3>2, Zenon
  <2>5. CASE n - j < 8
    <3>1. Cols \in {1, 2, 4} /\ Cols < 8 /\ j + Cols <= n
      <4>1. Widest(T, n - j) \in {1, 2, 4}
        BY <2>2, <2>3, <2>5
      <4> DEFINE z == Cols
      <4>2. z \in {1, 2, 4} /\ z \in 1 .. n - j /\ j \in 0 .. n - 1
        BY <1>3, <1>4, <1>5, <4>1, Zenon
      <4> HIDE DEF z, n
      <4>3. z \in {1, 2, 4} /\ z < 8 /\ j + z <= n
        BY <1>2, <4>2
      <4> QED
        BY <4>3 DEF z
    <3>2. ASSUME NEW y \in j .. n - 1 PROVE Widest(P, n - y) = 1
      <4>1. n - y \in Nat \ {0} /\ n - y < 8
        <5> HIDE DEF n
        <5> QED
          BY <1>2, <1>3, <2>5
      <4> QED
        BY <2>2, <4>1
    <3>3. /\ \A x \in 0 .. Cols - 1 : j + x \in Starts(P, n) /\ Widest(P, n - (j + x)) = 1
          /\ j + Cols < n => j + Cols \in Starts(P, n)
      <4> DEFINE z == Cols
                 a == j
      <4>1. z \in {1, 2, 4} /\ a + z <= n /\ a \in Starts(P, n) /\ n \in Nat
            /\ \A y \in a .. n - 1 : Widest(P, n - y) = 1
        BY <1>2, <3>1, <3>2
      <4> HIDE DEF n, P, z, a
      <4>3. P \subseteq Nat \ {0}
        BY <1>2
      <4>4. ASSUME NEW x \in 0 .. z - 1
            PROVE  a + x \in Starts(P, n) /\ Widest(P, n - (a + x)) = 1
        <5>1. a + x \in Starts(P, n)
          BY ONLY <4>1, <4>3, <4>4, OneByOne
        <5>2. a + x \in a .. n - 1
          <6>1. \A y \in Starts(P, n) : y \in 0 .. n - 1
            BY <4>1, <4>3, StartsFacts
          <6> QED
            BY <4>1, <5>1, <6>1
        <5> QED
          BY <4>1, <5>1, <5>2
      <4>5. a + z < n => a + z \in Starts(P, n)
        BY ONLY <4>1, <4>3, OneByOne
      <4>2. /\ \A x \in 0 .. z - 1 : a + x \in Starts(P, n) /\ Widest(P, n - (a + x)) = 1
            /\ a + z < n => a + z \in Starts(P, n)
        BY <4>4, <4>5
      <4> QED
        BY <4>2 DEF a, z
    <3> QED
      BY <1>3, <1>9, <3>1, <3>3, Zenon
  <2> QED
    <3>1. n - j >= 8 \/ n - j < 8
      <4> DEFINE z == n - j
      <4>1. z \in Nat
        BY <2>3
      <4> HIDE DEF z
      <4>2. z >= 8 \/ z < 8
        BY <4>1
      <4> QED
        BY <4>2 DEF z
    <3> QED
      BY <2>4, <2>5, <3>1
<1> QED
  BY <1>2, <1>7, <1>8, <1>9

(* What the packing of the image puts into a block of columns *)
LEMMA ReorderedInputAt ==
  ASSUME s \in Shape, NEW b, NEW a \in Starts(PackWidths, N(s)),
         NEW x \in 0 .. Widest(PackWidths, N(s) - a) - 1, NEW c \in 0 .. K(s) - 1
  PROVE  /\ a * K(s) + Widest(PackWidths, N(s) - a) * c + x \in 0 .. K(s) * N(s) - 1
         /\ ReorderInput(b, K(s), N(s))[a * K(s) + Widest(PackWidths, N(s) - a) * c + x]
              = b[MatrixAt(c, a + x)]
<1> DEFINE n == N(s)
           k == K(s)
           widths == PackWidths
           w == Widest(widths, n - a)
           t == a * k + w * c + x
           q == BlockOf(Blocks(widths, n), t \div k)
<1>1. s \in Convolution
  BY ShapeAssumption
<1>2. n \in Nat \ {0} /\ k \in Nat \ {0} /\ widths \subseteq Nat \ {0}
  BY <1>1, ShapeNumbers, PackWidthsPositive
<1>3. a \in Nat /\ w \in Nat \ {0} /\ a + w <= n
  <2>1. a \in 0 .. n - 1 /\ w \in 1 .. n - a
    <3> HIDE DEF n, widths
    <3>1. \A y \in Starts(widths, n) : y \in 0 .. n - 1 /\ Widest(widths, n - y) \in 1 .. n - y
      BY <1>2, StartsFacts
    <3>2. a \in Starts(widths, n)
      BY DEF widths, n
    <3> QED
      BY <3>1, <3>2
  <2> HIDE DEF w, n
  <2> QED
    BY <1>2, <2>1
<1>4. /\ t \in 0 .. k * n - 1 /\ t \div k \in a .. a + w - 1 /\ t - a * k = w * c + x
      /\ (w * c + x) % w = x /\ (w * c + x) \div w = c
  <2>1. x \in 0 .. w - 1 /\ c \in 0 .. k - 1
    OBVIOUS
  <2> HIDE DEF n, k, w
  <2>2. /\ t \in 0 .. n * k - 1 /\ t \div k \in a .. a + w - 1 /\ t - a * k = w * c + x
        /\ (w * c + x) % w = x /\ (w * c + x) \div w = c
    BY <1>2, <1>3, <2>1, PackedPlace
  <2>3. n * k = k * n
    BY <1>2
  <2> QED
    BY <2>2, <2>3, Zenon
<1>5. q = BlockAt(widths, n, a)
  <2>1. t \div k \in a .. a + Widest(widths, n - a) - 1 /\ a \in Starts(widths, n)
    BY <1>4
  <2> HIDE DEF t, n, k, widths
  <2> QED
    BY <1>2, <2>1, BlockHere
<1>6. q.start = a /\ q.width = w
  BY <1>5 DEF BlockAt
<1>7. ReorderInput(b, k, n)[t]
        = b[MatrixAt((t - q.start * k) \div q.width, q.start + ((t - q.start * k) % q.width))]
  <2> DEFINE body(z) == LET v == BlockOf(Blocks(widths, n), z \div k)
                            o == z - v.start * k
                        IN b[MatrixAt(o \div v.width, v.start + (o % v.width))]
  <2>1. ReorderInput(b, k, n) = [z \in 0 .. k * n - 1 |-> body(z)]
    BY Zenon DEF ReorderInput
  <2>2. ReorderInput(b, k, n)[t] = body(t)
    <3> HIDE DEF body, t
    <3> QED
      BY <1>4, <2>1
  <2> QED
    BY <2>2, Zenon
<1>8. ReorderInput(b, k, n)[t] = b[MatrixAt((t - a * k) \div w, a + ((t - a * k) % w))]
  <2> HIDE DEF t, q
  <2> QED
    BY <1>6, <1>7, Zenon
<1>9. ReorderInput(b, k, n)[t] = b[MatrixAt(c, a + x)]
  <2> HIDE DEF t
  <2> QED
    BY <1>4, <1>8, Zenon
<1> QED
  BY <1>4, <1>9

(* The tiles find there the matrix. *)
LEMMA InputRead ==
  ASSUME s \in Shape, i \in 0 .. s.m - 1, j \in Starts(PackWidths, N(s)), NEW b,
         NEW c \in 0 .. K(s) - 1, NEW x \in 0 .. Cols - 1
  PROVE  /\ InputAt(Cols, c, x) \in 0 .. K(s) * N(s) - 1
         /\ ReorderInput(b, K(s), N(s))[InputAt(Cols, c, x)] = b[MatrixAt(c, j + x)]
<1> DEFINE k == K(s)
           n == N(s)
           widths == PackWidths
           cols == Cols
           narrow == Pack1(s) /\ s.backend = "rvv" /\ cols < 8
<1>1. s \in Convolution
  BY ShapeAssumption
<1>2. n \in Nat \ {0} /\ k \in Nat \ {0}
  BY <1>1, ShapeNumbers
<1>3. /\ j \in 0 .. n - 1
      /\ IF narrow
         THEN \A y \in 0 .. cols - 1 : j + y \in Starts(widths, n) /\ Widest(widths, n - (j + y)) = 1
         ELSE Widest(widths, n - j) = cols
  BY ColumnsMeet
<1>4. cols \in 1 .. n - j
  BY <1>3, TileFits
<1>5. CASE narrow
  <2> DEFINE a == j + x
  <2>1. a \in Starts(widths, n) /\ Widest(widths, n - a) = 1
    BY <1>3, <1>5
  <2>2. 0 \in 0 .. Widest(widths, n - a) - 1
    BY <2>1
  <2>3. /\ a * k + Widest(widths, n - a) * c + 0 \in 0 .. k * n - 1
        /\ ReorderInput(b, k, n)[a * k + Widest(widths, n - a) * c + 0] = b[MatrixAt(c, a + 0)]
    <3> HIDE DEF a
    <3> QED
      BY <2>1, <2>2, ReorderedInputAt
  <2>4. a * k + Widest(widths, n - a) * c + 0 = a * k + c /\ a + 0 = a
    <3>1. a \in Nat /\ c \in Nat
      <4>1. x \in Nat /\ j \in Nat
        <5> HIDE DEF n, cols
        <5> QED
          BY <1>2, <1>3, <1>4
      <4> QED
        BY <4>1
    <3> DEFINE u == a * k
    <3>2. u \in Nat
      <4> HIDE DEF a, k
      <4> QED
        BY <1>2, <3>1
    <3> HIDE DEF u, a
    <3>3. u + 1 * c + 0 = u + c /\ a + 0 = a
      BY <3>1, <3>2
    <3> QED
      BY <2>1, <3>3, Zenon DEF u
  <2>5. InputAt(Cols, c, x) = a * k + c
    BY <1>5, Zenon DEF InputAt
  <2> QED
    <3> HIDE DEF widths, k, n
    <3> QED
      BY <2>3, <2>4, <2>5, Zenon DEF k, n
<1>6. CASE ~narrow
  <2>1. Widest(widths, n - j) = cols
    BY <1>3, <1>6, Zenon
  <2> DEFINE a == j
  <2>2. /\ a \in Starts(widths, n) /\ x \in 0 .. Widest(widths, n - a) - 1
    BY <2>1
  <2>3. /\ a * k + Widest(widths, n - a) * c + x \in 0 .. k * n - 1
        /\ ReorderInput(b, k, n)[a * k + Widest(widths, n - a) * c + x] = b[MatrixAt(c, a + x)]
    <3> HIDE DEF a
    <3> QED
      BY <2>2, ReorderedInputAt
  <2>4. InputAt(Cols, c, x) = j * k + cols * c + x
    BY <1>6, Zenon DEF InputAt
  <2> QED
    BY <2>1, <2>3, <2>4, Zenon
<1> QED
  BY <1>5, <1>6

-----------------------------------------------------------------------------
(* The matrix *)

LEMMA RowInside ==
  ASSUME NEW m \in Nat \ {0}, NEW n \in Nat \ {0}, NEW row \in 0 .. m - 1, NEW y \in 0 .. n - 1
  PROVE  /\ row * n + y \in 0 .. m * n - 1
         /\ (row * n + y) \div n = row /\ (row * n + y) % n = y
<1>1. PICK d \in Nat : m = row + 1 + d
  <2>1. m - (row + 1) \in Nat /\ m = row + 1 + (m - (row + 1))
    OBVIOUS
  <2> QED
    BY <2>1
<1>2. m * n = row * n + n + d * n /\ d * n \in Nat /\ row * n \in Nat
  BY <1>1
<1>3. row * n + y \in 0 .. m * n - 1
  BY <1>2
<1>4. row \in Nat
  OBVIOUS
<1> QED
  BY <1>3, <1>4, RowAndLane

LEMMA WidthOne ==
  ASSUME NEW n \in Nat, NEW size \in Nat, NEW ch \in 0 .. n - 1, NEW pos \in 0 .. size - 1
  PROVE  LaneAt(1, n, size, ch, pos) = ch * size + pos
<1> DEFINE st == Start(1, n, ch)
           w == Width(1, n - st)
<1>1. /\ LaneAt(1, n, size, ch, pos) = st * size + pos * w + (ch - st)
      /\ st \in 0 .. ch /\ w \in Nat /\ w <= 1 /\ ch - st \in 0 .. w - 1
  BY LaneIs
<1> HIDE DEF st, w
<1>2. w = 1 /\ st = ch
  BY <1>1
<1>3. ch * size + pos * 1 + (ch - ch) = ch * size + pos
  <2> DEFINE u == ch * size
  <2>1. u \in Int
    OBVIOUS
  <2> HIDE DEF u
  <2>2. u + pos * 1 + (ch - ch) = u + pos
    BY <2>1
  <2> QED
    BY <2>2 DEF u
<1> QED
  BY <1>1, <1>2, <1>3, Zenon

LEMMA Packings ==
  ASSUME NEW x \in Convolution
  PROVE  /\ Pack1ton(x) => PackIn(x) = 1 /\ Pack(x) = PackN(x)
         /\ ~Pack1ton(x) => PackIn(x) = Pack(x)
         /\ Packnto1(x) => PackOut(x) = 1 /\ Pack(x) = PackN(x)
         /\ Pack1(x) => PackOut(x) = 1 /\ Pack(x) = 1
         /\ ~Packnto1(x) /\ ~Pack1(x) => PackOut(x) = PackN(x) /\ Pack(x) = PackN(x)
                                         /\ (Packn(x) \/ Pack1ton(x))
BY DEF Packn, Pack1ton, Packnto1, Pack1, PackIn, PackOut, Pack

LEMMA MatrixRight ==
  ASSUME s \in Shape, Accepted(s), NEW h \in Nat, NEW c \in 0 .. K(s) - 1, NEW y \in 0 .. N(s) - 1
  PROVE  Matrix(h)[MatrixAt(c, y)] = Pixel(h, Product(s, c).ch, Product(s, c).pos, y)
<1> DEFINE pack == Pack(s)
           cin == s.cin
           mk == Maxk(s)
           n == N(s)
           ch == Product(s, c).ch
           pos == Product(s, c).pos
           e == pos * n + y
           t == MatrixAt(c, y)
<1>1. s \in Convolution
  BY ShapeAssumption
<1>2. /\ n \in Nat \ {0} /\ pack \in Nat \ {0} /\ cin \in Nat \ {0} /\ mk \in Nat \ {0}
      /\ K(s) = cin * mk /\ mk = s.kh * s.kw /\ PackN(s) \in Nat \ {0}
      /\ s.kh \in Nat \ {0} /\ s.kw \in Nat \ {0}
  BY <1>1, ShapeNumbers, ChannelNumbers
<1>3. ch \in 0 .. cin - 1 /\ pos \in 0 .. mk - 1
  BY <1>1, ProductOf
<1>4. t = LaneAt(pack, cin, mk * n, ch, e)
  BY Zenon DEF MatrixAt
<1> HIDE DEF pack, cin, mk, n, ch, pos, t
<1>5. /\ e \in 0 .. mk * n - 1 /\ e \div n = pos /\ e % n = y /\ mk * n \in Nat \ {0}
      /\ cin * (mk * n) = cin * mk * n /\ y \in 0 .. n - 1
  <2>0. y \in 0 .. n - 1
    BY DEF n
  <2>1. mk \in Nat \ {0} /\ n \in Nat \ {0} /\ pos \in 0 .. mk - 1 /\ y \in 0 .. n - 1
    BY <1>2, <1>3, <2>0
  <2>3. pos * n + y \in 0 .. mk * n - 1 /\ (pos * n + y) \div n = pos /\ (pos * n + y) % n = y
    BY ONLY <2>1, RowInside
  <2>5. mk * n \in Nat \ {0} /\ cin * (mk * n) = cin * mk * n
    BY <1>2
  <2> QED
    BY <2>0, <2>3, <2>5, Zenon DEF e
<1> HIDE DEF e
<1>6. t \in 0 .. K(s) * n - 1 /\ Lane(pack, cin, mk * n, t) = [ch |-> ch, pos |-> e]
  <2> DEFINE size == mk * n
  <2>1. size \in Nat \ {0} /\ e \in 0 .. size - 1
    BY <1>5
  <2> HIDE DEF size
  <2>2. LaneAt(pack, cin, size, ch, e) \in 0 .. cin * size - 1
    BY <1>2, <1>3, <2>1, LaneInside
  <2>3. Lane(pack, cin, size, LaneAt(pack, cin, size, ch, e)) = [ch |-> ch, pos |-> e]
    <3>1. /\ pack \in Nat \ {0} /\ cin \in Nat /\ size \in Nat \ {0}
          /\ ch \in 0 .. cin - 1 /\ e \in 0 .. size - 1
      BY <1>2, <1>3, <2>1
    <3> QED
      BY ONLY <3>1, LaneBack
  <2>4. cin * size = K(s) * n
    BY <1>2, <1>5 DEF size
  <2> QED
    BY <1>4, <2>2, <2>3, <2>4, Zenon DEF size
<1>7. CASE ~Is1x1(s)
  <2>1. Matrix(h) = [x \in 0 .. K(s) * n - 1 |->
                       Pixel(h, Lane(pack, cin, mk * n, x).ch, Lane(pack, cin, mk * n, x).pos \div n,
                             Lane(pack, cin, mk * n, x).pos % n)]
    BY <1>7, Zenon DEF Matrix, Im2col, n, pack, cin, mk
  <2>2. Matrix(h)[t] = Pixel(h, Lane(pack, cin, mk * n, t).ch, Lane(pack, cin, mk * n, t).pos \div n,
                             Lane(pack, cin, mk * n, t).pos % n)
    BY <1>6, <2>1, Zenon
  <2>3. Lane(pack, cin, mk * n, t).ch = ch /\ Lane(pack, cin, mk * n, t).pos = e
    BY <1>6
  <2>4. Matrix(h)[t] = Pixel(h, ch, pos, y)
    BY <1>5, <2>2, <2>3, Zenon
  <2> QED
    BY <2>4 DEF t, ch, pos
<1>8. CASE Is1x1(s)
  <2>1. /\ s.kh = 1 /\ s.kw = 1 /\ s.sh = 1 /\ s.sw = 1
        /\ s.pt = 0 /\ s.pl = 0 /\ s.oh = s.ih /\ s.ow = s.iw
    BY <1>8 DEF Is1x1, Accepted
  <2>2. mk = 1 /\ pos = 0 /\ K(s) = cin /\ e = y /\ mk * n = n
    <3>1. mk = 1
      BY <1>2, <2>1
    <3>2. pos = 0 /\ K(s) = cin /\ mk * n = n
      BY <1>2, <1>3, <3>1
    <3>3. e = y
      <4>1. 0 * n + y = y
        BY <1>2, <1>5
      <4> QED
        BY <3>2, <4>1 DEF e
    <3> QED
      BY <3>1, <3>2, <3>3
  <2>3. s.ow \in Nat \ {0} /\ s.oh \in Nat \ {0} /\ n = s.oh * s.ow
    BY <1>1 DEF Convolution, n, N
  <2> DEFINE row == y \div s.ow
             col == y % s.ow
  <2>4. row \in 0 .. s.oh - 1 /\ col \in 0 .. s.ow - 1 /\ row * s.ow + col = y
    <3> DEFINE ow == s.ow
               oh == s.oh
    <3>1. ow \in Nat \ {0} /\ oh \in Nat \ {0} /\ y \in Nat /\ y < oh * ow
      <4>1. y \in 0 .. oh * ow - 1 /\ oh * ow \in Nat
        BY <1>5, <2>3
      <4> QED
        BY <2>3, <4>1
    <3> HIDE DEF ow, oh
    <3>2. /\ y \div ow \in Nat /\ y % ow \in 0 .. ow - 1 /\ y = (y \div ow) * ow + (y % ow)
          /\ y \div ow < oh
      BY <3>1, Divided
    <3>3. y \div ow \in 0 .. oh - 1
      <4> DEFINE z == y \div ow
      <4>1. z \in Nat /\ z < oh
        BY <3>2
      <4> HIDE DEF z
      <4>2. z \in 0 .. oh - 1
        BY <3>1, <4>1
      <4> QED
        BY <4>2 DEF z
    <3> QED
      BY <3>2, <3>3 DEF ow, oh
  <2>5. (0 \div s.kw) + row * s.sh - s.pt = row /\ (0 % s.kw) + col * s.sw - s.pl = col
    <3>1. row \in Int /\ col \in Int
      BY <2>4
    <3>2. 0 \div 1 = 0 /\ 0 % 1 = 0
      OBVIOUS
    <3> HIDE DEF row, col
    <3>3. 0 + row * 1 - 0 = row /\ 0 + col * 1 - 0 = col
      BY <3>1
    <3> QED
      BY <2>1, <3>2, <3>3, Zenon
  <2>6. Pixel(h, ch, 0, y) = <<ImageAt(h, ch, row, col)>>
    <3>1. row \in 0 .. s.ih - 1 /\ col \in 0 .. s.iw - 1
      BY <2>1, <2>4
    <3> DEFINE r0 == (0 \div s.kw) + (y \div s.ow) * s.sh - s.pt
               c0 == (0 % s.kw) + (y % s.ow) * s.sw - s.pl
    <3>2. r0 = row /\ c0 = col
      BY <2>5
    <3>3. Pixel(h, ch, 0, y) = IF r0 \in 0 .. s.ih - 1 /\ c0 \in 0 .. s.iw - 1
                               THEN <<ImageAt(h, ch, r0, c0)>> ELSE <<>>
      BY Zenon DEF Pixel
    <3> HIDE DEF r0, c0, row, col
    <3> QED
      BY <3>1, <3>2, <3>3, Zenon
  <2>7. ImageAt(h, ch, row, col) = h * cin * n + LaneAt(PackIn(s), cin, n, ch, y)
    <3>1. row * s.iw + col = y
      BY <2>1, <2>4
    <3>2. s.ih * s.iw = n
      BY <2>1, <2>3
    <3>3. ImageAt(h, ch, row, col)
            = h * s.cin * s.ih * s.iw + LaneAt(PackIn(s), s.cin, s.ih * s.iw, ch, row * s.iw + col)
      BY Zenon DEF ImageAt
    <3>4. h * s.cin * s.ih * s.iw = h * cin * n
      <4> DEFINE a == s.ih
                 b == s.iw
      <4>1. a \in Nat /\ b \in Nat /\ cin \in Nat /\ n = a * b
        BY <1>2, <2>1, <2>3
      <4>2. cin = s.cin
        BY DEF cin
      <4> HIDE DEF a, b
      <4>3. h * cin * a * b = h * cin * (a * b)
        BY <4>1
      <4> QED
        BY <4>1, <4>2, <4>3 DEF a, b
    <3> HIDE DEF row, col
    <3> QED
      BY <3>1, <3>2, <3>3, <3>4, Zenon DEF cin
  <2>8. t = LaneAt(pack, cin, n, ch, y) /\ t \in 0 .. cin * n - 1
    BY <1>4, <1>6, <2>2, Zenon
  <2>9. Matrix(h)[t] = <<h * cin * n + LaneAt(PackIn(s), cin, n, ch, y)>>
    <3>1. CASE Pack1ton(s)
      <4>1. PackIn(s) = 1 /\ PackN(s) = pack
        BY <1>1, <3>1, Packings DEF pack
      <4>2. Matrix(h) = [x \in 0 .. K(s) * n - 1 |->
              <<h * K(s) * n + Lane(PackN(s), cin, n, x).ch * n + Lane(PackN(s), cin, n, x).pos>>]
        BY <1>8, <3>1, Zenon DEF Matrix, n, cin
      <4>3. Matrix(h)[t] = <<h * K(s) * n + Lane(PackN(s), cin, n, t).ch * n + Lane(PackN(s), cin, n, t).pos>>
        BY <1>6, <4>2, Zenon
      <4>4. Lane(PackN(s), cin, n, t).ch = ch /\ Lane(PackN(s), cin, n, t).pos = y
        <5>1. Lane(PackN(s), cin, n, t) = [ch |-> ch, pos |-> y]
          BY <1>6, <2>2, <4>1, Zenon
        <5> QED
          BY <5>1
      <4>5. LaneAt(1, cin, n, ch, y) = ch * n + y
        BY <1>2, <1>3, <1>5, WidthOne
      <4>6. h * cin * n + ch * n + y = h * cin * n + (ch * n + y)
        <5> DEFINE u == h * cin * n
                   v == ch * n
        <5>1. u \in Int /\ v \in Int /\ y \in Int
          BY <1>2, <1>3, <1>5
        <5> HIDE DEF u, v
        <5>2. u + v + y = u + (v + y)
          BY <5>1
        <5> QED
          BY <5>2 DEF u, v
      <4> QED
        BY <2>2, <4>1, <4>3, <4>4, <4>5, <4>6, Zenon
    <3>2. CASE ~Pack1ton(s)
      <4>1. PackIn(s) = pack
        BY <1>1, <3>2, Packings DEF pack
      <4>2. Matrix(h) = [x \in 0 .. K(s) * n - 1 |-> <<h * K(s) * n + x>>]
        BY <1>8, <3>2, Zenon DEF Matrix, n
      <4>3. Matrix(h)[t] = <<h * K(s) * n + t>>
        BY <1>6, <4>2, Zenon
      <4> QED
        BY <2>2, <2>8, <4>1, <4>3, Zenon
    <3> QED
      BY <3>1, <3>2
  <2>10. Matrix(h)[t] = Pixel(h, ch, pos, y)
    <3> HIDE DEF row, col
    <3> QED
      BY <2>2, <2>6, <2>7, <2>9, Zenon
  <2> QED
    BY <2>10 DEF t, ch, pos
<1> QED
  BY <1>7, <1>8

-----------------------------------------------------------------------------
(* The tiles *)

(* What an output of a group has to be: its bias and every product, each a  *)
(* weight of its row and the pixel the tap of that weight meets.            *)
Wanted(h, row, y) ==
  [bias |-> Bias(h, row),
   sum |-> [c \in Products |-> << <<h * s.m * K(s) + row * K(s) + Tap(s, c)>>,
                                  Pixel(h, Product(s, c).ch, Product(s, c).pos, y) >>]]

LEMMA TileCell ==
  ASSUME ConvInv, Running, Accepted(s), KernelRight,
         i \in Starts(RowWidths(s), s.m), j \in Starts(PackWidths, N(s)),
         NEW r \in 0 .. Rows - 1, NEW x \in 0 .. Cols - 1
  PROVE  /\ i + r \in 0 .. s.m - 1 /\ j + x \in 0 .. N(s) - 1
         /\ CellAt(s, g, i + r, j + x) \in Writes
         /\ TileResult[CellAt(s, g, i + r, j + x)] = Wanted(g, i + r, j + x)
<1> DEFINE m == s.m
           k == K(s)
           n == N(s)
           pack == Pack(s)
           rows == Rows
           cols == Cols
           row == i + r
           y == j + x
           base == g * m * n
           a == CellAt(s, g, row, y)
           input == ReorderInput(Matrix(g), k, n)
<1>1. s \in Convolution /\ s \in Shape /\ g \in 0 .. s.group /\ i \in 0 .. m - 1 /\ j \in 0 .. n - 1
  BY ShapeAssumption DEF ConvInv
<1>2. /\ m \in Nat \ {0} /\ k \in Nat \ {0} /\ n \in Nat \ {0} /\ s.group \in Nat \ {0}
      /\ pack \in Nat \ {0}
  BY <1>1, ShapeNumbers
<1>3. g \in 0 .. s.group - 1 /\ g \in Nat
  BY <1>1, <1>2 DEF Running
<1>4. rows \in 1 .. m - i /\ cols \in 1 .. n - j
  BY <1>1, TileFits
<1>5. row \in 0 .. m - 1 /\ y \in 0 .. n - 1 /\ row - i = r /\ y - j = x /\ i \in Nat /\ j \in Nat
  <2> HIDE DEF rows, cols, m, n
  <2> QED
    BY <1>1, <1>2, <1>4 DEF rows, cols
<1>6. a \in Writes
  <2>1. a = Place(r, x)
    BY Zenon DEF CellAt, Place
  <2> HIDE DEF a
  <2> QED
    BY <2>1 DEF Writes
<1>7. Lane(pack, m, n, a - base) = [ch |-> row, pos |-> y]
  <2> DEFINE l == LaneAt(pack, m, n, row, y)
  <2>1. a = base + l
    BY Zenon DEF CellAt
  <2>2. /\ pack \in Nat \ {0} /\ m \in Nat /\ n \in Nat \ {0} /\ row \in 0 .. m - 1 /\ y \in 0 .. n - 1
    BY <1>2, <1>5
  <2>3. l \in Int /\ base \in Int
    <3>1. l \in 0 .. m * n - 1
      <4> HIDE DEF pack, m, n, row, y
      <4> QED
        BY <2>2, LaneInside
    <3>2. base \in Int
      <4> HIDE DEF m, n
      <4> QED
        BY <1>2, <1>3
    <3> QED
      BY <3>1, <3>2
  <2>4. Lane(pack, m, n, l) = [ch |-> row, pos |-> y]
    <3> HIDE DEF pack, m, n, row, y
    <3> QED
      BY ONLY <2>2, LaneBack DEF l
  <2>5. a - base = l
    <3> HIDE DEF a, base, l
    <3> QED
      BY <2>1, <2>3
  <2> QED
    BY <2>4, <2>5, Zenon
<1>8. ASSUME NEW c \in Products
      PROVE  /\ At(kdata, KernelAt(rows, c, r)) = <<g * m * k + row * k + Tap(s, c)>>
             /\ At(input, InputAt(cols, c, x)) = Pixel(g, Product(s, c).ch, Product(s, c).pos, y)
  <2>1. c \in 0 .. k - 1
    BY DEF Products
  <2>2. KernelAt(rows, c, r) = g * m * k + i * k + rows * c + r
    BY Zenon DEF KernelAt
  <2>3. /\ g * m * k + i * k + Widest(RowWidths(s), s.m - i) * c + r \in DOMAIN kdata
        /\ kdata[g * m * k + i * k + Widest(RowWidths(s), s.m - i) * c + r]
             = <<g * m * k + (i + r) * k + Tap(s, c)>>
    <3>1. r \in 0 .. Widest(RowWidths(s), s.m - i) - 1
      BY DEF Rows
    <3>2. RightKernel(s, kdata)
      BY DEF KernelRight
    <3> QED
      BY <1>3, <2>1, <3>1, <3>2 DEF RightKernel
  <2>4. Widest(RowWidths(s), s.m - i) = rows
    BY DEF Rows
  <2>5. At(kdata, KernelAt(rows, c, r)) = <<g * m * k + row * k + Tap(s, c)>>
    <3> HIDE DEF rows
    <3> QED
      BY <2>2, <2>3, <2>4, Zenon DEF At
  <2>6. /\ InputAt(cols, c, x) \in 0 .. k * n - 1
        /\ input[InputAt(cols, c, x)] = Matrix(g)[MatrixAt(c, y)]
    BY <1>1, <2>1, InputRead
  <2>7. DOMAIN input = 0 .. k * n - 1
    BY DEF ReorderInput
  <2>8. Matrix(g)[MatrixAt(c, y)] = Pixel(g, Product(s, c).ch, Product(s, c).pos, y)
    <3> HIDE DEF y
    <3> QED
      BY <1>1, <1>3, <1>5, <2>1, MatrixRight
  <2>9. At(input, InputAt(cols, c, x)) = input[InputAt(cols, c, x)]
    <3> HIDE DEF input
    <3> QED
      BY <2>6, <2>7, Zenon DEF At
  <2> QED
    BY <2>5, <2>6, <2>8, <2>9, Zenon
<1>9. TileResult[a]
        = [bias |-> Bias(g, row),
           sum |-> [c \in Products |-> <<At(kdata, KernelAt(rows, c, row - i)),
                                         At(input, InputAt(cols, c, y - j))>>]]
  <2> DEFINE cell(z) ==
               [bias |-> Bias(g, Lane(pack, m, n, z - base).ch),
                sum |-> [c \in Products |->
                           <<At(kdata, KernelAt(rows, c, Lane(pack, m, n, z - base).ch - i)),
                             At(input, InputAt(cols, c, Lane(pack, m, n, z - base).pos - j))>>]]
  <2>1. TileResult = [z \in Writes |-> cell(z)]
    BY Zenon DEF TileResult
  <2>2. TileResult[a] = cell(a)
    <3> HIDE DEF cell, a
    <3> QED
      BY <1>6, <2>1, Zenon
  <2>3. Lane(pack, m, n, a - base).ch = row /\ Lane(pack, m, n, a - base).pos = y
    <3> HIDE DEF row, y, a, base
    <3> QED
      BY <1>7
  <2>4. cell(a) = [bias |-> Bias(g, row),
                   sum |-> [c \in Products |-> <<At(kdata, KernelAt(rows, c, row - i)),
                                                 At(input, InputAt(cols, c, y - j))>>]]
    <3> HIDE DEF row, y, a, base, input, rows, cols, pack, m, n
    <3> QED
      BY <2>3, Zenon
  <2> QED
    BY <2>2, <2>4, Zenon
<1>10. [c \in Products |-> <<At(kdata, KernelAt(rows, c, row - i)), At(input, InputAt(cols, c, y - j))>>]
         = [c \in Products |-> << <<g * m * k + row * k + Tap(s, c)>>,
                                  Pixel(g, Product(s, c).ch, Product(s, c).pos, y) >>]
  <2>1. row - i = r /\ y - j = x
    BY <1>5
  <2> HIDE DEF row, y, input, rows, cols, m, k, n
  <2>2. ASSUME NEW c \in Products
        PROVE  <<At(kdata, KernelAt(rows, c, row - i)), At(input, InputAt(cols, c, y - j))>>
                 = << <<g * m * k + row * k + Tap(s, c)>>, Pixel(g, Product(s, c).ch, Product(s, c).pos, y) >>
    <3>1. /\ At(kdata, KernelAt(rows, c, r)) = <<g * m * k + row * k + Tap(s, c)>>
          /\ At(input, InputAt(cols, c, x)) = Pixel(g, Product(s, c).ch, Product(s, c).pos, y)
      BY <1>8
    <3> QED
      BY <2>1, <3>1, Zenon
  <2> QED
    BY <2>2, Zenon
<1>11. TileResult[a] = Wanted(g, row, y)
  <2> HIDE DEF a, row, y, input, rows, cols
  <2> QED
    BY <1>9, <1>10, Zenon DEF Wanted
<1> QED
  BY <1>5, <1>6, <1>11

LEMMA SameShape ==
  ASSUME s' = s
  PROVE  /\ PackWidths' = PackWidths
         /\ \A h, row, y : Wanted(h, row, y)' = Wanted(h, row, y)
<1>1. PackWidths' = PackWidths
  BY Zenon DEF PackWidths
<1>2. \A h, im, row, col : ImageAt(h, im, row, col)' = ImageAt(h, im, row, col)
  BY Zenon DEF ImageAt
<1>3. \A h, im, tap, y : Pixel(h, im, tap, y)' = Pixel(h, im, tap, y)
  BY <1>2, ZenonT(30) DEF Pixel
<1>4. \A h, row : Bias(h, row)' = Bias(h, row)
  BY Zenon DEF Bias
<1>5. Products' = Products
  BY Zenon DEF Products
<1>6. ASSUME NEW h, NEW row, NEW y PROVE Wanted(h, row, y)' = Wanted(h, row, y)
  BY <1>3, <1>4, <1>5, Zenon DEF Wanted
<1> QED
  BY <1>1, <1>6

(* Where an output of a finished group is *)
Here(x, h, row, y) ==
  h * x.m * N(x) + IF Packnto1(x) THEN row * N(x) + y ELSE LaneAt(Pack(x), x.m, N(x), row, y)

(* The outputs of the running group that are made once the loops stand at a, b *)
DoneAt(x, a, b, row, y) == row < a \/ (row < a + Widest(RowWidths(x), x.m - a) /\ y < b)
Cells(x, h, a, b) ==
  {CellAt(x, h, z[1], z[2]) : z \in {z \in (0 .. x.m - 1) \X (0 .. N(x) - 1) : DoneAt(x, a, b, z[1], z[2])}}

LEMMA CellsAre ==
  ASSUME NEW x, NEW h, NEW a, NEW b, NEW z
  PROVE  z \in Cells(x, h, a, b)
           <=> \E row \in 0 .. x.m - 1, y \in 0 .. N(x) - 1 :
                 DoneAt(x, a, b, row, y) /\ z = CellAt(x, h, row, y)
<1> DEFINE R == 0 .. x.m - 1
           C == 0 .. N(x) - 1
           D == {v \in R \X C : DoneAt(x, a, b, v[1], v[2])}
<1>1. Cells(x, h, a, b) = {CellAt(x, h, v[1], v[2]) : v \in D}
  BY Zenon DEF Cells
<1> HIDE DEF R, C
<1>2. ASSUME z \in Cells(x, h, a, b)
      PROVE  \E row \in R, y \in C : DoneAt(x, a, b, row, y) /\ z = CellAt(x, h, row, y)
  <2>1. PICK v \in D : z = CellAt(x, h, v[1], v[2])
    <3> HIDE DEF D
    <3> QED
      BY <1>1, <1>2, Zenon
  <2>2. v[1] \in R /\ v[2] \in C /\ DoneAt(x, a, b, v[1], v[2])
    OBVIOUS
  <2> QED
    BY <2>1, <2>2, Zenon
<1>3. ASSUME NEW row \in R, NEW y \in C, DoneAt(x, a, b, row, y), z = CellAt(x, h, row, y)
      PROVE  z \in Cells(x, h, a, b)
  <2> DEFINE v == <<row, y>>
  <2>1. v \in R \X C /\ v[1] = row /\ v[2] = y
    OBVIOUS
  <2> HIDE DEF v
  <2>2. v \in D /\ z = CellAt(x, h, v[1], v[2])
    BY <1>3, <2>1
  <2> HIDE DEF D
  <2> QED
    BY <1>1, <2>2, Zenon
<1> QED
  BY <1>2, <1>3 DEF R, C

(* How far a run is: the loops stand at the start of a block, of rows as of   *)
(* packed columns, and what is made so far is right.                          *)
Progress(x, widths, h, a, b, o) ==
  /\ a \in Starts(RowWidths(x), x.m) /\ b \in Starts(widths, N(x))
  /\ h = x.group => a = 0 /\ b = 0
  /\ DOMAIN o = (0 .. h * x.m * N(x) - 1) \cup Cells(x, h, a, b)
  /\ \A f \in 0 .. h - 1, row \in 0 .. x.m - 1, y \in 0 .. N(x) - 1 :
       o[Here(x, f, row, y)] = Wanted(f, row, y)
  /\ \A row \in 0 .. x.m - 1, y \in 0 .. N(x) - 1 :
       DoneAt(x, a, b, row, y) => o[CellAt(x, h, row, y)] = Wanted(h, row, y)

LEMMA ProgressNext ==
  ASSUME s' = s, Progress(s, PackWidths, g', i', j', output')
  PROVE  Progress(s, PackWidths, g, i, j, output)'
<1>1. PackWidths' = PackWidths /\ \A h, row, y : Wanted(h, row, y)' = Wanted(h, row, y)
  BY SameShape
<1> QED
  BY <1>1, Zenon DEF Progress

LEMMA HereInside ==
  ASSUME NEW x \in Convolution, NEW h \in Nat, NEW f \in 0 .. h - 1,
         NEW row \in 0 .. x.m - 1, NEW y \in 0 .. N(x) - 1
  PROVE  Here(x, f, row, y) \in 0 .. h * x.m * N(x) - 1
<1> DEFINE m == x.m
           n == N(x)
           pack == Pack(x)
           l == IF Packnto1(x) THEN row * n + y ELSE LaneAt(pack, m, n, row, y)
<1>1. m \in Nat \ {0} /\ n \in Nat \ {0} /\ pack \in Nat \ {0} /\ row \in 0 .. m - 1 /\ y \in 0 .. n - 1
  BY ShapeNumbers
<1>2. Here(x, f, row, y) = f * m * n + l
  BY Zenon DEF Here
<1>3. l \in 0 .. m * n - 1
  <2>1. row * n + y \in 0 .. m * n - 1
    <3> HIDE DEF m, n
    <3> QED
      BY <1>1, RowInside
  <2>2. LaneAt(pack, m, n, row, y) \in 0 .. m * n - 1
    <3> HIDE DEF m, n, pack
    <3> QED
      BY <1>1, LaneInside
  <2> QED
    BY <2>1, <2>2, Zenon
<1>4. f * m * n + l \in 0 .. h * m * n - 1
  <2> HIDE DEF m, n, l
  <2> QED
    BY <1>1, <1>3, GroupPlace
<1> QED
  BY <1>2, <1>4

(* What is made when the tile is stored *)
After(row, y) == row < i + Rows /\ (row < i \/ y < j + Cols)

LEMMA StoredRight ==
  ASSUME ConvInv, Running, Accepted(s), KernelRight, Progress(s, PackWidths, g, i, j, output)
  PROVE  /\ \A row \in 0 .. s.m - 1, y \in 0 .. N(s) - 1 :
              After(row, y) => /\ CellAt(s, g, row, y) \in DOMAIN Stored(TileResult)
                               /\ Stored(TileResult)[CellAt(s, g, row, y)] = Wanted(g, row, y)
         /\ \A z \in DOMAIN Stored(TileResult) :
              z \in 0 .. g * s.m * N(s) - 1 \/ \E row \in 0 .. s.m - 1, y \in 0 .. N(s) - 1 :
                                                 After(row, y) /\ z = CellAt(s, g, row, y)
         /\ 0 .. g * s.m * N(s) - 1 \subseteq DOMAIN Stored(TileResult)
         /\ \A f \in 0 .. g - 1, row \in 0 .. s.m - 1, y \in 0 .. N(s) - 1 :
              Stored(TileResult)[Here(s, f, row, y)] = Wanted(f, row, y)
<1> DEFINE m == s.m
           n == N(s)
           o == Stored(TileResult)
           rows == Rows
           cols == Cols
           base == g * m * n
<1>1. s \in Convolution /\ s \in Shape /\ g \in 0 .. s.group /\ i \in 0 .. m - 1 /\ j \in 0 .. n - 1
  BY ShapeAssumption DEF ConvInv
<1>2. /\ m \in Nat \ {0} /\ n \in Nat \ {0} /\ s.group \in Nat \ {0}
  BY <1>1, ShapeNumbers
<1>3. rows \in 1 .. m - i /\ cols \in 1 .. n - j
  BY <1>1, TileFits
<1>4. /\ i \in Starts(RowWidths(s), m) /\ j \in Starts(PackWidths, n)
      /\ DOMAIN output = (0 .. base - 1) \cup Cells(s, g, i, j)
      /\ \A f \in 0 .. g - 1, row \in 0 .. m - 1, y \in 0 .. n - 1 :
           output[Here(s, f, row, y)] = Wanted(f, row, y)
      /\ \A row \in 0 .. m - 1, y \in 0 .. n - 1 :
           DoneAt(s, i, j, row, y) => output[CellAt(s, g, row, y)] = Wanted(g, row, y)
  BY Zenon DEF Progress
<1>5. DOMAIN TileResult = Writes /\ Writes \cap DOMAIN output = {}
      /\ \A w \in Writes : \E r \in 0 .. rows - 1, x \in 0 .. cols - 1 : w = CellAt(s, g, i + r, j + x)
  BY TileInv DEF TileResult
<1>6. /\ DOMAIN o = Writes \cup DOMAIN output
      /\ \A z \in Writes : o[z] = TileResult[z]
      /\ \A z \in DOMAIN output : o[z] = output[z]
  BY <1>5 DEF Stored
<1>7. ASSUME NEW row \in 0 .. m - 1, NEW y \in 0 .. n - 1
      PROVE  DoneAt(s, i, j, row, y) <=> row < i \/ (row < i + rows /\ y < j)
  BY Zenon DEF DoneAt, Rows
<1>8. ASSUME NEW z
      PROVE  z \in Cells(s, g, i, j)
               <=> \E row \in 0 .. m - 1, y \in 0 .. n - 1 :
                     DoneAt(s, i, j, row, y) /\ z = CellAt(s, g, row, y)
  BY CellsAre
<1>9. ASSUME NEW row \in 0 .. m - 1, NEW y \in 0 .. n - 1, After(row, y)
      PROVE  CellAt(s, g, row, y) \in DOMAIN o /\ o[CellAt(s, g, row, y)] = Wanted(g, row, y)
  <2>1. row < i + rows /\ (row < i \/ y < j + cols)
    BY <1>9 DEF After
  <2>2. CASE row < i \/ y < j
    <3>1. DoneAt(s, i, j, row, y)
      BY <1>7, <2>1, <2>2
    <3>2. CellAt(s, g, row, y) \in DOMAIN output
      BY <1>4, <1>8, <3>1, Zenon
    <3>3. output[CellAt(s, g, row, y)] = Wanted(g, row, y)
      BY <1>4, <3>1, Zenon
    <3> HIDE DEF o
    <3> QED
      BY <1>6, <3>2, <3>3, Zenon
  <2>3. CASE ~(row < i \/ y < j)
    <3> DEFINE r == row - i
               x == y - j
    <3>1. r \in 0 .. rows - 1 /\ x \in 0 .. cols - 1 /\ i + r = row /\ j + x = y
      <4> HIDE DEF rows, cols, m, n
      <4> QED
        BY <1>1, <1>2, <1>3, <2>1, <2>3
    <3> HIDE DEF r, x
    <3>2. /\ CellAt(s, g, i + r, j + x) \in Writes
          /\ TileResult[CellAt(s, g, i + r, j + x)] = Wanted(g, i + r, j + x)
      BY <1>4, <3>1, TileCell
    <3> HIDE DEF o
    <3>3. CellAt(s, g, row, y) \in Writes /\ TileResult[CellAt(s, g, row, y)] = Wanted(g, row, y)
      BY <3>1, <3>2, Zenon
    <3> QED
      BY <1>6, <3>3, Zenon
  <2> QED
    BY <2>2, <2>3
<1>10. ASSUME NEW z \in DOMAIN o, z \notin 0 .. base - 1
       PROVE  \E row \in 0 .. m - 1, y \in 0 .. n - 1 : After(row, y) /\ z = CellAt(s, g, row, y)
  <2>1. CASE z \in Writes
    <3>1. PICK r \in 0 .. rows - 1, x \in 0 .. cols - 1 : z = CellAt(s, g, i + r, j + x)
      BY <1>5, <2>1
    <3> DEFINE row == i + r
               y == j + x
    <3>2. row \in 0 .. m - 1 /\ y \in 0 .. n - 1 /\ row < i + rows /\ y < j + cols
      <4> HIDE DEF rows, cols, m, n
      <4> QED
        BY <1>1, <1>2, <1>3
    <3>3. After(row, y) /\ z = CellAt(s, g, row, y)
      BY <3>1, <3>2 DEF After
    <3> HIDE DEF row, y
    <3> QED
      BY <3>2, <3>3, Zenon
  <2>2. CASE z \in Cells(s, g, i, j)
    <3>1. PICK row \in 0 .. m - 1, y \in 0 .. n - 1 : DoneAt(s, i, j, row, y) /\ z = CellAt(s, g, row, y)
      BY <1>8, <2>2
    <3>2. row < i \/ (row < i + rows /\ y < j)
      BY <1>7, <3>1
    <3>3. row < i + rows /\ (row < i \/ y < j + cols)
      <4> HIDE DEF rows, cols, m, n
      <4> QED
        BY <1>1, <1>2, <1>3, <3>2
    <3>4. After(row, y)
      BY <3>3 DEF After
    <3> QED
      BY <3>1, <3>4, Zenon
  <2> QED
    <3> HIDE DEF o, base
    <3> QED
      BY <1>4, <1>6, <1>10, <2>1, <2>2, Zenon
<1>11. 0 .. base - 1 \subseteq DOMAIN o
  <2> HIDE DEF o, base
  <2> QED
    BY <1>4, <1>6, Zenon
<1>12. ASSUME NEW f \in 0 .. g - 1, NEW row \in 0 .. m - 1, NEW y \in 0 .. n - 1
       PROVE  o[Here(s, f, row, y)] = Wanted(f, row, y)
  <2>1. Here(s, f, row, y) \in 0 .. base - 1
    <3>1. g \in Nat
      BY <1>1, <1>2
    <3> QED
      BY <1>1, <3>1, HereInside
  <2> HIDE DEF o, base
  <2>2. Here(s, f, row, y) \in DOMAIN output
    BY <1>4, <2>1, Zenon
  <2>3. output[Here(s, f, row, y)] = Wanted(f, row, y)
    BY <1>4, Zenon
  <2> QED
    BY <1>6, <2>2, <2>3, Zenon
<1> QED
  BY <1>9, <1>10, <1>11, <1>12

LEMMA TileInGroup ==
  ASSUME ConvInv, Tile, ~(LastColumns /\ LastRows), Accepted(s), KernelRight,
         Progress(s, PackWidths, g, i, j, output)
  PROVE  Progress(s, PackWidths, g', i', j', output')
<1> DEFINE m == s.m
           n == N(s)
           rows == Rows
           cols == Cols
           base == g * m * n
           o == Stored(TileResult)
<1>1. /\ Running /\ g' = g /\ output' = o
      /\ j' = IF LastColumns THEN 0 ELSE j + cols
      /\ i' = IF ~LastColumns THEN i ELSE IF LastRows THEN 0 ELSE i + rows
  BY Zenon DEF Tile
<1>2. s \in Convolution /\ s \in Shape /\ g \in 0 .. s.group /\ i \in 0 .. m - 1 /\ j \in 0 .. n - 1
  BY ShapeAssumption DEF ConvInv
<1>3. /\ m \in Nat \ {0} /\ n \in Nat \ {0} /\ s.group \in Nat \ {0}
      /\ RowWidths(s) \subseteq Nat \ {0} /\ PackWidths \subseteq Nat \ {0}
  BY <1>2, ShapeNumbers, PackWidthsPositive
<1>4. rows \in 1 .. m - i /\ cols \in 1 .. n - j
  BY <1>2, TileFits
<1>5. i \in Starts(RowWidths(s), m) /\ j \in Starts(PackWidths, n)
  BY Zenon DEF Progress
<1>6. rows = Widest(RowWidths(s), m - i)
  BY Zenon DEF Rows
<1> PICK a, b : a = i' /\ b = j'
  OBVIOUS
<1>7. /\ a \in Starts(RowWidths(s), m) /\ b \in Starts(PackWidths, n)
      /\ \A row \in 0 .. m - 1, y \in 0 .. n - 1 : DoneAt(s, a, b, row, y) <=> After(row, y)
  <2>1. CASE LastColumns
    <3>1. j + cols = n /\ i + rows # m /\ b = 0 /\ a = i + rows
      BY <1>1, <2>1, Zenon DEF LastColumns, LastRows
    <3>2. i + rows < m
      <4> HIDE DEF m, rows
      <4> QED
        BY <1>2, <1>3, <1>4, <3>1
    <3>3. a \in Starts(RowWidths(s), m)
      <4>1. \A x \in Starts(RowWidths(s), m) :
              x + Widest(RowWidths(s), m - x) < m => x + Widest(RowWidths(s), m - x) \in Starts(RowWidths(s), m)
        <5> HIDE DEF m
        <5> QED
          BY <1>3, StartsFacts
      <4> HIDE DEF m, rows
      <4> QED
        BY <1>5, <1>6, <3>1, <3>2, <4>1, Zenon
    <3>4. b \in Starts(PackWidths, n)
      <4>1. n > 0 => 0 \in Starts(PackWidths, n)
        <5> HIDE DEF n
        <5> QED
          BY <1>3, StartsFacts
      <4>2. n > 0
        <5> HIDE DEF n
        <5> QED
          BY <1>3
      <4> QED
        BY <3>1, <4>1, <4>2, Zenon
    <3>5. ASSUME NEW row \in 0 .. m - 1, NEW y \in 0 .. n - 1
          PROVE  DoneAt(s, a, b, row, y) <=> After(row, y)
      <4> DEFINE w == Widest(RowWidths(s), s.m - a)
      <4>1. DoneAt(s, a, b, row, y) <=> row < a \/ (row < a + w /\ y < b)
        BY Zenon DEF DoneAt
      <4>2. After(row, y) <=> row < i + rows /\ (row < i \/ y < j + cols)
        BY Zenon DEF After
      <4> HIDE DEF w, m, n, rows, cols
      <4>3. ~(y < b) /\ y < j + cols
        BY <1>3, <3>1
      <4> QED
        BY <3>1, <4>1, <4>2, <4>3, Zenon
    <3> QED
      BY <3>3, <3>4, <3>5
  <2>2. CASE ~LastColumns
    <3>1. j + cols # n /\ a = i /\ b = j + cols
      BY <1>1, <2>2, Zenon DEF LastColumns
    <3>2. b < n
      <4> HIDE DEF n, cols
      <4> QED
        BY <1>2, <1>3, <1>4, <3>1
    <3>3. b \in Starts(PackWidths, n)
      <4>1. j + cols < n => j + cols \in Starts(PackWidths, n)
        BY <1>2, <1>5, ColumnsMeet
      <4> HIDE DEF n, cols
      <4> QED
        BY <3>1, <3>2, <4>1, Zenon
    <3>5. ASSUME NEW row \in 0 .. m - 1, NEW y \in 0 .. n - 1
          PROVE  DoneAt(s, a, b, row, y) <=> After(row, y)
      <4>1. DoneAt(s, a, b, row, y) <=> row < i \/ (row < i + rows /\ y < j + cols)
        BY <1>6, <3>1, Zenon DEF DoneAt
      <4>2. After(row, y) <=> row < i + rows /\ (row < i \/ y < j + cols)
        BY Zenon DEF After
      <4> HIDE DEF m, n, rows, cols
      <4>3. row < i => row < i + rows
        BY <1>2, <1>3, <1>4
      <4> QED
        BY <4>1, <4>2, <4>3, Zenon
    <3> QED
      BY <1>5, <3>1, <3>3, <3>5
  <2> QED
    BY <2>1, <2>2
<1>8. /\ \A row \in 0 .. m - 1, y \in 0 .. n - 1 :
           After(row, y) => CellAt(s, g, row, y) \in DOMAIN o /\ o[CellAt(s, g, row, y)] = Wanted(g, row, y)
      /\ \A z \in DOMAIN o :
           z \in 0 .. base - 1 \/ \E row \in 0 .. m - 1, y \in 0 .. n - 1 :
                                    After(row, y) /\ z = CellAt(s, g, row, y)
      /\ 0 .. base - 1 \subseteq DOMAIN o
      /\ \A f \in 0 .. g - 1, row \in 0 .. m - 1, y \in 0 .. n - 1 :
           o[Here(s, f, row, y)] = Wanted(f, row, y)
  BY <1>1, StoredRight
<1> HIDE DEF o
<1>9. DOMAIN o = (0 .. base - 1) \cup Cells(s, g, a, b)
  <2>1. \A z : z \in Cells(s, g, a, b) <=> \E row \in 0 .. m - 1, y \in 0 .. n - 1 :
                 DoneAt(s, a, b, row, y) /\ z = CellAt(s, g, row, y)
    BY CellsAre
  <2>2. ASSUME NEW z \in DOMAIN o PROVE z \in (0 .. base - 1) \cup Cells(s, g, a, b)
    <3> HIDE DEF base, m, n
    <3> QED
      BY <1>7, <1>8, <2>1, Zenon
  <2>3. ASSUME NEW z \in Cells(s, g, a, b) PROVE z \in DOMAIN o
    <3> HIDE DEF base, m, n
    <3>1. PICK row \in 0 .. m - 1, y \in 0 .. n - 1 : DoneAt(s, a, b, row, y) /\ z = CellAt(s, g, row, y)
      BY <2>1, Zenon
    <3>2. After(row, y)
      BY <1>7, <3>1, Zenon
    <3> QED
      BY <1>8, <3>1, <3>2, Zenon
  <2> HIDE DEF base
  <2> QED
    BY <1>8, <2>2, <2>3, Zenon
<1>10. g # s.group
  BY <1>1, <1>2, <1>3 DEF Running
<1>11. Progress(s, PackWidths, g, a, b, o)
  BY <1>7, <1>8, <1>9, <1>10, Zenon DEF Progress
<1> QED
  BY <1>1, <1>11, Zenon

(* The addresses of a group are those of its outputs. *)
LEMMA GroupFilled ==
  ASSUME NEW x \in Convolution, NEW h \in Nat, NEW z \in h * x.m * N(x) .. (h + 1) * x.m * N(x) - 1
  PROVE  \E row \in 0 .. x.m - 1, y \in 0 .. N(x) - 1 : z = CellAt(x, h, row, y)
<1> DEFINE m == x.m
           n == N(x)
           pack == Pack(x)
           base == h * m * n
           t == z - base
           row == Lane(pack, m, n, t).ch
           y == Lane(pack, m, n, t).pos
<1>1. m \in Nat \ {0} /\ n \in Nat \ {0} /\ pack \in Nat \ {0} /\ m \in Nat
  BY ShapeNumbers
<1>2. t \in 0 .. m * n - 1 /\ base + t = z
  <2> DEFINE hi == (h + 1) * m * n
             size == m * n
  <2>1. base \in Nat /\ size \in Nat /\ hi = base + size /\ z \in base .. hi - 1
    <3>1. z \in base .. hi - 1
      OBVIOUS
    <3>2. base \in Nat /\ size \in Nat /\ hi = base + size
      <4> HIDE DEF m, n
      <4> QED
        BY <1>1
    <3> QED
      BY <3>1, <3>2
  <2> HIDE DEF base, hi, size
  <2>2. z - base \in 0 .. size - 1 /\ base + (z - base) = z
    BY <2>1
  <2> QED
    BY <2>2 DEF size
<1> HIDE DEF m, n, pack, t
<1>3. row \in 0 .. m - 1 /\ y \in 0 .. n - 1 /\ LaneAt(pack, m, n, row, y) = t
  BY <1>1, <1>2, LaneOf
<1> HIDE DEF row, y
<1>4. CellAt(x, h, row, y) = base + LaneAt(pack, m, n, row, y)
  BY Zenon DEF CellAt, base, m, n, pack
<1>5. z = CellAt(x, h, row, y)
  BY <1>2, <1>3, <1>4, Zenon
<1> QED
  BY <1>3, <1>5, Zenon DEF m, n

LEMMA TileEndsGroup ==
  ASSUME ConvInv, Tile, LastColumns /\ LastRows, Accepted(s), KernelRight,
         Progress(s, PackWidths, g, i, j, output)
  PROVE  Progress(s, PackWidths, g', i', j', output')
<1> DEFINE m == s.m
           n == N(s)
           pack == Pack(s)
           base == g * m * n
           next == (g + 1) * m * n
           o == Stored(TileResult)
           u == IF Packnto1(s) THEN Unpacked(o) ELSE o
<1>1. Running /\ g' = g + 1 /\ i' = 0 /\ j' = 0 /\ output' = u
  BY Zenon DEF Tile
<1>2. s \in Convolution /\ s \in Shape /\ g \in 0 .. s.group /\ i \in 0 .. m - 1 /\ j \in 0 .. n - 1
  BY ShapeAssumption DEF ConvInv
<1>3. /\ m \in Nat \ {0} /\ n \in Nat \ {0} /\ s.group \in Nat \ {0} /\ pack \in Nat \ {0}
      /\ RowWidths(s) \subseteq Nat \ {0} /\ PackWidths \subseteq Nat \ {0} /\ g \in Nat
  BY <1>2, ShapeNumbers, PackWidthsPositive
<1>4. 0 \in Starts(RowWidths(s), m) /\ 0 \in Starts(PackWidths, n)
  <2> HIDE DEF m, n
  <2>1. (m > 0 => 0 \in Starts(RowWidths(s), m)) /\ (n > 0 => 0 \in Starts(PackWidths, n))
    BY <1>3, StartsFacts
  <2>2. m > 0 /\ n > 0
    BY <1>3
  <2> QED
    BY <2>1, <2>2
<1>5. /\ \A row \in 0 .. m - 1, y \in 0 .. n - 1 :
           After(row, y) => CellAt(s, g, row, y) \in DOMAIN o /\ o[CellAt(s, g, row, y)] = Wanted(g, row, y)
      /\ \A z \in DOMAIN o :
           z \in 0 .. base - 1 \/ \E row \in 0 .. m - 1, y \in 0 .. n - 1 :
                                    After(row, y) /\ z = CellAt(s, g, row, y)
      /\ 0 .. base - 1 \subseteq DOMAIN o
      /\ \A f \in 0 .. g - 1, row \in 0 .. m - 1, y \in 0 .. n - 1 :
           o[Here(s, f, row, y)] = Wanted(f, row, y)
  BY <1>1, StoredRight
<1>6. ASSUME NEW row \in 0 .. m - 1, NEW y \in 0 .. n - 1 PROVE After(row, y)
  <2>1. i + Rows = m /\ j + Cols = n
    BY DEF LastColumns, LastRows
  <2>2. row < m /\ y < n
    <3> HIDE DEF m, n
    <3> QED
      BY <1>3
  <2> QED
    BY <2>1, <2>2, Zenon DEF After
<1> HIDE DEF o
<1>7. ASSUME NEW row \in 0 .. m - 1, NEW y \in 0 .. n - 1
      PROVE  CellAt(s, g, row, y) \in DOMAIN o /\ o[CellAt(s, g, row, y)] = Wanted(g, row, y)
  BY <1>5, <1>6, Zenon
<1>8. base \in Nat /\ next \in Nat /\ base <= next
  <2> DEFINE size == m * n
  <2>1. base \in Nat /\ size \in Nat /\ next = base + size
    <3> HIDE DEF m, n
    <3> QED
      BY <1>3
  <2> HIDE DEF base, next, size
  <2> QED
    BY <2>1
<1>9. DOMAIN o = 0 .. next - 1
  <2>1. ASSUME NEW z \in DOMAIN o PROVE z \in 0 .. next - 1
    <3>1. CASE z \in 0 .. base - 1
      <4> HIDE DEF base, next
      <4> QED
        BY <1>8, <3>1
    <3>2. CASE z \notin 0 .. base - 1
      <4>1. PICK row \in 0 .. m - 1, y \in 0 .. n - 1 : z = CellAt(s, g, row, y)
        BY <1>5, <3>2, Zenon
      <4>2. z \in base .. next - 1
        BY <1>2, <1>3, <4>1, CellInside
      <4> HIDE DEF base, next
      <4> QED
        BY <1>8, <4>2
    <3> QED
      BY <3>1, <3>2
  <2>2. ASSUME NEW z \in 0 .. next - 1 PROVE z \in DOMAIN o
    <3>1. CASE z \in 0 .. base - 1
      BY <1>5, <3>1, Zenon
    <3>2. CASE z \notin 0 .. base - 1
      <4>1. z \in base .. next - 1
        <5> HIDE DEF base, next
        <5> QED
          BY <1>8, <3>2
      <4>2. PICK row \in 0 .. m - 1, y \in 0 .. n - 1 : z = CellAt(s, g, row, y)
        BY <1>2, <1>3, <4>1, GroupFilled
      <4> QED
        BY <1>7, <4>2, Zenon
    <3> QED
      BY <3>1, <3>2
  <2> HIDE DEF next
  <2> QED
    BY <2>1, <2>2
<1>10. ASSUME NEW z \in DOMAIN o
       PROVE  Unpacked(o)[z] = IF z < base THEN o[z]
                               ELSE o[base + LaneAt(pack, m, n, (z - base) \div n, (z - base) % n)]
  BY Zenon DEF Unpacked
<1>11. DOMAIN u = 0 .. next - 1
  <2>1. DOMAIN Unpacked(o) = DOMAIN o
    BY DEF Unpacked
  <2> QED
    BY <1>9, <2>1, Zenon
<1>12. Cells(s, g + 1, 0, 0) = {}
  <2> SUFFICES ASSUME NEW z \in Cells(s, g + 1, 0, 0) PROVE FALSE
    OBVIOUS
  <2>1. PICK row \in 0 .. m - 1, y \in 0 .. n - 1 : DoneAt(s, 0, 0, row, y)
    BY CellsAre, Zenon
  <2>2. row < 0 \/ y < 0
    BY <2>1 DEF DoneAt
  <2> HIDE DEF m, n
  <2> QED
    BY <1>3, <2>2
<1>13. ASSUME NEW f \in 0 .. g, NEW row \in 0 .. m - 1, NEW y \in 0 .. n - 1
       PROVE  u[Here(s, f, row, y)] = Wanted(f, row, y)
  <2>1. CASE f = g
    <3>1. CASE Packnto1(s)
      <4> DEFINE l == row * n + y
      <4>1. Here(s, f, row, y) = base + l
        BY <2>1, <3>1, Zenon DEF Here
      <4>2. l \in 0 .. m * n - 1 /\ l \div n = row /\ l % n = y
        <5> HIDE DEF m, n
        <5>1. m \in Nat \ {0} /\ n \in Nat \ {0} /\ row \in 0 .. m - 1 /\ y \in 0 .. n - 1
          BY <1>3
        <5> QED
          BY ONLY <5>1, RowInside
      <4>3. base + l \in 0 .. next - 1 /\ ~(base + l < base) /\ (base + l) - base = l
        <5> DEFINE size == m * n
        <5>1. base \in Nat /\ size \in Nat /\ next = base + size /\ l \in 0 .. size - 1
          <6>1. base \in Nat /\ size \in Nat /\ next = base + size
            <7> HIDE DEF m, n
            <7> QED
              BY <1>3
          <6> QED
            BY <4>2, <6>1
        <5> HIDE DEF base, next, size, l
        <5> QED
          BY <5>1
      <4>4. Unpacked(o)[base + l]
              = o[base + LaneAt(pack, m, n, ((base + l) - base) \div n, ((base + l) - base) % n)]
        <5>1. base + l \in DOMAIN o
          BY <1>9, <4>3, Zenon
        <5>2. Unpacked(o)[base + l]
                = IF base + l < base THEN o[base + l]
                  ELSE o[base + LaneAt(pack, m, n, ((base + l) - base) \div n, ((base + l) - base) % n)]
          BY <1>10, <5>1, Zenon
        <5> QED
          BY <4>3, <5>2, Zenon
      <4>5. Unpacked(o)[base + l] = o[base + LaneAt(pack, m, n, row, y)]
        BY <4>2, <4>3, <4>4, Zenon
      <4>6. CellAt(s, g, row, y) = base + LaneAt(pack, m, n, row, y)
        BY Zenon DEF CellAt
      <4>7. u = Unpacked(o)
        BY <3>1
      <4> HIDE DEF u, l
      <4> QED
        BY <1>7, <2>1, <4>1, <4>5, <4>6, <4>7, Zenon
    <3>2. CASE ~Packnto1(s)
      <4>1. Here(s, f, row, y) = CellAt(s, g, row, y)
        BY <2>1, <3>2, Zenon DEF Here, CellAt
      <4>2. u = o
        BY <3>2
      <4> HIDE DEF u
      <4> QED
        BY <1>7, <2>1, <4>1, <4>2, Zenon
    <3> QED
      BY <3>1, <3>2
  <2>2. CASE f # g
    <3>1. f \in 0 .. g - 1
      BY <1>3, <2>2
    <3> DEFINE a == Here(s, f, row, y)
    <3>2. a \in 0 .. base - 1
      BY <1>2, <1>3, <3>1, HereInside
    <3>3. o[a] = Wanted(f, row, y)
      BY <1>5, <3>1, Zenon
    <3>4. a < base /\ a \in DOMAIN o
      <4>1. a \in DOMAIN o
        BY <1>5, <3>2, Zenon
      <4> HIDE DEF base, a
      <4> QED
        BY <1>8, <3>2, <4>1
    <3>5. Unpacked(o)[a] = o[a]
      BY <1>10, <3>4, Zenon
    <3> QED
      BY <3>3, <3>5, Zenon
  <2> QED
    BY <2>1, <2>2
<1> HIDE DEF u
<1>14. Progress(s, PackWidths, g + 1, 0, 0, u)
  <2>1. DOMAIN u = (0 .. (g + 1) * m * n - 1) \cup Cells(s, g + 1, 0, 0)
    BY <1>11, <1>12
  <2>2. \A f \in 0 .. (g + 1) - 1, row \in 0 .. m - 1, y \in 0 .. n - 1 :
          u[Here(s, f, row, y)] = Wanted(f, row, y)
    <3>1. (g + 1) - 1 = g
      BY <1>3
    <3> QED
      BY <1>13, <3>1, Zenon
  <2>3. \A row \in 0 .. m - 1, y \in 0 .. n - 1 : ~DoneAt(s, 0, 0, row, y)
    <3> SUFFICES ASSUME NEW row \in 0 .. m - 1, NEW y \in 0 .. n - 1, DoneAt(s, 0, 0, row, y) PROVE FALSE
      OBVIOUS
    <3>1. row < 0 \/ y < 0
      BY DEF DoneAt
    <3> HIDE DEF m, n
    <3> QED
      BY <1>3, <3>1
  <2> QED
    BY <1>4, <2>1, <2>2, <2>3, Zenon DEF Progress
<1> QED
  BY <1>1, <1>14, Zenon

-----------------------------------------------------------------------------
(* The invariant: the kernel is packed right when it was packed once, and a  *)
(* run that reads it makes the right outputs.                                *)
PackInv ==
  /\ packs \in Nat
  /\ packs = 0 => Original
  /\ packs = 1 /\ Accepted(s) => KernelRight

RunInv ==
  call # None /\ packs = 1 /\ Accepted(s) =>
    IF NoRows THEN output = <<>> ELSE Progress(s, PackWidths, g, i, j, output)

ExactInv == ConvInv /\ PackInv /\ RunInv

LEMMA KernelKept ==
  ASSUME s' = s, kdata' = kdata
  PROVE  (Original' <=> Original) /\ (KernelRight' <=> KernelRight) /\ (Accepted(s)' <=> Accepted(s))
BY Zenon DEF Original, KernelRight

LEMMA NothingRuns ==
  ASSUME PackInv, UNCHANGED <<s, kdata, packs>> PROVE PackInv'
BY KernelKept DEF PackInv

LEMMA RunKept ==
  ASSUME RunInv, UNCHANGED <<s, call, g, i, j, output, packs>> PROVE RunInv'
<1>1. PackWidths' = PackWidths /\ NoRows' = NoRows
  BY SameShape DEF NoRows
<1>2. SUFFICES ASSUME call # None, packs = 1, Accepted(s), ~NoRows
               PROVE  Progress(s, PackWidths, g, i, j, output)'
  BY <1>1, Zenon DEF RunInv
<1>3. Progress(s, PackWidths, g', i', j', output')
  BY <1>2, Zenon DEF RunInv
<1> QED
  BY <1>3, ProgressNext

LEMMA PackStep ==
  ASSUME ExactInv, NEW o \in Op, Init2d(o) PROVE ExactInv'
<1>1. UNCHANGED <<s, call, g, i, j, output>> /\ call = None
  BY DEF Init2d
<1>2. ConvInv' /\ s \in Shape
  BY <1>1, LoopsUnchanged DEF ExactInv, ConvInv
<1>3. RunInv'
  BY <1>1 DEF RunInv
<1>4. CASE Winograd(s)
  <2>1. UNCHANGED <<s, kdata, packs>>
    BY <1>4 DEF Init2d
  <2> QED
    BY <1>2, <1>3, <2>1, NothingRuns DEF ExactInv
<1>5. CASE ~Winograd(s)
  <2>1. s' = s /\ kdata' = PackedKernel /\ packs' = packs + 1
    BY <1>5, Zenon DEF Init2d
  <2>2. packs \in Nat /\ (packs = 0 => Original)
    BY DEF ExactInv, PackInv
  <2>3. packs' \in Nat /\ packs' # 0 /\ (packs' = 1 => packs = 0)
    BY <2>1, <2>2
  <2>4. ASSUME packs' = 1, Accepted(s)' PROVE KernelRight'
    <3>1. Accepted(s) /\ Original
      BY <2>1, <2>2, <2>3, <2>4, Zenon
    <3> QED
      BY <1>2, <2>1, <3>1, PackingRight
  <2>5. PackInv'
    BY <2>3, <2>4, Zenon DEF PackInv
  <2> QED
    BY <1>2, <1>3, <2>5 DEF ExactInv
<1> QED
  BY <1>4, <1>5

(* A run begins at the first block with nothing made. *)
LEMMA RunBegins ==
  ASSUME ExactInv, NEW o \in Op, Conv2d(o) PROVE ExactInv'
<1>1. UNCHANGED <<s, kdata, packs>> /\ call = None /\ (Winograd2d(o) \/ Gemm2d(o))
  BY DEF Conv2d
<1>2. PackInv'
  BY <1>1, NothingRuns DEF ExactInv
<1>3. CASE Winograd2d(o)
  <2>1. UNCHANGED <<call, g, i, j, output>>
    BY <1>3 DEF Winograd2d
  <2>2. ConvInv'
    BY <1>1, <2>1, LoopsUnchanged DEF ExactInv
  <2>3. RunInv'
    BY <1>1, <2>1 DEF RunInv
  <2> QED
    BY <1>2, <2>2, <2>3 DEF ExactInv
<1>4. CASE Gemm2d(o)
  <2>1. s' = s /\ g' = 0 /\ i' = 0 /\ j' = 0 /\ output' = <<>>
    BY <1>1, <1>4 DEF Gemm2d
  <2>2. ConvInv'
    BY <1>1, <1>4, CallInv DEF ExactInv
  <2>3. s \in Shape /\ s \in Convolution
    BY ShapeAssumption DEF ExactInv, ConvInv
  <2> DEFINE m == s.m
             n == N(s)
  <2>4. /\ m \in Nat \ {0} /\ n \in Nat \ {0} /\ s.group \in Nat \ {0}
        /\ RowWidths(s) \subseteq Nat \ {0} /\ PackWidths \subseteq Nat \ {0}
    BY <2>3, ShapeNumbers, PackWidthsPositive
  <2>5. Progress(s, PackWidths, 0, 0, 0, <<>>)
    <3>1. 0 \in Starts(RowWidths(s), m) /\ 0 \in Starts(PackWidths, n)
      <4> HIDE DEF m, n
      <4>1. (m > 0 => 0 \in Starts(RowWidths(s), m)) /\ (n > 0 => 0 \in Starts(PackWidths, n))
        BY <2>4, StartsFacts
      <4>2. m > 0 /\ n > 0
        BY <2>4
      <4> QED
        BY <4>1, <4>2
    <3>2. ASSUME NEW row \in 0 .. m - 1, NEW y \in 0 .. n - 1 PROVE ~DoneAt(s, 0, 0, row, y)
      <4> SUFFICES ASSUME DoneAt(s, 0, 0, row, y) PROVE FALSE
        OBVIOUS
      <4>1. row < 0 \/ y < 0
        BY DEF DoneAt
      <4> HIDE DEF m, n
      <4> QED
        BY <2>4, <4>1
    <3>3. Cells(s, 0, 0, 0) = {}
      <4> SUFFICES ASSUME NEW z \in Cells(s, 0, 0, 0) PROVE FALSE
        OBVIOUS
      <4>1. PICK row \in 0 .. m - 1, y \in 0 .. n - 1 : DoneAt(s, 0, 0, row, y)
        BY CellsAre, Zenon
      <4> QED
        BY <3>2, <4>1, Zenon
    <3>4. 0 .. 0 * m * n - 1 = {} /\ 0 .. 0 - 1 = {}
      <4> HIDE DEF m, n
      <4>1. 0 * m * n = 0
        BY <2>4
      <4> QED
        BY <4>1
    <3>5. DOMAIN <<>> = (0 .. 0 * m * n - 1) \cup Cells(s, 0, 0, 0)
      BY <3>3, <3>4
    <3> QED
      BY <3>1, <3>2, <3>4, <3>5, Zenon DEF Progress
  <2>6. Progress(s, PackWidths, g, i, j, output)'
    <3>1. Progress(s, PackWidths, g', i', j', output')
      BY <2>1, <2>5, Zenon
    <3> QED
      BY <2>1, <3>1, ProgressNext
  <2>7. RunInv'
    BY <2>1, <2>6, Zenon DEF RunInv
  <2> QED
    BY <1>2, <2>2, <2>7 DEF ExactInv
<1> QED
  BY <1>1, <1>3, <1>4

LEMMA TileExact ==
  ASSUME ExactInv, Tile PROVE ExactInv'
<1>1. UNCHANGED <<s, kdata, packs, call>> /\ Running /\ ~NoRows
  BY DEF Tile
<1>2. PackInv' /\ ConvInv' /\ ConvInv
  BY <1>1, NothingRuns, TileStepInv DEF ExactInv
<1>3. ASSUME call # None, packs = 1, Accepted(s)
      PROVE  Progress(s, PackWidths, g, i, j, output)'
  <2>1. Progress(s, PackWidths, g, i, j, output) /\ KernelRight
    BY <1>1, <1>3, Zenon DEF ExactInv, PackInv, RunInv
  <2>2. Progress(s, PackWidths, g', i', j', output')
    <3>1. CASE LastColumns /\ LastRows
      BY <1>2, <1>3, <2>1, <3>1, TileEndsGroup
    <3>2. CASE ~(LastColumns /\ LastRows)
      BY <1>2, <1>3, <2>1, <3>2, TileInGroup
    <3> QED
      BY <3>1, <3>2
  <2> QED
    BY <1>1, <2>2, ProgressNext
<1>4. NoRows' = NoRows
  BY <1>1, Zenon DEF NoRows
<1>5. RunInv'
  BY <1>1, <1>3, <1>4, Zenon DEF RunInv
<1> QED
  BY <1>2, <1>5 DEF ExactInv

LEMMA ExactStep == ASSUME ExactInv, [ConvNext]_convVars PROVE ExactInv'
<1>1. ASSUME NEW o \in Op, Init2d(o) PROVE ExactInv'
  BY <1>1, PackStep
<1>2. ASSUME NEW o \in Op, Conv2d(o) PROVE ExactInv'
  BY <1>2, RunBegins
<1>3. CASE Tile
  BY <1>3, TileExact
<1>4. CASE SkipGroup
  <2>1. UNCHANGED <<s, kdata, packs, call, output>> /\ NoRows
    BY <1>4 DEF SkipGroup
  <2>2. PackInv' /\ ConvInv'
    BY <1>4, <2>1, NothingRuns, SkipInv DEF ExactInv
  <2>3. NoRows' = NoRows
    BY <2>1, Zenon DEF NoRows
  <2>4. RunInv'
    <3>1. RunInv
      BY DEF ExactInv
    <3>2. s' = s /\ call' = call /\ packs' = packs /\ output' = output
      BY <2>1
    <3>3. call # None /\ packs = 1 /\ Accepted(s) => output = <<>>
      BY <2>1, <3>1, Zenon DEF RunInv
    <3> QED
      BY <2>1, <2>3, <3>2, <3>3, Zenon DEF RunInv
  <2> QED
    BY <2>2, <2>4 DEF ExactInv
<1>5. CASE Return
  <2>1. UNCHANGED <<s, kdata, packs, g, i, j, output>> /\ call' = None
    BY <1>5 DEF Return
  <2>2. PackInv' /\ ConvInv'
    BY <2>1, NothingRuns, LoopsUnchanged DEF ExactInv
  <2>3. RunInv'
    BY <2>1 DEF RunInv
  <2> QED
    BY <2>2, <2>3 DEF ExactInv
<1>6. CASE UNCHANGED convVars
  <2>1. UNCHANGED <<s, kdata, packs, call, g, i, j, output>>
    BY <1>6 DEF convVars
  <2> QED
    BY <2>1, NothingRuns, LoopsUnchanged, RunKept DEF ExactInv
<1> QED
  BY <1>1, <1>2, <1>3, <1>4, <1>5, <1>6, Zenon DEF ConvNext

LEMMA ExactInit == ConvInit => ExactInv
<1> SUFFICES ASSUME ConvInit PROVE ExactInv
  OBVIOUS
<1>1. packs = 0 /\ call = None /\ Original
  BY Zenon DEF ConvInit, Original
<1>2. PackInv
  BY <1>1 DEF PackInv
<1>3. RunInv
  BY <1>1 DEF RunInv
<1> QED
  BY <1>2, <1>3, ConvInitInv DEF ExactInv

-----------------------------------------------------------------------------
(* Where the outputs end *)

(* A layout whose packs are all full *)
FullPlace(pack, size, ch, pos) == ((ch \div pack) * pack) * size + pos * pack + (ch % pack)

LEMMA FullPacks ==
  ASSUME NEW pack \in Nat \ {0}, NEW n \in Nat, n % pack = 0, NEW size \in Nat,
         NEW ch \in 0 .. n - 1, NEW pos \in 0 .. size - 1
  PROVE  LaneAt(pack, n, size, ch, pos) = FullPlace(pack, size, ch, pos)
<1> DEFINE st == Start(pack, n, ch)
           w == Width(pack, n - st)
           l == ch - st
<1>1. /\ LaneAt(pack, n, size, ch, pos) = st * size + pos * w + l
      /\ st \in 0 .. ch /\ w \in Nat /\ w <= pack /\ st + w <= n /\ l \in 0 .. w - 1
  BY LaneIs
<1>2. \E q \in Nat : st = q * pack
  BY BlockFacts
<1>3. n - st \in Nat \ {0}
  <2>1. st \in 0 .. ch
    BY <1>1
  <2> HIDE DEF st
  <2> QED
    BY <2>1
<1>4. w = IF pack <= n - st THEN pack ELSE n - st
  <2> DEFINE z == n - st
  <2>1. z \in Nat \ {0}
    BY <1>3
  <2> HIDE DEF z
  <2>2. Width(pack, z) = IF pack <= z THEN pack ELSE z
    BY <2>1, OneWidth
  <2> QED
    BY <2>2 DEF z
<1>5. PICK q \in Nat : st = q * pack
  BY <1>2
<1>0. PICK e \in Nat : n = e * pack
  <2>1. n = (n \div pack) * pack + (n % pack) /\ n \div pack \in Nat
    BY Divided
  <2> DEFINE f == n \div pack
  <2>2. n = f * pack + 0 /\ f \in Nat
    BY <2>1
  <2> HIDE DEF f
  <2>3. n = f * pack
    BY <2>2
  <2> QED
    BY <2>2, <2>3
<1> HIDE DEF st, w
<1>6. w = pack
  <2>1. q < e
    <3> SUFFICES ASSUME e <= q PROVE FALSE
      OBVIOUS
    <3>1. PICK d \in Nat : q = e + d
      <4>1. q - e \in Nat /\ q = e + (q - e)
        OBVIOUS
      <4> QED
        BY <4>1
    <3>2. st = n + d * pack /\ d * pack \in Nat
      BY <1>0, <1>5, <3>1
    <3> QED
      BY <1>3, <3>2
  <2>2. PICK d \in Nat : e = q + 1 + d
    <3>1. e - (q + 1) \in Nat /\ e = q + 1 + (e - (q + 1))
      BY <2>1
    <3> QED
      BY <3>1
  <2>3. n = st + pack + d * pack /\ d * pack \in Nat /\ st \in Nat
    BY <1>0, <1>5, <2>2
  <2>4. pack <= n - st
    BY <2>3
  <2> QED
    BY <1>4, <2>4
<1>7. l \in 0 .. pack - 1 /\ ch = q * pack + l
  <2>1. l \in 0 .. pack - 1
    BY <1>1, <1>6
  <2>2. st \in Int /\ ch \in Int
    BY <1>1
  <2>3. ch = st + l
    BY <2>2
  <2> HIDE DEF l
  <2> QED
    BY <1>5, <2>1, <2>3
<1> HIDE DEF l
<1>8. ch \div pack = q /\ ch % pack = l
  <2>1. (q * pack + l) \div pack = q /\ (q * pack + l) % pack = l
    BY <1>7, RowAndLane
  <2> QED
    BY <1>7, <2>1, Zenon
<1>9. FullPlace(pack, size, ch, pos) = (q * pack) * size + pos * pack + l
  BY <1>8, Zenon DEF FullPlace
<1> QED
  BY <1>1, <1>5, <1>6, <1>9, Zenon

LEMMA FinalPlace ==
  ASSUME NEW x \in Convolution, Accepted(x), NEW h \in 0 .. x.group - 1,
         NEW row \in 0 .. x.m - 1, NEW y \in 0 .. N(x) - 1
  PROVE  LaneAt(PackOut(x), x.group * x.m, N(x), h * x.m + row, y) = Here(x, h, row, y)
<1> DEFINE m == x.m
           n == N(x)
           groups == x.group
           pn == PackN(x)
           oc == h * m + row
           all == groups * m
<1>1. /\ m \in Nat \ {0} /\ n \in Nat \ {0} /\ groups \in Nat \ {0} /\ pn \in Nat \ {0}
      /\ h \in 0 .. groups - 1 /\ row \in 0 .. m - 1 /\ y \in 0 .. n - 1
  BY ShapeNumbers
<1>2. oc \in 0 .. all - 1 /\ all \in Nat
  <2> HIDE DEF m, groups, n, pn
  <2> QED
    BY <1>1, RowInside
<1>3. Here(x, h, row, y) = h * m * n + IF Packnto1(x) THEN row * n + y ELSE LaneAt(Pack(x), m, n, row, y)
  BY Zenon DEF Here
<1>4. CASE Packnto1(x) \/ Pack1(x)
  <2>1. PackOut(x) = 1 /\ (Pack1(x) => Pack(x) = 1)
    BY <1>4, Packings
  <2>2. LaneAt(1, all, n, oc, y) = oc * n + y
    <3> HIDE DEF all, oc, n, m, groups, pn
    <3> QED
      BY <1>1, <1>2, WidthOne
  <2>3. LaneAt(1, m, n, row, y) = row * n + y
    <3> HIDE DEF n, m, groups, pn
    <3> QED
      BY <1>1, WidthOne
  <2>4. oc * n + y = h * m * n + (row * n + y)
    <3>1. oc * n = h * m * n + row * n
      <4> HIDE DEF n, m, groups, pn
      <4> QED
        BY <1>1
    <3> DEFINE u == h * m * n
               v == row * n
    <3>2. u \in Int /\ v \in Int /\ y \in Int
      <4> HIDE DEF n, m, groups, pn
      <4> QED
        BY <1>1
    <3> HIDE DEF u, v
    <3>3. (u + v) + y = u + (v + y)
      BY <3>2
    <3> QED
      BY <3>1, <3>3 DEF u, v
  <2>5. Here(x, h, row, y) = h * m * n + (row * n + y)
    BY <1>3, <1>4, <2>1, <2>3, Zenon
  <2> QED
    BY <2>1, <2>2, <2>4, <2>5, Zenon
<1>5. CASE ~Packnto1(x) /\ ~Pack1(x)
  <2>1. PackOut(x) = pn /\ Pack(x) = pn /\ (Packn(x) \/ Pack1ton(x))
    BY <1>5, Packings
  <2>2. m % pn = 0
    BY <2>1, Zenon DEF Accepted
  <2>3. PICK e \in Nat : m = e * pn
    <3>1. m = (m \div pn) * pn + (m % pn) /\ m \div pn \in Nat
      <4> HIDE DEF m, pn
      <4> QED
        BY <1>1, Divided
    <3> DEFINE f == m \div pn
    <3>2. m = f * pn + 0 /\ f \in Nat
      BY <2>2, <3>1
    <3> HIDE DEF f, m, pn
    <3>3. m = f * pn
      BY <1>1, <3>2
    <3> QED
      BY <3>2, <3>3
  <2> DEFINE q == row \div pn
             l == row % pn
  <2>4. q \in Nat /\ l \in 0 .. pn - 1 /\ row = q * pn + l
    <3> HIDE DEF m, pn
    <3>1. row \in Nat
      BY <1>1
    <3> QED
      BY <1>1, <3>1, Divided
  <2>5. LaneAt(pn, m, n, row, y) = (q * pn) * n + y * pn + l
    <3> HIDE DEF m, pn, n, groups
    <3>1. /\ pn \in Nat \ {0} /\ m \in Nat /\ m % pn = 0 /\ n \in Nat
          /\ row \in 0 .. m - 1 /\ y \in 0 .. n - 1
      BY <1>1, <2>2
    <3>2. LaneAt(pn, m, n, row, y) = FullPlace(pn, n, row, y)
      BY ONLY <3>1, FullPacks, SMT
    <3> QED
      BY <3>2, Zenon DEF q, l, FullPlace
  <2>6. oc \div pn = h * e + q /\ oc % pn = l
    <3> DEFINE z == h * e + q
    <3>1. oc = z * pn + l /\ z \in Nat
      <4> HIDE DEF m, pn, n, groups, q, l
      <4>1. h * m = (h * e) * pn /\ h * e \in Nat
        BY <1>1, <2>3
      <4> QED
        BY <1>1, <2>4, <4>1
    <3> HIDE DEF z, oc, m, pn, n, groups, q, l
    <3>2. (z * pn + l) \div pn = z /\ (z * pn + l) % pn = l
      BY <1>1, <2>4, <3>1, RowAndLane
    <3> QED
      BY <3>1, <3>2, Zenon DEF z
  <2>7. LaneAt(pn, all, n, oc, y) = ((h * e + q) * pn) * n + y * pn + l
    <3> DEFINE f == groups * e
    <3>1. all = f * pn /\ f \in Nat /\ n \in Nat
      <4> HIDE DEF m, pn, n, groups, q, l
      <4> QED
        BY <1>1, <2>3
    <3> HIDE DEF f, oc, all, m, pn, n, groups, q, l
    <3>3. all % pn = 0
      <4>1. 0 \in 0 .. pn - 1 /\ f * pn + 0 = all
        BY <1>1, <3>1
      <4>2. (f * pn + 0) % pn = 0
        BY <1>1, <3>1, <4>1, RowAndLane
      <4> QED
        BY <4>1, <4>2, Zenon
    <3>4. /\ pn \in Nat \ {0} /\ all \in Nat /\ all % pn = 0 /\ n \in Nat
          /\ oc \in 0 .. all - 1 /\ y \in 0 .. n - 1
      BY <1>1, <1>2, <3>1, <3>3
    <3>2. LaneAt(pn, all, n, oc, y) = FullPlace(pn, n, oc, y)
      BY ONLY <3>4, FullPacks, SMT
    <3> QED
      BY <2>6, <3>2, Zenon DEF FullPlace
  <2>8. ((h * e + q) * pn) * n + y * pn + l = h * m * n + ((q * pn) * n + y * pn + l)
    <3> DEFINE u == h * m * n
               v == (q * pn) * n
               w == y * pn
               t == ((h * e + q) * pn) * n
    <3>1. u \in Int /\ v \in Int /\ w \in Int /\ l \in Int /\ t = u + v
      <4>0. l \in Int
        BY <2>4
      <4> HIDE DEF m, pn, n, groups, q, l
      <4>1. u \in Int /\ v \in Int /\ w \in Int
        BY <1>1, <2>4
      <4>2. (h * e + q) * pn = h * m + q * pn
        <5>1. h * m = (h * e) * pn /\ h * e \in Nat
          BY <1>1, <2>3
        <5> QED
          BY <1>1, <2>4, <5>1
      <4>3. (h * m + q * pn) * n = u + v
        BY <1>1, <2>4
      <4> QED
        BY <4>0, <4>1, <4>2, <4>3
    <3> HIDE DEF u, v, w, t, l
    <3>2. t + w + l = u + (v + w + l)
      BY <3>1
    <3> QED
      BY <3>2 DEF u, v, w, t
  <2>9. Here(x, h, row, y) = h * m * n + ((q * pn) * n + y * pn + l)
    BY <1>3, <1>5, <2>1, <2>5, Zenon
  <2> QED
    BY <2>1, <2>7, <2>8, <2>9, Zenon
<1> QED
  BY <1>4, <1>5

-----------------------------------------------------------------------------
(* The products of an output are the taps of the reference convolution *)

LEMMA UndilatedFields ==
  ASSUME NEW x \in Convolution
  PROVE  /\ Undilated(x).dh = 1 /\ Undilated(x).dw = 1
         /\ Undilated(x).group = x.group /\ Undilated(x).m = x.m /\ Undilated(x).cin = x.cin
         /\ Undilated(x).kh = x.kh /\ Undilated(x).kw = x.kw
         /\ Undilated(x).sh = x.sh /\ Undilated(x).sw = x.sw
         /\ Undilated(x).pt = x.pt /\ Undilated(x).pl = x.pl
         /\ Undilated(x).ih = x.ih /\ Undilated(x).iw = x.iw /\ Undilated(x).ow = x.ow
         /\ Undilated(x).bias = x.bias
         /\ N(Undilated(x)) = N(x) /\ K(Undilated(x)) = K(x) /\ PackOut(Undilated(x)) = PackOut(x)
<1> DEFINE u == Undilated(x)
<1>1. /\ u.dh = 1 /\ u.dw = 1
      /\ u.group = x.group /\ u.m = x.m /\ u.cin = x.cin
      /\ u.kh = x.kh /\ u.kw = x.kw /\ u.sh = x.sh /\ u.sw = x.sw
      /\ u.pt = x.pt /\ u.pl = x.pl /\ u.ih = x.ih /\ u.iw = x.iw /\ u.oh = x.oh /\ u.ow = x.ow
      /\ u.bias = x.bias /\ u.size = x.size /\ u.vlenb = x.vlenb
  BY DEF Undilated, Convolution
<1> HIDE DEF u
<1>2. N(u) = N(x) /\ Maxk(u) = Maxk(x) /\ PackN(u) = PackN(x)
  BY <1>1, Zenon DEF N, Maxk, PackN
<1>3. K(u) = K(x) /\ (Packn(u) <=> Packn(x)) /\ (Pack1ton(u) <=> Pack1ton(x))
  BY <1>1, <1>2, Zenon DEF K, Packn, Pack1ton
<1>4. PackOut(u) = PackOut(x)
  BY <1>2, <1>3, Zenon DEF PackOut
<1> QED
  BY <1>1, <1>2, <1>3, <1>4 DEF u

(* A tap of the filter: channel, row and column, of which product, and whether *)
(* it falls inside the image for an output.                                    *)
Words(x) == (0 .. x.cin - 1) \X (0 .. x.kh - 1) \X (0 .. x.kw - 1)
Word(x, c) == <<Product(x, c).ch, Product(x, c).pos \div x.kw, Product(x, c).pos % x.kw>>
RowMet(x, w, y) == w[2] + (y \div x.ow) * x.sh - x.pt
ColMet(x, w, y) == w[3] + (y % x.ow) * x.sw - x.pl
Falls(x, w, y) == RowMet(x, w, y) \in 0 .. x.ih - 1 /\ ColMet(x, w, y) \in 0 .. x.iw - 1
Met(h, w, y) == <<ImageAt(h, w[1], RowMet(s, w, y), ColMet(s, w, y))>>
WeightAt(x, oc, w) == <<oc * K(x) + (w[1] * x.kh + w[2]) * x.kw + w[3]>>

LEMMA WordOf ==
  ASSUME NEW x \in Convolution, NEW c \in 0 .. K(x) - 1
  PROVE  /\ Word(x, c) \in Words(x)
         /\ (Word(x, c)[1] * x.kh + Word(x, c)[2]) * x.kw + Word(x, c)[3] = Tap(x, c)
<1> DEFINE kh == x.kh
           kw == x.kw
           ch == Product(x, c).ch
           pos == Product(x, c).pos
           a == pos \div kw
           b == pos % kw
<1>1. /\ kh \in Nat \ {0} /\ kw \in Nat \ {0} /\ ch \in 0 .. x.cin - 1 /\ pos \in 0 .. kh * kw - 1
      /\ Tap(x, c) = ch * (kh * kw) + pos
  BY ChannelNumbers, ProductOf
<1>2. ch \in Nat
  <2>1. x.cin \in Nat
    BY ChannelNumbers
  <2> HIDE DEF ch
  <2> QED
    BY <1>1, <2>1
<1>3. a \in 0 .. kh - 1 /\ b \in 0 .. kw - 1 /\ pos = a * kw + b
  <2> HIDE DEF kh, kw, pos
  <2>1. pos \in Nat /\ pos < kh * kw
    BY <1>1
  <2>2. a \in Nat /\ b \in 0 .. kw - 1 /\ pos = a * kw + b /\ a < kh
    BY <1>1, <2>1, Divided
  <2> HIDE DEF a, b
  <2> QED
    BY <1>1, <2>2
<1>4. Word(x, c) = <<ch, a, b>>
  BY Zenon DEF Word
<1>5. (ch * kh + a) * kw + b = ch * (kh * kw) + pos
  <2> HIDE DEF ch, a, b, kh, kw, pos
  <2>1. a \in Nat /\ b \in Nat
    BY <1>1, <1>3
  <2>2. (ch * kh + a) * kw = ch * (kh * kw) + a * kw
    BY <1>1, <1>2, <2>1
  <2> DEFINE t == (ch * kh + a) * kw
             u == ch * (kh * kw)
             v == a * kw
  <2>3. u \in Int /\ v \in Int
    BY <1>1, <1>2, <2>1
  <2> HIDE DEF t, u, v
  <2>4. t = u + v /\ pos = v + b
    BY <1>3, <2>2 DEF t, u, v
  <2>5. t + b = u + pos
    BY <2>1, <2>3, <2>4
  <2> QED
    BY <2>5 DEF t, u
<1>6. <<ch, a, b>> \in Words(x)
  <2> HIDE DEF ch, a, b
  <2> QED
    BY <1>1, <1>3 DEF Words
<1>7. Word(x, c)[1] = ch /\ Word(x, c)[2] = a /\ Word(x, c)[3] = b
  <2> HIDE DEF ch, a, b
  <2> QED
    BY <1>4
<1> QED
  <2> HIDE DEF ch, a, b, pos
  <2> QED
    BY <1>1, <1>4, <1>5, <1>6, <1>7, Zenon

LEMMA WordMade ==
  ASSUME NEW x \in Convolution, NEW w \in Words(x)
  PROVE  \E c \in 0 .. K(x) - 1 : Word(x, c) = w
<1> DEFINE kh == x.kh
           kw == x.kw
           pos == w[2] * kw + w[3]
<1>1. w[1] \in 0 .. x.cin - 1 /\ w[2] \in 0 .. kh - 1 /\ w[3] \in 0 .. kw - 1 /\ w = <<w[1], w[2], w[3]>>
  BY DEF Words
<1>2. kh \in Nat \ {0} /\ kw \in Nat \ {0} /\ Maxk(x) = kh * kw
  BY ChannelNumbers
<1>3. pos \in 0 .. kh * kw - 1 /\ pos \div kw = w[2] /\ pos % kw = w[3]
  <2> DEFINE a == w[2]
             b == w[3]
  <2>1. a \in 0 .. kh - 1 /\ b \in 0 .. kw - 1
    BY <1>1
  <2> HIDE DEF a, b, kh, kw
  <2>2. a * kw + b \in 0 .. kh * kw - 1 /\ (a * kw + b) \div kw = a /\ (a * kw + b) % kw = b
    BY <1>2, <2>1, RowInside
  <2> QED
    BY <2>2 DEF a, b
<1>4. PICK c \in 0 .. K(x) - 1 : Product(x, c).ch = w[1] /\ Product(x, c).pos = pos
  <2>1. pos \in 0 .. Maxk(x) - 1
    BY <1>2, <1>3
  <2> HIDE DEF pos
  <2> QED
    BY <1>1, <2>1, ProductExists
<1>5. Word(x, c) = <<w[1], w[2], w[3]>>
  <2> HIDE DEF pos
  <2> QED
    BY <1>3, <1>4, Zenon DEF Word
<1> QED
  BY <1>1, <1>5

LEMMA WordPixel ==
  ASSUME NEW h, NEW y, NEW c
  PROVE  Pixel(h, Product(s, c).ch, Product(s, c).pos, y)
           = IF Falls(s, Word(s, c), y) THEN Met(h, Word(s, c), y) ELSE <<>>
<1> DEFINE ch == Product(s, c).ch
           pos == Product(s, c).pos
<1>1. Word(s, c)[1] = ch /\ Word(s, c)[2] = pos \div s.kw /\ Word(s, c)[3] = pos % s.kw
  <2> DEFINE a == pos \div s.kw
             b == pos % s.kw
  <2>1. Word(s, c) = <<ch, a, b>>
    BY Zenon DEF Word
  <2> HIDE DEF ch, a, b
  <2>2. Word(s, c)[1] = ch /\ Word(s, c)[2] = a /\ Word(s, c)[3] = b
    BY <2>1
  <2> QED
    BY <2>2, Zenon DEF a, b
<1> HIDE DEF ch, pos
<1>2. Pixel(h, ch, pos, y) = IF Falls(s, Word(s, c), y) THEN Met(h, Word(s, c), y) ELSE <<>>
  BY <1>1, Zenon DEF Pixel, Falls, Met, RowMet, ColMet
<1> QED
  BY <1>2 DEF ch, pos

LEMMA ReferenceTaps ==
  ASSUME s \in Convolution, NEW oc, NEW y \in Nat
  PROVE  /\ Reference(Undilated(s), oc, y).bias = IF s.bias THEN <<"bias", oc>> ELSE <<"zero">>
         /\ \A w \in Words(s) : Falls(s, w, y) =>
              <<WeightAt(s, oc, w), Met(oc \div s.m, w, y)>> \in Reference(Undilated(s), oc, y).taps
         /\ \A t \in Reference(Undilated(s), oc, y).taps :
              \E w \in Words(s) : Falls(s, w, y) /\ t = <<WeightAt(s, oc, w), Met(oc \div s.m, w, y)>>
<1> DEFINE u == Undilated(s)
           y0 == (y \div u.ow) * u.sh - u.pt
           x0 == (y % u.ow) * u.sw - u.pl
           row(w) == y0 + u.dh * w[2]
           col(w) == x0 + u.dw * w[3]
           inside == {w \in (0 .. u.cin - 1) \X (0 .. u.kh - 1) \X (0 .. u.kw - 1) :
                        row(w) \in 0 .. u.ih - 1 /\ col(w) \in 0 .. u.iw - 1}
           tap(w) == << <<oc * K(u) + (w[1] * u.kh + w[2]) * u.kw + w[3]>>,
                        <<ImageAt(oc \div u.m, w[1], row(w), col(w))>> >>
           bias == IF u.bias THEN <<"bias", oc>> ELSE <<"zero">>
<1>1. Reference(u, oc, y) = [bias |-> bias, taps |-> {tap(w) : w \in inside}]
  <2> HIDE DEF u
  <2> QED
    BY Zenon DEF Reference
<1>2. /\ u.dh = 1 /\ u.dw = 1 /\ u.m = s.m /\ u.cin = s.cin /\ u.kh = s.kh /\ u.kw = s.kw
      /\ u.sh = s.sh /\ u.sw = s.sw /\ u.pt = s.pt /\ u.pl = s.pl
      /\ u.ih = s.ih /\ u.iw = s.iw /\ u.ow = s.ow /\ u.bias = s.bias /\ K(u) = K(s)
  BY UndilatedFields
<1>3. /\ s.pt \in Nat /\ s.pl \in Nat /\ s.sh \in Nat /\ s.sw \in Nat /\ s.ow \in Nat \ {0}
      /\ s.cin \in Nat /\ s.kh \in Nat /\ s.kw \in Nat
  BY DEF Convolution
<1> HIDE DEF u
<1>4. ASSUME NEW w \in Words(s) PROVE row(w) = RowMet(s, w, y) /\ col(w) = ColMet(s, w, y)
  <2>1. w[2] \in Int /\ w[3] \in Int
    <3>1. w[2] \in 0 .. s.kh - 1 /\ w[3] \in 0 .. s.kw - 1
      BY DEF Words
    <3> QED
      BY <3>1
  <2> DEFINE a == y \div s.ow
             b == y % s.ow
             e == w[2]
             f == w[3]
  <2>2. a \in Nat /\ b \in Nat
    <3> DEFINE ow == s.ow
    <3> HIDE DEF ow
    <3>1. ow \in Nat \ {0}
      BY <1>3 DEF ow
    <3>2. y \div ow \in Nat /\ y % ow \in 0 .. ow - 1
      BY <3>1, Divided
    <3>3. y % ow \in Nat
      BY <3>1, <3>2
    <3> QED
      BY <3>2, <3>3 DEF ow
  <2>3. y0 = a * s.sh - s.pt /\ x0 = b * s.sw - s.pl
    BY <1>2
  <2>4. RowMet(s, w, y) = e + a * s.sh - s.pt /\ ColMet(s, w, y) = f + b * s.sw - s.pl
    BY Zenon DEF RowMet, ColMet
  <2> DEFINE ash == a * s.sh
             bsw == b * s.sw
             pt == s.pt
             pl == s.pl
  <2>5. ash \in Int /\ bsw \in Int /\ pt \in Int /\ pl \in Int /\ e \in Int /\ f \in Int
    <3> HIDE DEF a, b
    <3> QED
      BY <1>3, <2>1, <2>2
  <2> HIDE DEF ash, bsw, pt, pl, e, f
  <2>6. (ash - pt) + 1 * e = e + ash - pt /\ (bsw - pl) + 1 * f = f + bsw - pl
    BY <2>5
  <2>7. row(w) = (ash - pt) + 1 * e /\ col(w) = (bsw - pl) + 1 * f
    <3>1. row(w) = y0 + 1 * e /\ col(w) = x0 + 1 * f
      BY <1>2, Zenon DEF e, f
    <3>2. y0 = ash - pt /\ x0 = bsw - pl
      BY <2>3, Zenon DEF ash, bsw, pt, pl
    <3> HIDE DEF row, col, y0, x0
    <3> QED
      BY <3>1, <3>2, Zenon
  <2>8. RowMet(s, w, y) = e + ash - pt /\ ColMet(s, w, y) = f + bsw - pl
    BY <2>4, Zenon DEF ash, bsw, pt, pl
  <2> HIDE DEF row, col
  <2> QED
    BY <2>6, <2>7, <2>8, Zenon
<1>5. inside = {w \in Words(s) : Falls(s, w, y)}
  <2> HIDE DEF row, col
  <2>1. inside = {w \in Words(s) : row(w) \in 0 .. s.ih - 1 /\ col(w) \in 0 .. s.iw - 1}
    BY <1>2, Zenon DEF Words
  <2>2. ASSUME NEW w \in Words(s)
        PROVE  (row(w) \in 0 .. s.ih - 1 /\ col(w) \in 0 .. s.iw - 1) <=> Falls(s, w, y)
    BY <1>4, Zenon DEF Falls
  <2> HIDE DEF inside
  <2> QED
    BY <2>1, <2>2, Zenon
<1>6. ASSUME NEW w \in Words(s)
      PROVE  tap(w) = <<WeightAt(s, oc, w), Met(oc \div s.m, w, y)>>
  <2> HIDE DEF row, col
  <2>1. row(w) = RowMet(s, w, y) /\ col(w) = ColMet(s, w, y)
    BY <1>4
  <2> QED
    BY <1>2, <2>1, Zenon DEF WeightAt, Met
<1>7. Reference(u, oc, y).taps = {tap(w) : w \in inside} /\ Reference(u, oc, y).bias = bias
  <2> HIDE DEF inside, tap, bias
  <2> QED
    BY <1>1
<1> HIDE DEF inside, tap
<1>8. bias = IF s.bias THEN <<"bias", oc>> ELSE <<"zero">>
  BY <1>2, Zenon
<1> HIDE DEF bias
<1>9. ASSUME NEW w \in Words(s), Falls(s, w, y)
      PROVE  <<WeightAt(s, oc, w), Met(oc \div s.m, w, y)>> \in Reference(u, oc, y).taps
  <2>1. w \in inside
    BY <1>5, <1>9, Zenon
  <2>2. tap(w) \in Reference(u, oc, y).taps
    BY <1>7, <2>1, Zenon
  <2> QED
    BY <1>6, <2>2, Zenon
<1>10. ASSUME NEW t \in Reference(u, oc, y).taps
       PROVE  \E w \in Words(s) : Falls(s, w, y) /\ t = <<WeightAt(s, oc, w), Met(oc \div s.m, w, y)>>
  <2>1. PICK w \in inside : t = tap(w)
    BY <1>7, Zenon
  <2>2. w \in Words(s) /\ Falls(s, w, y)
    BY <1>5, Zenon
  <2> QED
    BY <1>6, <2>1, <2>2, Zenon
<1> QED
  BY <1>7, <1>8, <1>9, <1>10, Zenon DEF u

-----------------------------------------------------------------------------
(* What a group is wanted to make is what the reference convolution makes. *)
LEMMA Agree ==
  ASSUME s \in Shape, Accepted(s), NEW h \in 0 .. s.group - 1, NEW row \in 0 .. s.m - 1,
         NEW y \in 0 .. N(s) - 1
  PROVE  Agrees(Wanted(h, row, y), Reference(Undilated(s), h * s.m + row, y))
<1> DEFINE m == s.m
           k == K(s)
           oc == h * m + row
           cell == Wanted(h, row, y)
           ref == Reference(Undilated(s), oc, y)
           real == {c \in DOMAIN cell.sum : cell.sum[c][2] # <<>>}
<1>1. s \in Convolution /\ m \in Nat \ {0} /\ k \in Nat \ {0} /\ N(s) \in Nat \ {0} /\ s.group \in Nat \ {0}
  BY ShapeAssumption, ShapeNumbers
<1>2. h \in Nat /\ row \in 0 .. m - 1 /\ row \in Nat /\ y \in Nat /\ oc \in Int
  <2> HIDE DEF m
  <2> QED
    BY <1>1 DEF m
<1>3. oc \div m = h
  <2> HIDE DEF m
  <2> QED
    BY <1>1, <1>2, RowAndLane
<1>4. /\ ref.bias = IF s.bias THEN <<"bias", oc>> ELSE <<"zero">>
      /\ \A w \in Words(s) : Falls(s, w, y) => <<WeightAt(s, oc, w), Met(h, w, y)>> \in ref.taps
      /\ \A t \in ref.taps : \E w \in Words(s) : Falls(s, w, y) /\ t = <<WeightAt(s, oc, w), Met(h, w, y)>>
  <2> HIDE DEF oc, m
  <2>1. /\ ref.bias = IF s.bias THEN <<"bias", oc>> ELSE <<"zero">>
        /\ \A w \in Words(s) : Falls(s, w, y) => <<WeightAt(s, oc, w), Met(oc \div s.m, w, y)>> \in ref.taps
        /\ \A t \in ref.taps :
             \E w \in Words(s) : Falls(s, w, y) /\ t = <<WeightAt(s, oc, w), Met(oc \div s.m, w, y)>>
    BY <1>1, <1>2, ReferenceTaps
  <2>2. oc \div s.m = h
    BY <1>3 DEF m
  <2> HIDE DEF ref
  <2> QED
    BY <2>1, <2>2, Zenon
<1>5. cell.bias = ref.bias
  <2>1. cell.bias = Bias(h, row)
    BY DEF Wanted
  <2>2. ~s.bias /\ Pack1(s) => h * m = 0
    <3> SUFFICES ASSUME ~s.bias, Pack1(s) PROVE h * m = 0
      OBVIOUS
    <3>1. s.group = 1
      BY Zenon DEF Accepted
    <3>2. h = 0
      BY <3>1
    <3> HIDE DEF m
    <3> QED
      BY <1>1, <3>2
  <2>3. Bias(h, row) = IF s.bias THEN <<"bias", oc>> ELSE <<"zero">>
    BY <2>2, Zenon DEF Bias
  <2> HIDE DEF cell, ref, oc
  <2> QED
    BY <1>4, <2>1, <2>3, Zenon
<1>6. /\ DOMAIN cell.sum = 0 .. k - 1
      /\ \A c \in 0 .. k - 1 :
           /\ cell.sum[c][1] = <<h * m * k + row * k + Tap(s, c)>>
           /\ cell.sum[c][2] = Pixel(h, Product(s, c).ch, Product(s, c).pos, y)
           /\ cell.sum[c] = <<cell.sum[c][1], cell.sum[c][2]>>
  BY DEF Wanted, Products
<1> HIDE DEF cell, ref
<1>7. ASSUME NEW c \in 0 .. k - 1
      PROVE  /\ Word(s, c) \in Words(s)
             /\ cell.sum[c][1] = WeightAt(s, oc, Word(s, c))
             /\ c \in real <=> Falls(s, Word(s, c), y)
             /\ c \in real => cell.sum[c] = <<WeightAt(s, oc, Word(s, c)), Met(h, Word(s, c), y)>>
  <2> DEFINE w == Word(s, c)
             t == Tap(s, c)
             v == w[1] * s.kh + w[2]
  <2>1. w \in Words(s) /\ v * s.kw + w[3] = t /\ t \in 0 .. k - 1
    BY <1>1, WordOf, ProductOf
  <2>2. cell.sum[c][1] = WeightAt(s, oc, w)
    <3>1. h * m * k + row * k + t = oc * k + t
      <4>1. h * m * k + row * k = oc * k
        <5> HIDE DEF m, k
        <5> QED
          BY <1>1, <1>2
      <4> QED
        BY <4>1, Zenon
    <3>2. WeightAt(s, oc, w) = <<oc * k + v * s.kw + w[3]>>
      BY Zenon DEF WeightAt
    <3>3. oc * k + v * s.kw + w[3] = oc * k + t
      <4> DEFINE e == oc * k
                 f == v * s.kw
                 d == w[3]
      <4>1. e \in Int /\ f \in Int /\ d \in Int /\ f + d = t
        <5>1. /\ w[1] \in 0 .. s.cin - 1 /\ w[2] \in 0 .. s.kh - 1 /\ d \in 0 .. s.kw - 1
              /\ s.cin \in Nat /\ s.kh \in Nat /\ s.kw \in Nat
          <6> HIDE DEF w
          <6> QED
            BY <1>1, <2>1, ChannelNumbers DEF Words
        <5>2. v \in Int
          <6> HIDE DEF w
          <6> QED
            BY <5>1
        <5>3. f \in Int /\ d \in Int
          <6> HIDE DEF w, v
          <6> QED
            BY <5>1, <5>2
        <5>4. e \in Int
          <6> HIDE DEF oc, k
          <6> QED
            BY <1>1, <1>2
        <5> QED
          BY <2>1, <5>3, <5>4, Zenon
      <4> HIDE DEF e, f, d, t
      <4>2. e + f + d = e + t
        BY <4>1
      <4> QED
        BY <4>2, Zenon DEF e, f, d
    <3>4. cell.sum[c][1] = <<h * m * k + row * k + t>>
      BY <1>6, Zenon
    <3> QED
      BY <3>1, <3>2, <3>3, <3>4, Zenon
  <2>3. cell.sum[c][2] = IF Falls(s, w, y) THEN Met(h, w, y) ELSE <<>>
    <3>1. cell.sum[c][2] = Pixel(h, Product(s, c).ch, Product(s, c).pos, y)
      BY <1>6, Zenon
    <3>2. Pixel(h, Product(s, c).ch, Product(s, c).pos, y) = IF Falls(s, w, y) THEN Met(h, w, y) ELSE <<>>
      BY ONLY WordPixel, Zenon
    <3> HIDE DEF w
    <3> QED
      BY ONLY <3>1, <3>2, Zenon
  <2>4. Met(h, w, y) # <<>>
    BY DEF Met
  <2>5. c \in real <=> cell.sum[c][2] # <<>>
    BY <1>6, Zenon
  <2> HIDE DEF w, real
  <2>6. /\ c \in real <=> Falls(s, w, y)
        /\ c \in real => cell.sum[c] = <<WeightAt(s, oc, w), Met(h, w, y)>>
    BY <1>6, <2>2, <2>3, <2>4, <2>5, Zenon
  <2> QED
    BY <2>1, <2>2, <2>6, Zenon DEF w
<1>8. real \subseteq 0 .. k - 1
  BY <1>6
<1> HIDE DEF real
<1>9. ASSUME NEW c \in real PROVE cell.sum[c] \in ref.taps
  <2>1. c \in 0 .. k - 1
    BY <1>8
  <2> HIDE DEF oc, k
  <2> QED
    BY <1>4, <1>7, <2>1, Zenon
<1>10. ASSUME NEW t \in ref.taps PROVE \E c \in real : cell.sum[c] = t
  <2>1. PICK w \in Words(s) : Falls(s, w, y) /\ t = <<WeightAt(s, oc, w), Met(h, w, y)>>
    BY <1>4, Zenon
  <2>2. PICK c \in 0 .. k - 1 : Word(s, c) = w
    BY <1>1, WordMade
  <2> HIDE DEF oc, k
  <2> QED
    BY <1>7, <2>1, <2>2, Zenon
<1>11. ASSUME NEW c \in real, NEW d \in real, cell.sum[c] = cell.sum[d] PROVE c = d
  <2>1. c \in 0 .. k - 1 /\ d \in 0 .. k - 1
    BY <1>8
  <2>2. <<h * m * k + row * k + Tap(s, c)>> = <<h * m * k + row * k + Tap(s, d)>>
    BY <1>6, <1>11, <2>1, Zenon
  <2> DEFINE z == h * m * k + row * k
             e == Tap(s, c)
             f == Tap(s, d)
  <2>3. z \in Int
    <3> HIDE DEF m, k
    <3> QED
      BY <1>1, <1>2
  <2>4. e \in 0 .. k - 1 /\ f \in 0 .. k - 1 /\ k \in Nat
    BY <1>1, <2>1, ProductOf
  <2> HIDE DEF z, e, f, k
  <2>5. <<z + e>> = <<z + f>>
    BY <2>2, Zenon DEF z, e, f
  <2>6. z + e = z + f
    BY <2>5
  <2>7. e = f
    BY <2>3, <2>4, <2>6
  <2> QED
    BY <1>1, <2>1, <2>7, TapInjective DEF e, f, k
<1>12. {cell.sum[c] : c \in real} = ref.taps
  BY <1>9, <1>10
<1>13. Cardinality(ref.taps) = Cardinality(real)
  <2> DEFINE f == [c \in real |-> cell.sum[c]]
  <2>1. IsFiniteSet(real)
    <3>1. IsFiniteSet(0 .. k - 1)
      <4>1. 0 \in Int /\ k - 1 \in Int
        <5> HIDE DEF k
        <5> QED
          BY <1>1
      <4> HIDE DEF k
      <4> QED
        BY <4>1, FS_Interval
    <3> HIDE DEF k
    <3> QED
      BY <1>8, <3>1, FS_Subset
  <2>2. f \in Bijection(real, ref.taps)
    <3>1. f \in [real -> ref.taps]
      BY <1>9
    <3>2. IsInjective(f)
      BY <1>11 DEF IsInjective
    <3>3. \A t \in ref.taps : \E c \in real : f[c] = t
      BY <1>10
    <3> HIDE DEF f
    <3> QED
      BY <3>1, <3>2, <3>3 DEF Bijection, Injection, Surjection
  <2>3. ExistsBijection(real, ref.taps)
    <3> HIDE DEF f
    <3> QED
      BY <2>2 DEF ExistsBijection
  <2> QED
    BY <2>1, <2>3, FS_Bijection
<1> QED
  <2>1. Agrees(cell, ref)
    BY <1>5, <1>12, <1>13, Zenon DEF Agrees, real
  <2> QED
    BY <2>1, Zenon DEF cell, ref

LEMMA RunExact == ASSUME ExactInv PROVE ConvExact
<1>1. s \in Shape /\ s \in Convolution /\ g \in 0 .. s.group
  BY ShapeAssumption DEF ExactInv, ConvInv
<1> SUFFICES ASSUME Finished, packs = 1, Accepted(s), ~NoRows PROVE RightFor(Undilated(s))
  BY DEF ConvExact, ExactInv, RunInv, Finished
<1> DEFINE u == Undilated(s)
           m == s.m
           n == N(s)
           all == s.group * m
<1>2. u.group = s.group /\ u.m = m /\ N(u) = n /\ PackOut(u) = PackOut(s)
  BY <1>1, UndilatedFields
<1>3. /\ m \in Nat \ {0} /\ n \in Nat \ {0} /\ s.group \in Nat \ {0}
  BY <1>1, ShapeNumbers
<1>4. g = s.group /\ Progress(s, PackWidths, g, i, j, output)
  BY DEF Finished, ExactInv, RunInv
<1>5. /\ i = 0 /\ j = 0
      /\ DOMAIN output = (0 .. g * m * n - 1) \cup Cells(s, g, i, j)
      /\ \A f \in 0 .. g - 1, row \in 0 .. m - 1, y \in 0 .. n - 1 :
           output[Here(s, f, row, y)] = Wanted(f, row, y)
  BY <1>4, Zenon DEF Progress
<1>6. Cells(s, g, i, j) = {}
  <2> SUFFICES ASSUME NEW z \in Cells(s, g, 0, 0) PROVE FALSE
    BY <1>5
  <2>1. PICK row \in 0 .. m - 1, y \in 0 .. n - 1 : DoneAt(s, 0, 0, row, y)
    BY CellsAre, Zenon
  <2>2. row < 0 \/ y < 0
    BY <2>1 DEF DoneAt
  <2> HIDE DEF m, n
  <2> QED
    BY <1>3, <2>2
<1>7. DOMAIN output = 0 .. all * n - 1
  BY <1>4, <1>5, <1>6
<1>8. ASSUME NEW oc \in 0 .. all - 1, NEW y \in 0 .. n - 1
      PROVE  Agrees(output[LaneAt(PackOut(s), all, n, oc, y)], Reference(u, oc, y))
  <2> DEFINE h == oc \div m
             row == oc % m
  <2>1. h \in 0 .. s.group - 1 /\ row \in 0 .. m - 1 /\ oc = h * m + row
    <3> DEFINE groups == s.group
    <3>1. groups \in Nat \ {0}
      BY <1>3
    <3>0. all = groups * m
      OBVIOUS
    <3> HIDE DEF m, groups, all
    <3>4. all \in Nat
      BY <1>3, <3>0, <3>1
    <3>5. oc \in Nat /\ oc < all
      BY <3>4
    <3>2. oc \in Nat /\ oc < groups * m
      BY <3>0, <3>5
    <3>3. h \in Nat /\ row \in 0 .. m - 1 /\ oc = h * m + row /\ h < groups
      BY <1>3, <3>1, <3>2, Divided
    <3> HIDE DEF h, row
    <3> QED
      BY <3>1, <3>3 DEF groups
  <2> HIDE DEF h, row, u
  <2>2. LaneAt(PackOut(s), s.group * s.m, N(s), h * s.m + row, y) = Here(s, h, row, y)
    BY <1>1, <2>1, FinalPlace
  <2>3. output[Here(s, h, row, y)] = Wanted(h, row, y)
    BY <1>4, <1>5, <2>1, Zenon
  <2>4. Agrees(Wanted(h, row, y), Reference(u, h * s.m + row, y))
    BY <1>1, <2>1, Agree DEF u
  <2>5. oc = h * s.m + row
    BY <2>1
  <2> QED
    BY <2>2, <2>3, <2>4, <2>5, Zenon
<1> HIDE DEF u
<1>9. RightFor(u)
  BY <1>2, <1>7, <1>8, Zenon DEF RightFor
<1> QED
  BY <1>9 DEF u

(* A convolution whose kernel was packed once and that the vector kernels     *)
(* accept gives every output of the reference convolution without dilation,   *)
(* each product added once, where the layout says: for every shape, type and  *)
(* length of the vectors, whatever the program called before (ConvExact).     *)
THEOREM ConvolutionExact == ConvSpec => []ConvExact
<1>1. ExactInv /\ [ConvNext]_convVars => ExactInv'
  BY ExactStep
<1>2. ExactInv => ConvExact
  BY RunExact
<1> QED
  BY ExactInit, <1>1, <1>2, PTL DEF ConvSpec
=============================================================================
