------------------------------ MODULE RvvConv ------------------------------
(***************************************************************************)
(* The float convolutions of the two RISC-V vector backends                *)
(* (source/thead_rvv, source/c908_opt) and the calls a program makes of    *)
(* them, csinn_conv2d_init and csinn_conv2d.  The first packs the kernel,  *)
(* in place, or transforms it into a new tensor; the second turns the      *)
(* image into a matrix, packs it and multiplies tile by tile, for each     *)
(* group.  Each backend has a packing and a multiplication for every type  *)
(* of element and, on the c908, for every length of the vectors.           *)
(*                                                                         *)
(* Data are symbolic: an element of the kernel or of the image is its      *)
(* address in the tensor the program gave (<<a>>, <<>> is a zero of the    *)
(* padding), an output is its bias and the products it adds up.  Packing   *)
(* and tiling must meet in the middle: nothing but the layout tells the    *)
(* multiplication what it reads.                                           *)
(***************************************************************************)
EXTENDS Integers, FiniteSets

CONSTANTS
  Shape,    \* the convolutions: dimensions of the tensors, csinn_conv2d_params, and
            \* the backend, the bytes of an element and those of a vector register
  Op,       \* the convolutions of the program that share this kernel tensor
  MaxCalls  \* bound: calls of the API

VARIABLES
  s,      \* the shape; never changes
  kdata,  \* kernel->data
  packs,  \* history: how often it was packed
  weights, \* what the callback of each op reads: kernel->data (packed) or kernel_tm
  call,   \* the op that is running, or None
  g,      \* the loops of the group, of the rows and of the columns
  i,
  j,
  output, \* output->data
  calls   \* calls made, bounded by MaxCalls

convVars == <<s, kdata, packs, weights, call, g, i, j, output, calls>>

None == 0
ASSUME OpAssumption == None \notin Op /\ MaxCalls \in Nat

(* m, k, n of a group: output channels, products per output, outputs per channel *)
Maxk(x) == x.kh * x.kw
K(x) == x.cin * Maxk(x)
N(x) == x.oh * x.ow

(* A read outside a buffer gives anything. *)
At(buffer, a) == IF a \in DOMAIN buffer THEN buffer[a] ELSE <<"outside", a>>

ConvInit ==
  /\ s \in Shape
  /\ kdata = [a \in 0 .. s.group * s.m * K(s) - 1 |-> <<a>>]
  /\ weights = [o \in Op |-> "unset"]
  /\ packs = 0 /\ calls = 0
  /\ call = None /\ g = 0 /\ i = 0 /\ j = 0 /\ output = <<>>

---------------------------------------------------------------------------
(* csinn_conv2d_init: which kernels, and the packing of the weights *)

Is1x1(x) == {x.kh, x.kw, x.sh, x.sw, x.dh, x.dw} = {1}
PackN(x) == x.vlenb \div x.size
Packn(x) == x.cin % PackN(x) = 0 /\ (x.group * x.m) % PackN(x) = 0
Pack1ton(x) == x.cin % PackN(x) # 0 /\ (x.group * x.m) % PackN(x) = 0
Packnto1(x) == x.cin % PackN(x) = 0 /\ (x.group * x.m) % PackN(x) # 0
Pack1(x) == x.cin % PackN(x) # 0 /\ (x.group * x.m) % PackN(x) # 0
Winograd(x) == Packn(x) /\ {x.kh, x.kw} = {3} /\ {x.sh, x.sw, x.dh, x.dw} = {1} /\ x.group = 1

(* The sizes are those of tensors that have elements. *)
Convolution ==
  [group : Nat \ {0}, m : Nat \ {0}, cin : Nat \ {0}, kh : Nat \ {0}, kw : Nat \ {0},
   sh : Nat \ {0}, sw : Nat \ {0}, dh : Nat \ {0}, dw : Nat \ {0}, pt : Nat, pl : Nat,
   ih : Nat \ {0}, iw : Nat \ {0}, oh : Nat \ {0}, ow : Nat \ {0}, bias : BOOLEAN,
   backend : {"rvv", "c908"}, size : {2, 4}, vlenb : {16, 32}]

(* The depthwise convolution has kernels of its own, and so have the c908's    *)
(* convolutions of full vectors, which are in assembly; neither is modelled.   *)
(* The image holds all that the filter reaches for.                            *)
ASSUME ShapeAssumption ==
  /\ Shape \subseteq Convolution
  /\ \A x \in Shape :
       /\ x.group > 1 => x.cin > 1
       /\ x.backend = "rvv" \/ Pack1(x) \/ Winograd(x)
       /\ (x.oh - 1) * x.sh + x.kh <= x.ih + 2 * x.pt
       /\ (x.ow - 1) * x.sw + x.kw <= x.iw + 2 * x.pl

(* Rows, columns and channels are taken by the widest block that still fits, *)
(* or, where none does, all that are left at once.                           *)
Widest(widths, left) == IF \E w \in widths : w <= left
                        THEN CHOOSE w \in widths : w <= left /\ \A v \in widths : v <= left => v <= w
                        ELSE left

Blocks(widths, n) ==
  LET from[a \in 0 .. n] ==
        IF a = n THEN {}
        ELSE LET w == Widest(widths, n - a) IN {[start |-> a, width |-> w]} \cup from[a + w]
  IN from[0]

BlockOf(blocks, a) == CHOOSE b \in blocks : a \in b.start .. b.start + b.width - 1

(* NC1HWC0: the channels are stored in packs, and in a pack element by element; *)
(* the channels that do not fill a pack make a narrower one.  A pack of one is  *)
(* NCHW.  Where channel ch of element pos of size ones is ...                   *)
LaneAt(pack, channels, size, ch, pos) ==
  LET b == BlockOf(Blocks({pack}, channels), ch) IN b.start * size + pos * b.width + ch - b.start

(* ... and what is at an address *)
Lane(pack, channels, size, t) ==
  LET b == BlockOf(Blocks({pack}, channels), t \div size)
      o == t - b.start * size
  IN [ch |-> b.start + (o % b.width), pos |-> o \div b.width]

PackIn(x) == IF Packn(x) \/ Packnto1(x) THEN PackN(x) ELSE 1
PackOut(x) == IF Packn(x) \/ Pack1ton(x) THEN PackN(x) ELSE 1
Pack(x) == IF Pack1(x) THEN 1 ELSE PackN(x)

(* The order in which an output adds up its products: channel and tap of each *)
Product(x, c) == Lane(Pack(x), x.cin, Maxk(x), c)
Tap(x, c) == Product(x, c).ch * Maxk(x) + Product(x, c).pos

RowWidths(x) == IF Pack1(x) THEN {8, 4, 2, 1} ELSE {2 * PackN(x), PackN(x)}

(* Mutant: the rows left over after the widest blocks are copied, not interleaved. *)
MutReorderKernel(a, x) ==
  [t \in 0 .. x.m * K(x) - 1 |->
     LET b == BlockOf(Blocks(RowWidths(x), x.m), t \div K(x))
         o == t - b.start * K(x)
     IN IF b.width < 8 THEN a[t] ELSE a[(b.start + (o % b.width)) * K(x) + Tap(x, o \div b.width)]]

(* In a block of rows the matrix is stored by columns.  Rows that do not fill *)
(* a vector are left out where all of the channels together do.               *)
ReorderKernel(a, x) ==
  [t \in 0 .. x.m * K(x) - 1 |->
     LET b == BlockOf(Blocks(RowWidths(x), x.m), t \div K(x))
         o == t - b.start * K(x)
     IN IF (Packn(x) \/ Pack1ton(x)) /\ b.width < PackN(x) THEN <<>>
        ELSE a[(b.start + (o % b.width)) * K(x) + Tap(x, o \div b.width)]]

(* Each group is packed by itself and the result copied back over the weights. *)
PackedKernel ==
  LET size == s.m * K(s)
      part == [h \in 0 .. s.group - 1 |->
                 ReorderKernel([t \in 0 .. size - 1 |-> kdata[h * size + t]], s)]
  IN [t \in DOMAIN kdata |-> part[t \div size][t % size]]

(* csinn_conv2d_init.  The transformed kernel of a Winograd convolution is a *)
(* new tensor; whatever kernel_tm pointed to is forgotten.                   *)
Init2d(o) ==
  /\ call = None /\ calls < MaxCalls
  /\ calls' = calls + 1
  /\ IF Winograd(s)
     THEN /\ weights' = [weights EXCEPT ![o] = "live"]
          /\ UNCHANGED <<kdata, packs>>
     ELSE /\ kdata' = PackedKernel /\ packs' = packs + 1
          /\ weights' = [weights EXCEPT ![o] = "packed"]
  /\ UNCHANGED <<s, call, g, i, j, output>>

---------------------------------------------------------------------------
(* csinn_conv2d: image to matrix, packing of the matrix, multiplication *)

(* What the tap at (a, b) of the filter meets for output y; <<>> is the zero of  *)
(* the padding.  The dilation is not looked at.                                 *)
ImageAt(h, im, row, col) ==
  h * s.cin * s.ih * s.iw + LaneAt(PackIn(s), s.cin, s.ih * s.iw, im, row * s.iw + col)

Pixel(h, im, tap, y) ==
  LET row == (tap \div s.kw) + (y \div s.ow) * s.sh - s.pt
      col == (tap % s.kw) + (y % s.ow) * s.sw - s.pl
  IN IF row \in 0 .. s.ih - 1 /\ col \in 0 .. s.iw - 1 THEN <<ImageAt(h, im, row, col)>> ELSE <<>>

(* The matrix has a channel per channel and an element per tap and output. *)
MatrixAt(c, y) ==
  LET p == Product(s, c) IN LaneAt(Pack(s), s.cin, Maxk(s) * N(s), p.ch, p.pos * N(s) + y)

Im2col(h) ==
  [t \in 0 .. K(s) * N(s) - 1 |->
     LET e == Lane(Pack(s), s.cin, Maxk(s) * N(s), t)
     IN Pixel(h, e.ch, e.pos \div N(s), e.pos % N(s))]

(* A 1x1 convolution takes the image as the matrix it is, padding or not; one *)
(* that packs the output but not the image packs the image first.             *)
Matrix(h) ==
  IF ~Is1x1(s) THEN Im2col(h)
  ELSE IF Pack1ton(s)
    THEN [t \in 0 .. K(s) * N(s) - 1 |->
            LET e == Lane(PackN(s), s.cin, N(s), t) IN <<h * K(s) * N(s) + e.ch * N(s) + e.pos>>]
    ELSE [t \in 0 .. K(s) * N(s) - 1 |-> <<h * K(s) * N(s) + t>>]

(* The widths of the blocks of columns the packings interleave; in thead_rvv *)
(* the columns left over are stored one by one, on the c908 as one block.    *)
rvv_reorder_input_z12_packn == {12, 8, 4, 2, 1}
rvv_reorder_input_z8_fp32 == {8, 1}
rvv_reorder_input_z16_fp16 == {16, 8, 1}
c908_reorder_input_z12_fp32 == {12, 8, 4}
c908_reorder_input_z16_fp32_v256 == {16, 8}
c908_reorder_input_z24_fp16 == {24, 16, 8}
c908_reorder_input_z32_fp16_v256 == {32, 16}

(* The dispatch on type and length of the vectors *)
Of(x, rvv32, rvv16, c32, c32_256, c16, c16_256) ==
  CASE x.backend = "rvv" /\ x.size = 4 -> rvv32
    [] x.backend = "rvv" /\ x.size = 2 -> rvv16
    [] x.backend = "c908" /\ x.size = 4 -> IF x.vlenb = 16 THEN c32 ELSE c32_256
    [] x.backend = "c908" /\ x.size = 2 -> IF x.vlenb = 16 THEN c16 ELSE c16_256

PackWidths ==
  IF ~Pack1(s) THEN rvv_reorder_input_z12_packn
  ELSE Of(s, rvv_reorder_input_z8_fp32, rvv_reorder_input_z16_fp16,
          c908_reorder_input_z12_fp32, c908_reorder_input_z16_fp32_v256,
          c908_reorder_input_z24_fp16, c908_reorder_input_z32_fp16_v256)

ReorderInput(b, k, n) ==
  LET blocks == Blocks(PackWidths, n) IN
  [t \in 0 .. k * n - 1 |->
     LET q == BlockOf(blocks, t \div k)
         o == t - q.start * k
     IN b[MatrixAt(o \div q.width, q.start + (o % q.width))]]

(* The widths of the tiles of the multiplications, for a block of rows *)
rvv_ncxhwx_gemm_12xpack2n(rows) == {12, 8, 4, 2, 1}
rvv_gemm_8x8_fp32(rows) == IF rows >= 4 THEN {8, 4, 2, 1} ELSE {8, 1}
rvv_gemm_8x16_fp16(rows) == IF rows = 8 THEN {16, 8, 4, 2, 1} ELSE {16, 8, 1}
c908_gemm_8x12_fp32(rows) == {12, 8, 4}
c908_gemm_8x16_fp32_v256(rows) == {16, 8}
c908_gemm_8x24_fp16(rows) == {24, 16, 8}
c908_gemm_8x32_fp16_v256(rows) == {32, 16}

TileWidths(rows) ==
  IF ~Pack1(s) THEN rvv_ncxhwx_gemm_12xpack2n(rows)
  ELSE Of(s, rvv_gemm_8x8_fp32(rows), rvv_gemm_8x16_fp16(rows),
          c908_gemm_8x12_fp32(rows), c908_gemm_8x16_fp32_v256(rows),
          c908_gemm_8x24_fp16(rows), c908_gemm_8x32_fp16_v256(rows))

(* bias_data + g * m; without bias_data the multiplication looks for NULL, *)
(* which only the packed convolutions see to.                              *)
Bias(h, row) ==
  IF s.bias THEN <<"bias", h * s.m + row>>
  ELSE IF h * s.m = 0 \/ ~Pack1(s) THEN <<"zero">> ELSE <<"wild", h * s.m + row>>

(* The place of element c of column x in the packed input: the narrow tiles  *)
(* of thead_rvv read column by column, all others across.                    *)
InputAt(cols, c, x) ==
  IF Pack1(s) /\ s.backend = "rvv" /\ cols < 8 THEN (j + x) * K(s) + c ELSE j * K(s) + cols * c + x

(* The place of element c of row r in the packed kernel *)
KernelAt(rows, c, r) == g * s.m * K(s) + i * K(s) + rows * c + r

Rows == Widest(RowWidths(s), s.m - i)

(* Mutant: the columns left over are taken by four. *)
MutCols == IF N(s) - j >= 8 THEN 8 ELSE 4

Cols == Widest(TileWidths(Rows), N(s) - j)
Products == 0 .. K(s) - 1

(* What the running tile reads and writes *)
Reads == {<<KernelAt(Rows, c, r), InputAt(Cols, c, x)>> :
            r \in 0 .. Rows - 1, x \in 0 .. Cols - 1, c \in Products}
Place(r, x) == g * s.m * N(s) + LaneAt(Pack(s), s.m, N(s), i + r, j + x)
Writes == {Place(r, x) : r \in 0 .. Rows - 1, x \in 0 .. Cols - 1}

(* One tile: each of its accumulators starts with a bias and adds k products. *)
TileResult ==
  LET input == ReorderInput(Matrix(g), K(s), N(s))
      cell(a) == LET e == Lane(Pack(s), s.m, N(s), a - g * s.m * N(s))
                 IN [bias |-> Bias(g, e.ch),
                     sum |-> [c \in Products |-> <<At(kdata, KernelAt(Rows, c, e.ch - i)),
                                                   At(input, InputAt(Cols, c, e.pos - j))>>]]
  IN [a \in Writes |-> cell(a)]

(* The outputs of a tile, over what was there *)
Stored(tile) ==
  [a \in DOMAIN tile \cup DOMAIN output |-> IF a \in DOMAIN tile THEN tile[a] ELSE output[a]]

(* The last step of a group: where the output is not packed, it is unpacked. *)
Unpacked(o) ==
  [a \in DOMAIN o |->
     IF a < g * s.m * N(s) THEN o[a]
     ELSE o[g * s.m * N(s) + LaneAt(Pack(s), s.m, N(s),
              (a - g * s.m * N(s)) \div N(s), (a - g * s.m * N(s)) % N(s))]]

(* Here the callback is the kernel itself (cb->exec == func), and after it    *)
(* csinn_conv2d frees the transformed kernel and leaves the pointer.  A graph *)
(* is built by another callback and its executor calls the kernel directly:   *)
(* there the free is not reached, which this module does not cover.           *)
Winograd2d(o) ==
  /\ Winograd(s)
  /\ weights' = [weights EXCEPT ![o] = "freed"]
  /\ UNCHANGED <<call, g, i, j, output>>

Gemm2d(o) ==
  /\ ~Winograd(s)
  /\ call' = o /\ g' = 0 /\ i' = 0 /\ j' = 0 /\ output' = <<>>
  /\ UNCHANGED weights

Conv2d(o) ==
  /\ call = None /\ calls < MaxCalls
  /\ weights[o] # "unset"
  /\ calls' = calls + 1
  /\ Winograd2d(o) \/ Gemm2d(o)
  /\ UNCHANGED <<s, kdata, packs>>

Running == call # None /\ g < s.group
LastColumns == j + Cols = N(s)
LastRows == i + Rows = s.m

(* The multiplications of the c908 enter their loop over eight rows when there *)
(* are more than eight, and take the rows left over then.                      *)
NoRows == s.backend = "c908" /\ Pack1(s) /\ s.m = 8

SkipGroup ==
  /\ Running /\ NoRows
  /\ g' = g + 1
  /\ UNCHANGED <<s, kdata, packs, weights, call, i, j, output, calls>>

Tile ==
  /\ Running /\ ~NoRows
  /\ output' = IF LastColumns /\ LastRows /\ Packnto1(s) THEN Unpacked(Stored(TileResult)) ELSE Stored(TileResult)
  /\ j' = IF LastColumns THEN 0 ELSE j + Cols
  /\ i' = IF ~LastColumns THEN i ELSE IF LastRows THEN 0 ELSE i + Rows
  /\ g' = IF LastColumns /\ LastRows THEN g + 1 ELSE g
  /\ UNCHANGED <<s, kdata, packs, weights, call, calls>>

Return ==
  /\ call # None /\ g = s.group
  /\ call' = None
  /\ UNCHANGED <<s, kdata, packs, weights, g, i, j, output, calls>>

ConvNext == (\E o \in Op : Init2d(o) \/ Conv2d(o)) \/ Tile \/ SkipGroup \/ Return
ConvSpec == ConvInit /\ [][ConvNext]_convVars

---------------------------------------------------------------------------
(* Properties *)

(* What the reference convolution (source/reference/convolution.c) adds up   *)
(* for an output: the taps of the filter that fall inside the image.         *)
Reference(x, oc, y) ==
  LET y0 == (y \div x.ow) * x.sh - x.pt
      x0 == (y % x.ow) * x.sw - x.pl
      inside == {w \in (0 .. x.cin - 1) \X (0 .. x.kh - 1) \X (0 .. x.kw - 1) :
                   /\ y0 + x.dh * w[2] \in 0 .. x.ih - 1
                   /\ x0 + x.dw * w[3] \in 0 .. x.iw - 1}
      image(w) == ImageAt(oc \div x.m, w[1], y0 + x.dh * w[2], x0 + x.dw * w[3])
  IN [bias |-> IF x.bias THEN <<"bias", oc>> ELSE <<"zero">>,
      taps |-> {<< <<oc * K(x) + (w[1] * x.kh + w[2]) * x.kw + w[3]>>, <<image(w)>> >> : w \in inside}]

(* An output adds up exactly these products, each once. *)
Agrees(cell, ref) ==
  LET real == {c \in DOMAIN cell.sum : cell.sum[c][2] # <<>>}
  IN /\ cell.bias = ref.bias
     /\ {cell.sum[c] : c \in real} = ref.taps
     /\ Cardinality(ref.taps) = Cardinality(real)

Finished == call # None /\ g = s.group
RightFor(x) ==
  /\ DOMAIN output = 0 .. x.group * x.m * N(x) - 1
  /\ \A oc \in 0 .. x.group * x.m - 1, y \in 0 .. N(x) - 1 :
       Agrees(output[LaneAt(PackOut(x), x.group * x.m, N(x), oc, y)], Reference(x, oc, y))

Undilated(x) == [x EXCEPT !.dh = 1, !.dw = 1]

(* No tile reads outside the packed kernel of its group or the packed image, *)
(* or writes an output twice or one of another group.  Nothing checks this:  *)
(* the loops, the packing and the sizes of the buffers must agree.  (What    *)
(* the c908 kernels load a step ahead and never use is not among the reads.) *)
TilesInside ==
  Running /\ ~NoRows =>
    /\ \A r \in Reads : /\ r[1] \in g * s.m * K(s) .. (g + 1) * s.m * K(s) - 1
                        /\ r[2] \in 0 .. K(s) * N(s) - 1
    /\ Writes \subseteq g * s.m * N(s) .. (g + 1) * s.m * N(s) - 1
    /\ Writes \cap DOMAIN output = {}

(* A convolution whose kernel was packed once, with a bias or in one group   *)
(* (or packed), not padded and with an output as large as its image when it  *)
(* is 1x1, and whose groups fill vectors if all its outputs do, gives every  *)
(* output of the reference convolution WITHOUT dilation, where the layout of *)
(* the output says: so the right result when there is none, and a silent     *)
(* wrong one when there is.  The exception is a group of exactly eight       *)
(* channels on the c908, whose outputs are not written at all.  Packing,     *)
(* im2col and tiles are in five files that know of each other's layouts only *)
(* by comments.                                                              *)
Accepted(x) ==
  /\ x.bias \/ x.group = 1 \/ ~Pack1(x)
  /\ Is1x1(x) => x.pt = 0 /\ x.pl = 0 /\ x.oh = x.ih /\ x.ow = x.iw
  /\ Packn(x) \/ Pack1ton(x) => x.m % PackN(x) = 0

ConvExact ==
  (Finished /\ packs = 1 /\ Accepted(s)) => IF NoRows THEN output = <<>> ELSE RightFor(Undilated(s))

(* Refuted: what tests/validation_layer/convolution.cpp compares with, the   *)
(* convolution with the dilation of its parameters.                          *)
DilationRight ==
  (Finished /\ packs = 1 /\ s.bias /\ s.group = 1 /\ s.backend = "rvv" /\ ~Is1x1(s)) => RightFor(s)
=============================================================================
