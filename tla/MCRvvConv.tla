----------------------------- MODULE MCRvvConv -----------------------------
(***************************************************************************)
(* Instances for TLC: the shapes where the loops of the packing and of the *)
(* multiplication end differently.                                         *)
(***************************************************************************)
EXTENDS RvvConv

(* A kh x kw filter, stride 1, no padding, in floats on thead_rvv *)
Conv(group, m, cin, kh, kw, oh, ow) ==
  [group |-> group, m |-> m, cin |-> cin, kh |-> kh, kw |-> kw, sh |-> 1, sw |-> 1,
   dh |-> 1, dw |-> 1, pt |-> 0, pl |-> 0, bias |-> TRUE,
   ih |-> oh + kh - 1, iw |-> ow + kw - 1, oh |-> oh, ow |-> ow,
   backend |-> "rvv", size |-> 4, vlenb |-> 16]

On(backend, size, vlenb, x) == [x EXCEPT !.backend = backend, !.size = size, !.vlenb = vlenb]

(* Rows 8 + 4 + 2 + 1 against columns 8 + 4 + 2 + 1; two groups; the rows and *)
(* columns of one block; strides and padding; a pointwise filter; dilation;   *)
(* no bias, in one group and in two; a Winograd convolution.                  *)
Shapes == {
  Conv(1, 15, 1, 1, 2, 3, 5),
  Conv(2, 7, 3, 1, 1, 1, 11),
  Conv(2, 3, 2, 2, 2, 3, 3),
  Conv(1, 1, 3, 1, 1, 2, 4),
  Conv(1, 2, 2, 1, 1, 3, 4),
  Conv(1, 9, 2, 1, 1, 1, 9),
  [Conv(1, 2, 1, 2, 2, 3, 3) EXCEPT !.sh = 2, !.sw = 2, !.pt = 1, !.pl = 1, !.ih = 5, !.iw = 5],
  [Conv(1, 2, 1, 3, 2, 2, 3) EXCEPT !.dh = 2, !.dw = 2, !.ih = 6, !.iw = 5],
  [Conv(1, 1, 1, 1, 1, 4, 4) EXCEPT !.pt = 1, !.pl = 1, !.ih = 2, !.iw = 2],
  [Conv(1, 3, 2, 1, 1, 1, 3) EXCEPT !.bias = FALSE],
  [Conv(2, 3, 2, 1, 1, 1, 3) EXCEPT !.bias = FALSE],
  Conv(1, 4, 4, 3, 3, 2, 2)}

(* The other multiplications: all blocks of rows against all blocks of columns, *)
(* and the widths of columns that the first of these do not reach; two groups;  *)
(* a filter of several taps; eight channels.                                    *)
Layouts == {
  On("rvv", 2, 16, Conv(1, 15, 2, 1, 1, 1, 31)),
  On("rvv", 2, 16, Conv(2, 6, 3, 1, 1, 1, 11)),
  On("c908", 4, 16, Conv(1, 15, 2, 1, 1, 1, 23)),
  On("c908", 4, 16, Conv(2, 9, 3, 1, 1, 1, 19)),
  On("c908", 4, 16, Conv(1, 10, 1, 2, 2, 2, 3)),
  On("c908", 4, 32, Conv(1, 15, 2, 1, 1, 1, 27)),
  On("c908", 2, 16, Conv(1, 15, 2, 1, 1, 1, 47)),
  On("c908", 2, 16, Conv(1, 3, 2, 1, 1, 1, 11)),
  On("c908", 2, 32, Conv(1, 15, 2, 1, 1, 1, 53)),
  On("c908", 2, 32, Conv(1, 8, 2, 1, 1, 1, 3)),
  On("c908", 2, 32, Conv(1, 4, 4, 1, 1, 1, 3))}

(* Packed in and out, out only and in only: both blocks of rows and what is  *)
(* left, all blocks of columns, channels that leave a narrow pack, taps,     *)
(* strides and padding, groups, a group that does not fill a vector, no bias.*)
Packed == {
  Conv(1, 12, 4, 1, 1, 3, 9),
  Conv(1, 4, 8, 3, 3, 1, 3),
  [Conv(2, 4, 4, 2, 2, 3, 3) EXCEPT !.sh = 2, !.sw = 2, !.pt = 1, !.pl = 1, !.ih = 5, !.iw = 5],
  [Conv(2, 4, 4, 1, 1, 1, 3) EXCEPT !.bias = FALSE],
  Conv(2, 2, 4, 1, 1, 1, 3),
  Conv(1, 12, 6, 1, 1, 3, 5),
  Conv(1, 4, 9, 2, 2, 1, 3),
  [Conv(2, 4, 3, 2, 1, 3, 2) EXCEPT !.pt = 1, !.ih = 2],
  Conv(1, 15, 4, 1, 1, 3, 5),
  Conv(2, 5, 4, 2, 2, 1, 3),
  [Conv(1, 3, 8, 3, 2, 2, 2) EXCEPT !.pl = 1, !.iw = 1],
  On("rvv", 2, 16, Conv(1, 8, 9, 1, 1, 1, 3)),
  On("rvv", 4, 32, Conv(1, 9, 8, 1, 2, 1, 5))}

AllShapes == Shapes \cup Layouts \cup Packed
=============================================================================
