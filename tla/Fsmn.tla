------------------------------- MODULE Fsmn -------------------------------
(***************************************************************************)
(* The streaming FSMN layer (source/reference/fsmn.c).  Two of its         *)
(* constant tensors are its state: frame_sequence, a delay line of the     *)
(* last frames, and frame_counter.  Every csinn_session_run gives it one   *)
(* frame; the result weights the frames before and after the current one,  *)
(* which is some way back in the line.                                     *)
(*                                                                         *)
(* A frame is the number of the run that delivered it, 0 the frame of      *)
(* zeros the line starts with; a result is what each weight is applied to. *)
(***************************************************************************)
EXTENDS Integers

CONSTANTS
  FsmnLayer,  \* the layers: frame_sequence->dim[0] and csinn_fsmn_params
  IntMax,     \* INT32_MAX
  MaxFrames   \* bound: frames delivered

(* The reads of the kernel lie inside the line; the kernel does not check. *)
Covers(p) ==
  /\ (p.l_order - 1) * p.l_stride < p.len_order
  /\ p.r_order > 0 => p.l_order * p.l_stride + (p.r_order - 1) * p.r_stride < p.len_order

FsmnParams ==
  [len_order : Nat \ {0}, l_order : Nat \ {0}, l_stride : Nat \ {0},
   r_order : Nat, r_stride : Nat \ {0}, unavailable_frames : Nat]

ASSUME LayerAssumption == FsmnLayer \subseteq FsmnParams /\ \A p \in FsmnLayer : Covers(p)
ASSUME FramesAssumption == IntMax \in Nat \ {0} /\ MaxFrames \in Nat

VARIABLES
  p,            \* the layer; never changes
  frame_count,  \* frame_counter->data, 32 bits
  line,         \* frame_sequence->data
  seen,         \* history: frames delivered
  result        \* what the last call applied its weights to

fsmnVars == <<p, frame_count, line, seen, result>>

FsmnInit ==
  /\ p \in FsmnLayer
  /\ frame_count = 0 /\ seen = 0
  /\ line = [n \in 0 .. p.len_order - 1 |-> 0]
  /\ result = [past |-> <<>>, current |-> 0, future |-> <<>>]

(* frame_count[0]++ on 32 bits *)
Inc(n) == IF n = IntMax THEN 0 - IntMax - 1 ELSE n + 1

(* Mutant: the frame that makes up the delay is not taken. *)
MutTaken(n) == n > p.unavailable_frames + 1

(* The first frames are counted and not put into the line. *)
Taken(n) == n > p.unavailable_frames

(* Mutant: the loop ends one frame early and the tail is never filled. *)
MutPushed(f) == [n \in DOMAIN line |-> IF n = p.len_order - 1 THEN line[n] ELSE line[n + 1]]

(* Every frame moves one place towards the head, f becomes the tail.        *)
Pushed(f) == [n \in DOMAIN line |-> IF n = p.len_order - 1 THEN f ELSE line[n + 1]]

(* Mutant: the weights of the past are applied in the order they are in. *)
MutWeighted(l) ==
  [past    |-> [w \in 0 .. p.l_order - 1 |-> l[w * p.l_stride]],
   current |-> l[(p.l_order - 1) * p.l_stride],
   future  |-> [w \in 0 .. p.r_order - 1 |-> l[p.l_order * p.l_stride + w * p.r_stride]]]

(* The three sums of shl_ref_fsmn_f32: the frame that past_filter[w] is     *)
(* applied to (k = l_order - w - 1), the current one, and future_filter[w]. *)
Weighted(l) ==
  [past    |-> [w \in 0 .. p.l_order - 1 |-> l[(p.l_order - w - 1) * p.l_stride]],
   current |-> l[(p.l_order - 1) * p.l_stride],
   future  |-> [w \in 0 .. p.r_order - 1 |-> l[p.l_order * p.l_stride + w * p.r_stride]]]

(* shl_ref_fsmn_f32 *)
Frame ==
  /\ seen < MaxFrames
  /\ seen' = seen + 1
  /\ frame_count' = Inc(frame_count)
  /\ line' = IF Taken(frame_count') THEN Pushed(seen') ELSE line
  /\ result' = Weighted(line')
  /\ UNCHANGED p

FsmnSpec == FsmnInit /\ [][Frame]_fsmnVars
-----------------------------------------------------------------------------
FsmnTypeOK ==
  /\ p \in FsmnLayer
  /\ seen \in 0 .. MaxFrames
  /\ frame_count \in 0 - IntMax - 1 .. IntMax
  /\ line \in [0 .. p.len_order - 1 -> 0 .. seen]

(* The frame that was delivered lag runs ago, if it was one of those the    *)
(* line takes.                                                              *)
Ago(lag) == IF seen - lag > p.unavailable_frames THEN seen - lag ELSE 0

(* Until the counter overflows, the line holds the frames of the latest     *)
(* runs in order, none skipped and none twice, and the result reads them at *)
(* fixed distances: past_filter[w] is applied to the frame l_stride * w     *)
(* runs before the current one, so that past_filter[0] weights the current  *)
(* frame again, and future_filter[w] to the one l_stride + w * r_stride     *)
(* runs after it.                                                           *)
ResultByDistance ==
  seen \in 1 .. IntMax =>
    LET behind == p.len_order - 1 - (p.l_order - 1) * p.l_stride IN
    /\ \A n \in DOMAIN line : line[n] = Ago(p.len_order - 1 - n)
    /\ result.current = Ago(behind)
    /\ \A w \in 0 .. p.l_order - 1 : result.past[w] = Ago(behind + w * p.l_stride)
    /\ \A w \in 0 .. p.r_order - 1 :
         result.future[w] = Ago(behind - p.l_stride - w * p.r_stride)

(* The 32-bit counter decides whether frames are taken: after IntMax runs   *)
(* it is negative, and the layer takes no frame, and repeats its result,    *)
(* for as many runs again and the delay at the start.                       *)
FrozenAfterOverflow ==
  LET n == seen % (2 * (IntMax + 1)) IN
  seen > 0 =>
    (line[p.len_order - 1] = seen <=> n \in p.unavailable_frames + 1 .. IntMax)
=============================================================================
