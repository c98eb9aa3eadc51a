----------------------------- MODULE MCStreams -----------------------------
(***************************************************************************)
(* A session with one streaming layer: a cache or an FSMN layer.           *)
(*                                                                         *)
(* The cache has a window of three elements, chunks of every length up to  *)
(* three, so that the writer reaches the end with every remainder, and two *)
(* values besides zero, enough to tell stale elements from fresh ones.     *)
(*                                                                         *)
(* The FSMN layers are all that fit a line of up to five frames, those     *)
(* that read its last frame included, and the counter has four bits.       *)
(***************************************************************************)
EXTENDS AsrBuffer, Fsmn

VARIABLE kind   \* the layer of the session

Shape(n, lo, ls, ro, rs, u) ==
  [len_order |-> n, l_order |-> lo, l_stride |-> ls, r_order |-> ro, r_stride |-> rs,
   unavailable_frames |-> u]

mc_Value == {0, 1, 2}
mc_FsmnLayer ==
  {q \in {Shape(n, lo, ls, ro, rs, u) :
            n \in 1 .. 5, lo \in 1 .. 3, ls \in 1 .. 2, ro \in 0 .. 2, rs \in 1 .. 2, u \in 0 .. 2} :
     Covers(q)}

AnyFsmn == CHOOSE q \in FsmnLayer : TRUE

StreamInit ==
  /\ kind \in {"cache", "fsmn"}
  /\ Init /\ FsmnInit
  /\ kind = "cache" => p = AnyFsmn
  /\ kind = "fsmn" => front

StreamNext ==
  /\ UNCHANGED kind
  /\ \/ kind = "cache" /\ Next /\ UNCHANGED fsmnVars
     \/ kind = "fsmn" /\ Frame /\ UNCHANGED vars

StreamSpec == StreamInit /\ [][StreamNext]_<<kind, vars, fsmnVars>>
=============================================================================
