----------------------------- MODULE AsrBuffer -----------------------------
(***************************************************************************)
(* The cache of the streaming speech layers (cache_matmul, cache_conv1d):  *)
(* every call inserts the outputs of one chunk of frames and gets back a   *)
(* pointer to a window of DataLength elements.  The buffer is twice the    *)
(* window, so that a window is contiguous and only the call that reaches   *)
(* the end moves data.  shl_ref_cache_matmul_f32 inserts always at the     *)
(* same end: the test that decides is on the constant bias.                *)
(* Lengths count elements, the code counts bytes.                          *)
(***************************************************************************)
EXTENDS Integers, Sequences

CONSTANTS Value,       \* the elements
          Zero,        \* what shl_mem_alloc fills the buffer with
          DataLength   \* csinn_asr_buffer_t.data_lenth

ASSUME ValueAssumption == Zero \in Value
ASSUME LengthAssumption == DataLength \in Nat \ {0}

VARIABLES
  front,         \* which end the layer inserts at; never changes
  buffer,        \* csinn_asr_buffer_t.buffer
  writer_index,  \* csinn_asr_buffer_t.writer_index
  flag,          \* csinn_asr_buffer_t.flag: insert_front has passed position 0
  out,           \* where the pointer the last call returned points to
  recent         \* history: the last DataLength elements inserted, in window order

vars == <<front, buffer, writer_index, flag, out, recent>>

buffer_lenth == 2 * DataLength

Positions == 0 .. buffer_lenth - 1

(* n elements from position p on, and the buffer after a memcpy to p. *)
Slice(b, p, n) == [k \in 1 .. n |-> b[p + k - 1]]
Memcpy(b, p, s) ==
  [k \in Positions |-> IF p <= k /\ k < p + Len(s) THEN s[k - p + 1] ELSE b[k]]

(* Mutant: the writer starts at the bottom whatever the direction. *)
MutInit ==
  /\ front \in BOOLEAN
  /\ buffer = [k \in Positions |-> Zero]
  /\ writer_index = 0
  /\ flag = FALSE /\ out = 0 /\ recent = <<>>

(* asr_buffer_init *)
Init ==
  /\ front \in BOOLEAN
  /\ buffer = [k \in Positions |-> Zero]
  /\ writer_index = buffer_lenth - DataLength
  /\ flag = FALSE /\ out = 0 /\ recent = <<>>
-----------------------------------------------------------------------------
(* The last DataLength elements, for the two directions. *)
Newest(s) == [k \in 1 .. DataLength |-> s[Len(s) - DataLength + k]]
KeepFront(s) == IF Len(s) <= DataLength THEN s ELSE SubSeq(s, 1, DataLength)
KeepBack(s)  == IF Len(s) <= DataLength THEN s ELSE Newest(s)

(* Mutant: the pointer is always the start of what was inserted. *)
MutFrontSlides(input) ==
  LET start == writer_index - Len(input) IN
  /\ start >= 0
  /\ buffer' = Memcpy(buffer, start, input)
  /\ writer_index' = start
  /\ out' = start
  /\ UNCHANGED flag

(* asr_buffer_insert_front: room below the writer ... *)
FrontSlides(input) ==
  LET start == writer_index - Len(input) IN
  /\ start >= 0
  /\ buffer' = Memcpy(buffer, start, input)
  /\ writer_index' = start
  /\ out' = IF flag THEN start ELSE 0
  /\ UNCHANGED flag

(* ... or none: the window starts again in the upper half. *)
FrontWraps(input) ==
  LET start == buffer_lenth - DataLength
      placed == Memcpy(buffer, start, input)
  IN
  /\ writer_index - Len(input) < 0
  /\ buffer' = Memcpy(placed, start + Len(input),
                      Slice(placed, writer_index, DataLength - Len(input)))
  /\ writer_index' = start
  /\ out' = start
  /\ flag' = TRUE

InsertFront(input) ==
  /\ front
  /\ FrontSlides(input) \/ FrontWraps(input)
  /\ recent' = KeepFront(input \o recent)
  /\ UNCHANGED front

(* asr_buffer_insert_back, the same two ways. *)
BackSlides(input) ==
  /\ writer_index + Len(input) <= buffer_lenth
  /\ buffer' = Memcpy(buffer, writer_index, input)
  /\ writer_index' = writer_index + Len(input)
  /\ out' = writer_index - (DataLength - Len(input))

(* Mutant: the writer moves on instead of starting again. *)
MutBackWraps(input) ==
  LET kept == DataLength - Len(input)
      moved == Memcpy(buffer, 0, Slice(buffer, writer_index + Len(input) - DataLength, kept))
  IN
  /\ writer_index + Len(input) > buffer_lenth
  /\ buffer' = Memcpy(moved, kept, input)
  /\ writer_index' = writer_index + Len(input)
  /\ out' = 0

BackWraps(input) ==
  LET kept == DataLength - Len(input)
      moved == Memcpy(buffer, 0, Slice(buffer, writer_index + Len(input) - DataLength, kept))
  IN
  /\ writer_index + Len(input) > buffer_lenth
  /\ buffer' = Memcpy(moved, kept, input)
  /\ writer_index' = DataLength
  /\ out' = 0

InsertBack(input) ==
  /\ ~front
  /\ BackSlides(input) \/ BackWraps(input)
  /\ recent' = KeepBack(recent \o input)
  /\ UNCHANGED <<front, flag>>

(* asr_buffer_get_buffer *)
GetBuffer == InsertBack(<<>>)

Chunks == UNION {[1 .. n -> Value] : n \in 1 .. DataLength}

Next ==
  \/ \E input \in Chunks : InsertFront(input) \/ InsertBack(input)
  \/ GetBuffer

Spec == Init /\ [][Next]_vars
-----------------------------------------------------------------------------
TypeOK ==
  /\ front \in BOOLEAN /\ flag \in BOOLEAN
  /\ buffer \in [Positions -> Value]
  /\ writer_index \in 0 .. buffer_lenth
  /\ out \in 0 .. DataLength
  /\ recent \in Seq(Value) /\ Len(recent) <= DataLength

(* The window a call returns holds the last DataLength elements inserted,    *)
(* newest first or newest last, however the chunks were cut and wherever the *)
(* writer stands; while fewer were inserted, it is padded with zeros.        *)
Window == Slice(buffer, out, DataLength)

Padded(s) ==
  LET pad == DataLength - Len(s) IN
  [k \in 1 .. DataLength |-> IF k <= pad THEN Zero ELSE s[k - pad]]

WindowIsRecent == Window = Padded(recent)

(* Whatever the length of the next chunk, asr_buffer_insert_front and _back  *)
(* stay inside the buffer, and no memcpy of theirs reads what it writes.     *)
AccessesSafe ==
  \A n \in 1 .. DataLength :
    IF front
      THEN IF writer_index >= n
             THEN writer_index - n + DataLength <= buffer_lenth
             ELSE writer_index + DataLength - n <= DataLength + n
      ELSE IF writer_index + n <= buffer_lenth
             THEN writer_index >= DataLength - n
             ELSE writer_index + n - DataLength >= DataLength - n
=============================================================================
