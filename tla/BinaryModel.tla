---------------------------- MODULE BinaryModel ----------------------------
(***************************************************************************)
(* The graph information section of a binary model (source/nn2/format.c):  *)
(* session_dump lays a session, two tables and its tensors out in one      *)
(* block, with offsets where the pointers were, and csinn_import_binary_   *)
(* model makes a session of such a block in memory.                        *)
(*                                                                         *)
(* A cell of the image is as large as what it holds: a byte, the fields of *)
(* a structure that are copied as they are, or a pointer.                  *)
(***************************************************************************)
EXTENDS Integers, SequencesExt

CONSTANTS
  Tensor,     \* the tensors of these sessions: [name, dim, qinfo]
  Session,    \* the sessions to dump: [in, out, api, mode]
  Word,       \* 2^32, the values that read_offset can tell apart
  Base,       \* where, modulo Word, the image is in memory when it is imported
  MaxImports  \* bound: calls of csinn_import_binary_model

ASSUME WordAssumption == Word \in Nat \ {0} /\ Base \subseteq 0 .. Word - 1 /\ MaxImports \in Nat

VARIABLES
  s,        \* the session that is dumped
  pc,       \* "measure", "put", "file", "inputs", "outputs", "astray" (undefined)
  k,        \* the tensor of the loop, inputs before outputs
  size,     \* sess_size
  at,       \* append_ptr
  image,    \* the block
  base,     \* its address
  imports,  \* completed imports
  got       \* the session that is being made: [in, out, api, mode]

vars == <<s, pc, k, size, at, image, base, imports, got>>

Zero    == <<"byte", 0>>
Byte(b) == <<"byte", b>>

SessionCells == 2     \* struct csinn_session: the copied fields, the pointers
TensorCells  == 2     \* struct csinn_tensor: data, which is 0, and the rest
QuantCells   == 2     \* struct csinn_quant_info: its first bytes

Tensors(x) == x.in \o x.out
Bytes(t)   == t.name \o FlattenSeq(t.qinfo)

(* What tensor_dump makes of a tensor: the structure, the name without its  *)
(* terminator and the quantisation records; and the room for several.       *)
TensorSize(t) == TensorCells + Len(t.name) + QuantCells * Len(t.qinfo)
Room(ts)      == FoldLeft(LAMBDA n, t : n + TensorSize(t), 0, ts)

(* Names are C strings, a tensor has a quantisation record at least, and a  *)
(* block is counted in an int, so that no offset reaches Word.              *)
ASSUME SessionAssumption ==
  /\ \A t \in Tensor : t.name \in Seq(Nat \ {0}) /\ t.qinfo \in Seq([1 .. QuantCells -> Nat]) \ {<<>>}
  /\ Session \subseteq [in : Seq(Tensor), out : Seq(Tensor), api : STRING, mode : STRING]
  /\ \A x \in Session : SessionCells + Len(Tensors(x)) + Room(Tensors(x)) < Word

Init ==
  /\ s \in Session /\ base \in Base
  /\ pc = "measure" /\ k = 1 /\ size = SessionCells /\ at = 0
  /\ image = <<>> /\ imports = 0
  /\ got = [in |-> <<>>, out |-> <<>>, api |-> "ref", mode |-> "layer"]
-----------------------------------------------------------------------------
(* tensor_dump, with the offsets of the name and of the records. *)

(* Mutant: the records are taken to start where the name does. *)
MutTensorDump(t) ==
  << Zero, <<"tensor", TensorCells, TensorCells, t.dim, Len(t.qinfo)>> >>
    \o [b \in DOMAIN Bytes(t) |-> Byte(Bytes(t)[b])]

TensorDump(t) ==
  << Zero, <<"tensor", TensorCells, TensorCells + Len(t.name), t.dim, Len(t.qinfo)>> >>
    \o [b \in DOMAIN Bytes(t) |-> Byte(Bytes(t)[b])]

(* session_dump, the first two loops: what the block has to hold. *)

(* Mutant: the tables are forgotten. *)
MutMeasure ==
  /\ pc = "measure"
  /\ IF k <= Len(Tensors(s))
       THEN /\ size' = size + TensorSize(Tensors(s)[k]) /\ k' = k + 1
            /\ UNCHANGED <<pc, at, image>>
       ELSE /\ size' = size
            /\ image' = [a \in 0 .. size' - 1 |-> Zero]
            /\ at' = SessionCells + Len(s.in)
            /\ pc' = "put" /\ k' = 1
  /\ UNCHANGED <<s, base, imports, got>>

Measure ==
  /\ pc = "measure"
  /\ IF k <= Len(Tensors(s))
       THEN /\ size' = size + TensorSize(Tensors(s)[k]) /\ k' = k + 1
            /\ UNCHANGED <<pc, at, image>>
       ELSE /\ size' = size + Len(Tensors(s))
            /\ image' = [a \in 0 .. size' - 1 |-> Zero]
            /\ at' = SessionCells + Len(s.in)
            /\ pc' = "put" /\ k' = 1
  /\ UNCHANGED <<s, base, imports, got>>

(* Where the tables are: after the session, and after the last input.       *)
InTable  == SessionCells
OutTable == SessionCells + Len(s.in) + Room(s.in)
Slot(n)  == IF n <= Len(s.in) THEN InTable + n - 1 ELSE OutTable + n - 1 - Len(s.in)

(* The next two loops: tensor k to append_ptr, its offset into its table.   *)
(* The table of the outputs takes its room after the last input.            *)
PutTensor ==
  /\ pc = "put" /\ k <= Len(Tensors(s))
  /\ LET t    == Tensors(s)[k]
         here == IF k = Len(s.in) + 1 THEN at + Len(s.out) ELSE at
     IN  /\ image' = [a \in DOMAIN image |->
                        IF a = Slot(k) THEN <<"pointer", here>>
                        ELSE IF a \in here .. here + TensorSize(t) - 1
                          THEN TensorDump(t)[a - here + 1] ELSE image[a]]
         /\ at' = here + TensorSize(t)
  /\ k' = k + 1
  /\ UNCHANGED <<s, pc, size, base, imports, got>>

(* The end of session_dump: the fields of the session and the two offsets.  *)
PutSession ==
  /\ pc = "put" /\ k > Len(Tensors(s))
  /\ image' = [image EXCEPT ![0] = <<"session", s.api, s.mode, Len(s.in), Len(s.out)>>,
                            ![1] = <<"tables", InTable, OutTable>>]
  /\ pc' = "file"
  /\ UNCHANGED <<s, k, size, at, base, imports, got>>
-----------------------------------------------------------------------------
(* read_offset, of a pointer that is added to the address of the image: the *)
(* place in the image it leads to.                                          *)
Offset(p) == p % Word

(* The string at a: up to the next zero, or to the end of the image.        *)
StringAt(a) ==
  LET far == {n \in 0 .. size - a : \A m \in 0 .. n - 1 : image[a + m] # Zero}
  IN  [m \in 1 .. CHOOSE n \in far : n + 1 \notin far |-> image[a + m - 1]]

(* tensor_load *)
TensorLoad(a) ==
  LET f == image[a + 1] IN
  [name  |-> StringAt(a + Offset(f[2])),
   dim   |-> f[4],
   qinfo |-> [c \in 1 .. f[5] |->
                [b \in 1 .. QuantCells |-> image[a + Offset(f[3]) + (c - 1) * QuantCells + b - 1]]]]

(* src->input and src->output: before its loop each is replaced, in the     *)
(* image, by the pointer it stands for.                                     *)
Table(n)    == Offset(image[1][n])
Pointers(n) == [image EXCEPT ![1][n] = (base + @) % Word]

(* csinn_import_binary_model, up to the inputs: the new session starts with *)
(* the run mode csinn_alloc_session gave it, and so does its backend.       *)
Import ==
  /\ pc = "file" /\ imports < MaxImports
  /\ got' = [in |-> <<>>, out |-> <<>>, api |-> image[0][2], mode |-> "layer"]
  /\ pc' = IF Table(2) = InTable THEN "inputs" ELSE "astray"
  /\ image' = Pointers(2) /\ k' = 1
  /\ UNCHANGED <<s, size, at, base, imports>>

LoadInput ==
  /\ pc = "inputs" /\ k <= Len(s.in)
  /\ got' = [got EXCEPT !.in = Append(@, TensorLoad(Offset(image[InTable + k - 1][2])))]
  /\ k' = k + 1
  /\ UNCHANGED <<s, pc, size, at, image, base, imports>>

(* Mutant: only the offset of the inputs is replaced in the image. *)
MutTurnToOutputs ==
  /\ pc = "inputs" /\ k > Len(s.in)
  /\ pc' = IF Table(3) = OutTable THEN "outputs" ELSE "astray"
  /\ k' = 1
  /\ UNCHANGED <<s, size, at, image, base, imports, got>>

TurnToOutputs ==
  /\ pc = "inputs" /\ k > Len(s.in)
  /\ pc' = IF Table(3) = OutTable THEN "outputs" ELSE "astray"
  /\ image' = Pointers(3) /\ k' = 1
  /\ UNCHANGED <<s, size, at, base, imports, got>>

LoadOutput ==
  /\ pc = "outputs" /\ k <= Len(s.out)
  /\ got' = [got EXCEPT !.out = Append(@, TensorLoad(Offset(image[OutTable + k - 1][2])))]
  /\ k' = k + 1
  /\ UNCHANGED <<s, pc, size, at, image, base, imports>>

Imported ==
  /\ pc = "outputs" /\ k > Len(s.out)
  /\ pc' = "file" /\ imports' = imports + 1
  /\ UNCHANGED <<s, k, size, at, image, base, got>>

Dump == Measure \/ PutTensor \/ PutSession
Load == Import \/ LoadInput \/ TurnToOutputs \/ LoadOutput \/ Imported

Next == Dump \/ Load

Spec == Init /\ [][Next]_vars
-----------------------------------------------------------------------------
(* session_dump writes inside the block it measured, and fills it: the two  *)
(* loops that measure and the two that write agree about every part.        *)
ImageFilled ==
  /\ pc = "put" => at <= size
  /\ pc \notin {"measure", "put"} => at = size

(* The backend that csinn_session_init and csinn_load_binary_model ask.      *)
BackendOf(x) == IF x.api = "ref" /\ x.mode = "cpu_graph" THEN "gref" ELSE x.api

(* A name comes back as it was unless the zero point that follows it has no *)
(* zero byte at its start: it then runs on into the record.                 *)
SameTensor(x, t) ==
  /\ x.dim = t.dim
  /\ x.qinfo = [c \in DOMAIN t.qinfo |-> [b \in 1 .. QuantCells |-> Byte(t.qinfo[c][b])]]
  /\ IsPrefix([b \in DOMAIN t.name |-> Byte(t.name[b])], x.name)
  /\ Len(x.name) = Len(t.name) <=> t.qinfo[1][1] = 0

(* An import makes the session that was dumped: every tensor at its place,  *)
(* with its dimensions, all its quantisation records and its name, though   *)
(* the name only where zero points allow it; and it asks the backend that   *)
(* dumped it unless that was the reference backend on a graph.              *)
RoundTrip ==
  pc = "file" /\ imports > 0 =>
    /\ Len(got.in) = Len(s.in) /\ \A n \in DOMAIN s.in : SameTensor(got.in[n], s.in[n])
    /\ Len(got.out) = Len(s.out) /\ \A n \in DOMAIN s.out : SameTensor(got.out[n], s.out[n])
    /\ BackendOf(got) = BackendOf(s) <=> ~(s.api = "ref" /\ s.mode = "cpu_graph")

(* An import uses the image up: it leaves pointers where the offsets were,  *)
(* and the next import of the same memory adds the address a second time.   *)
(* It goes astray, unless the address is a multiple of Word.                *)
ImportUsesUp ==
  /\ pc = "file" =>
       /\ Table(2) = InTable <=> (imports = 0 \/ base = 0)
       /\ Table(3) = OutTable <=> (imports = 0 \/ base = 0)
  /\ pc = "astray" => imports > 0 /\ base # 0
=============================================================================
