----------------------------- MODULE AtatMalloc -----------------------------
(***************************************************************************)
(* The allocator the library brings along for targets without one: a best  *)
(* fit from a single free list kept in descending address order, which     *)
(* joins neighbours when a block is freed and asks sbrk for more when      *)
(* nothing fits.  Blocks lie at multiples of 8 bytes and requests are      *)
(* rounded to them, so their addresses and lengths count units of 8 bytes; *)
(* the program break is any byte, and shared with the rest of the process. *)
(* Where the code follows next pointers, F is the sequence of the blocks; a *)
(* block is its header's address and "len".                                *)
(***************************************************************************)
EXTENDS Integers, SequencesExt

CONSTANTS Header,   \* sizeof(shl_atat_mem)
          MinBlk,   \* MINBLK
          Gulp,     \* SBGULP
          Unit,     \* the bytes of a unit: 8
          Word,     \* how many units 32 bits tell apart: 2^32 / 8
          Limit,    \* the unit above which sbrk fails
          Sizes,    \* bound: the sizes asked for
          Foreign   \* bound: how far others move the break, in units and bytes

(* The place of a byte in memory *)
ByteAt == [unit : Nat, byte : 0 .. Unit - 1]

ASSUME HeaderAssumption == Header \in Nat \ {0} /\ MinBlk \in Nat /\ MinBlk >= Header
ASSUME GulpAssumption   == Gulp \in Nat /\ Gulp >= Header
ASSUME WordAssumption   == Unit \in Nat \ {0} /\ Word \in Nat \ {0}
ASSUME LimitAssumption  == Limit \in Nat
ASSUME SizesAssumption  == Sizes \subseteq Nat /\ Foreign \subseteq ByteAt

VARIABLES
  rtos,    \* the SHL_BUILD_RTOS build: sbrk always gives the same address
  F,       \* the free list
  used,    \* the blocks handed out and not freed
  brk,     \* the program break
  owned,   \* history: the units that blocks were laid out in
  others,  \* history: the bytes that others got by moving the break
  ragged,  \* history: the last units of gulps asked for at an unaligned break
  dropped, \* history: the units of free blocks that are in no list any more
  torn     \* history: sbrk gave something else than blocks were laid out in

vars == <<rtos, F, used, brk, owned, others, ragged, dropped, torn>>

Block(at, len) == [at |-> at, len |-> len]
End(b)  == b.at + Header + b.len
Span(b) == b.at .. End(b) - 1

Init ==
  /\ rtos \in BOOLEAN
  /\ F = <<>> /\ used = {} /\ brk = [unit |-> 0, byte |-> 0]
  /\ owned = {} /\ others = {} /\ ragged = {} /\ dropped = {} /\ torn = FALSE

(* After this the header of the new free block may be in the memory of others *)
(* or in a block in use, and what the lists hold depends on what is written   *)
(* there.                                                                     *)
Sane == ~torn
-----------------------------------------------------------------------------
(* shl_atat_malloc: the first of the smallest blocks that are large enough. *)
(* Lengths are compared in an unsigned int.                                 *)
Kept(len) == len % Word

Fits(size) == {k \in DOMAIN F : Kept(F[k].len) >= size}

Best(size) ==
  {k \in Fits(size) :
     \A l \in Fits(size) :
       \/ Kept(F[k].len) < Kept(F[l].len)
       \/ Kept(F[k].len) = Kept(F[l].len) /\ k <= l}

(* Mutant: the header of the block that is split off is not accounted for. *)
MutTake(k, size) ==
  LET q == F[k] IN
  IF q.len - size >= MinBlk
    THEN /\ F' = [F EXCEPT ![k] = Block(q.at + Header + size, q.len - size)]
         /\ used' = used \cup {Block(q.at, size)}
    ELSE /\ F' = RemoveAt(F, k)
         /\ used' = used \cup {q}

(* Mutant: the block is split however little remains. *)
MutSplit(k, size) ==
  LET q == F[k] IN
  IF q.len >= size
    THEN /\ F' = [F EXCEPT ![k] = Block(q.at + Header + size, q.len - size - Header)]
         /\ used' = used \cup {Block(q.at, size)}
    ELSE /\ F' = RemoveAt(F, k)
         /\ used' = used \cup {q}

(* The block is split when what remains is worth a block. *)
Take(k, size) ==
  LET q == F[k] IN
  IF q.len - size >= MinBlk
    THEN /\ F' = [F EXCEPT ![k] = Block(q.at + Header + size, q.len - size - Header)]
         /\ used' = used \cup {Block(q.at, size)}
    ELSE /\ F' = RemoveAt(F, k)
         /\ used' = used \cup {q}

MallocFromList(size) ==
  /\ Sane
  /\ \E k \in Best(size) : Take(k, size)
  /\ UNCHANGED <<rtos, brk, owned, others, ragged, dropped, torn>>

(* Nothing fits: extend the highest free block, if the break is just above  *)
(* it, and leave a gulp of free memory behind the new block.  The break is  *)
(* rounded up to a unit to find the place of the block ...                  *)

(* Mutant: it is rounded down. *)
MutTop == IF rtos THEN 0 ELSE brk.unit

Top == IF rtos THEN 0 ELSE IF brk.byte = 0 THEN brk.unit ELSE brk.unit + 1
Extends == F # <<>> /\ End(F[1]) = Top

Grown(size) ==
  LET at == IF Extends THEN F[1].at ELSE Top IN
  [block |-> Block(at, size), free |-> Block(at + Header + size, Gulp - Header)]

(* ... but moved from where it is, by an int: the amount that is asked for   *)
(* is what the blocks need above Top.  It is negative when a block above     *)
(* which the break is and whose length only seems too small is given back.   *)
Narrow(n) == LET r == n % Word IN IF 2 * r >= Word THEN r - Word ELSE r

MallocFromSystem(size) ==
  /\ Sane /\ Fits(size) = {}
  /\ LET new  == Grown(size)
         end  == End(new.free)
         rest == IF Extends THEN Tail(F) ELSE F
         by   == IF rtos THEN 0 ELSE Narrow(end - Top)
     IN  IF brk.unit + by \in 0 .. Limit
           THEN /\ F' = <<new.free>> \o rest
                /\ used' = used \cup {new.block}
                /\ brk' = [brk EXCEPT !.unit = brk.unit + by]
                /\ owned' = {u \in owned : u < end} \cup (Top .. end - 1)
                /\ ragged' = IF brk.byte = 0 THEN ragged ELSE ragged \cup {end - 1}
                /\ torn' = IF rtos THEN owned # {} ELSE by # end - Top
                /\ UNCHANGED dropped
           ELSE (* sbrk has failed, and the block to extend is already unlinked. *)
                /\ F' = rest
                /\ dropped' = dropped \cup (IF Extends THEN Span(F[1]) ELSE {})
                /\ UNCHANGED <<used, brk, owned, ragged, torn>>
  /\ UNCHANGED <<rtos, others>>

(* shl_atat_free: q goes behind the first k blocks, which are above it,     *)
(* joined with the neighbours that touch it.                                *)

(* Mutant: no joining with the block above. *)
MutJoinAbove(q, k) == [above |-> SubSeq(F, 1, k), block |-> q]

JoinAbove(q, k) ==
  IF k # 0 /\ F[k].at = End(q)
    THEN [above |-> SubSeq(F, 1, k - 1), block |-> Block(q.at, q.len + Header + F[k].len)]
    ELSE [above |-> SubSeq(F, 1, k), block |-> q]

Insert(q, k) ==
  LET j == JoinAbove(q, k) IN
  IF k # Len(F) /\ End(F[k + 1]) = q.at
    THEN F' = Append(j.above, Block(F[k + 1].at, F[k + 1].len + Header + j.block.len))
                \o SubSeq(F, k + 2, Len(F))
    ELSE F' = Append(j.above, j.block) \o SubSeq(F, k + 1, Len(F))

Free(q) ==
  /\ Sane /\ q \in used
  /\ used' = used \ {q}
  /\ \E k \in 0 .. Len(F) :
       /\ \A i \in 1 .. k : F[i].at > q.at
       /\ \A i \in k + 1 .. Len(F) : F[i].at <= q.at
       /\ Insert(q, k)
  /\ UNCHANGED <<rtos, brk, owned, others, ragged, dropped, torn>>

(* Somebody else in the process raises the break. *)
Before(a, b) == a.unit < b.unit \/ (a.unit = b.unit /\ a.byte < b.byte)

Plus(a, d) ==
  IF a.byte + d.byte < Unit
    THEN [unit |-> a.unit + d.unit, byte |-> a.byte + d.byte]
    ELSE [unit |-> a.unit + d.unit + 1, byte |-> a.byte + d.byte - Unit]

BreakMoves ==
  /\ ~rtos
  /\ \E d \in Foreign :
       /\ brk' = Plus(brk, d)
       /\ brk'.unit <= Limit
       /\ others' = others \cup
                      {a \in [unit : brk.unit .. brk'.unit, byte : 0 .. Unit - 1] :
                         ~Before(a, brk) /\ Before(a, brk')}
  /\ UNCHANGED <<rtos, F, used, owned, ragged, dropped, torn>>

Next ==
  \/ \E size \in Sizes : MallocFromList(size) \/ MallocFromSystem(size)
  \/ \E q \in used : Free(q)
  \/ BreakMoves

Spec == Init /\ [][Next]_vars
-----------------------------------------------------------------------------
TypeOK ==
  /\ rtos \in BOOLEAN /\ torn \in BOOLEAN
  /\ F \in Seq([at : Nat, len : Nat])
  /\ used \in SUBSET [at : Nat, len : Nat]
  /\ brk \in ByteAt /\ others \in SUBSET ByteAt
  /\ owned \in SUBSET Nat /\ ragged \in SUBSET Nat /\ dropped \in SUBSET Nat

Blocks == used \cup {F[k] : k \in DOMAIN F}

Spans(B) == UNION {Span(b) : b \in B}

(* Blocks B and what was dropped, D, make up O without an overlap. *)
Tiled(B, O, D) ==
  /\ Spans(B) \cup D = O
  /\ \A b \in B : Span(b) \cap D = {}
  /\ \A b, c \in B : b # c => Span(b) \cap Span(c) = {}

(* Every unit that blocks were laid out in, and that was not given back, is  *)
(* in exactly one block, free or handed out, unless a failing sbrk lost it,  *)
(* whatever was split, extended and joined in between: no two blocks overlap *)
(* and nothing leaks (shl_atat_malloc and shl_atat_free).                    *)
HeapTiled ==
  Sane => Tiled(Blocks, owned, dropped) /\ \A k \in DOMAIN F : F[k] \notin used

(* What the blocks are laid out in came from sbrk and was never given to     *)
(* others, however they move the break in between (shl_atat_malloc rounds    *)
(* the break up and then raises it from where it was).  The exception is     *)
(* exact: the last unit of a gulp that was asked for at a break that is no   *)
(* multiple of 8 sticks out above the new break by less than a unit.  Those  *)
(* bytes may go to others, and the unit stays in the heap.                   *)
InHeap ==
  Sane /\ ~rtos =>
    \A u \in owned : \A x \in 0 .. Unit - 1 :
      LET a == [unit |-> u, byte |-> x] IN
      x = 0 \/ u \notin ragged => Before(a, brk) /\ a \notin others

(* The free list descends and holds no two blocks that touch, which is what  *)
(* shl_atat_free searches by: two small neighbours would never again serve a *)
(* request that they could serve together.                                   *)
Coalesced ==
  Sane => \A k \in 2 .. Len(F) : End(F[k]) < F[k - 1].at
=============================================================================
