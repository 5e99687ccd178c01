-------------------------------- MODULE Arena --------------------------------
(***************************************************************************)
(* The bump allocator of src/src/arena.c over a region of Capacity bytes.    *)
(* Pointers are offsets from arena->mem.  index and capacity are uint32_t:   *)
(* every result that the code stores in 32 bits is reduced modulo W.         *)
(***************************************************************************)
EXTENDS Integers, Sequences

CONSTANTS
    W,          \* 2^32 in the code
    Capacity,   \* arena->capacity
    Aligns,     \* alignments in use: powers of two
    MaxSize,    \* bound: sizes requested (size_t, may exceed the capacity)
    MaxBlocks   \* bound: allocations in a behaviour

ASSUME ArenaAssumption ==
    /\ W \in Nat \ {0}
    /\ Capacity \in 0..(W - 1)
    /\ Aligns \subseteq 1..(W - 1)
    /\ 1 \in Aligns
    /\ MaxSize \in Nat
    /\ MaxBlocks \in Nat

Sizes == 0..MaxSize
Blocks == [start : 0..Capacity, len : 0..Capacity, align : Aligns]

VARIABLES
    index,      \* arena->index
    blocks,     \* the blocks handed out, in the order of their allocation
    last        \* history: the latest request and its outcome

vars == <<index, blocks, last>>

Outcomes == {"OK", "NOMEM", "INVALID"}
Requests == [op : {"none", "alloc", "resize"}, size : Nat, align : Aligns, ret : Outcomes]

\* gg_arena_init.
Init ==
    /\ index = 0
    /\ blocks = <<>>
    /\ last = [op |-> "none", size |-> 0, align |-> 1, ret |-> "OK"]

\* The bytes left, computed in 32 bits.
Left(i) == (Capacity - i) % W

\* Mutant: the padding is a full alignment unit when none is needed.
Pad_NoMask(align) == align - (index % align)

\* The padding in front of a block; x & (align - 1) is x % align for a power of
\* two.
Pad(align) == (align - (index % align)) % align

gg_arena_alloc(size, align) ==
    LET idx == (index + Pad(align)) % W
        fits == Pad(align) <= Left(index) /\ size <= Left(idx)
    IN  /\ index' = IF fits THEN (idx + size) % W ELSE index
        /\ blocks' = IF fits
                     THEN Append(blocks, [start |-> idx, len |-> size, align |-> align])
                     ELSE blocks
        /\ last' = [op |-> "alloc", size |-> size, align |-> align,
                    ret |-> IF fits THEN "OK" ELSE "NOMEM"]

Alloc ==
    /\ Len(blocks) < MaxBlocks
    /\ \E size \in Sizes, align \in Aligns : gg_arena_alloc(size, align)

gg_arena_alloc_rest ==
    /\ Len(blocks) < MaxBlocks
    /\ gg_arena_alloc(Left(index), 1)

gg_arena_owns(ptr) == ptr \in 0..(Capacity - 1)

\* Mutant: the block's end is not compared with the arena's index.
gg_arena_resize_last_AnyBlock(k, size) ==
    LET b == blocks[k]
        ret == IF ~gg_arena_owns(b.start) \/ b.start > index THEN "INVALID"
               ELSE IF size > Left(b.start) THEN "NOMEM" ELSE "OK"
    IN  /\ index' = IF ret = "OK" THEN (b.start + size) % W ELSE index
        /\ blocks' = IF ret = "OK" THEN [blocks EXCEPT ![k].len = size] ELSE blocks
        /\ last' = [op |-> "resize", size |-> 0, align |-> 1, ret |-> ret]

\* The caller passes a block it has and that block's size.
gg_arena_resize_last(k, size) ==
    LET b == blocks[k]
        ret == IF \/ ~gg_arena_owns(b.start)
                  \/ b.start > index
                  \/ index - b.start # b.len
               THEN "INVALID"
               ELSE IF size > Left(b.start) THEN "NOMEM" ELSE "OK"
    IN  /\ index' = IF ret = "OK" THEN (b.start + size) % W ELSE index
        /\ blocks' = IF ret = "OK" THEN [blocks EXCEPT ![k].len = size] ELSE blocks
        /\ last' = [op |-> "resize", size |-> 0, align |-> 1, ret |-> ret]

\* A buffer that starts in the arena stays where it is and an empty one loses its
\* pointer: nothing is allocated.  Any other buffer is copied.
gg_arena_claim_buf(len, owned) ==
    \/ /\ owned \/ len = 0
       /\ last' = [op |-> "none", size |-> 0, align |-> 1, ret |-> "OK"]
       /\ UNCHANGED <<index, blocks>>
    \/ /\ ~owned /\ len > 0
       /\ Len(blocks) < MaxBlocks
       /\ gg_arena_alloc(len, 1)

Next ==
    \/ Alloc
    \/ gg_arena_alloc_rest
    \/ \E k \in DOMAIN blocks, size \in Sizes : gg_arena_resize_last(k, size)
    \/ \E len \in Sizes, owned \in BOOLEAN : gg_arena_claim_buf(len, owned)

Spec == Init /\ [][Next]_vars

-----------------------------------------------------------------------------
(* Properties. *)

\* Type invariant; index never passes the capacity.
TypeOK ==
    /\ index \in 0..Capacity
    /\ blocks \in Seq(Blocks)
    /\ last \in Requests

End(b) == b.start + b.len

\* Live blocks do not overlap and lie below index, hence inside the region,
\* after any sequence of allocations, grows and shrinks: no resize through a
\* pointer that is not the topmost block gets past the checks of
\* gg_arena_resize_last (arena.c:69-93).
BlocksDisjoint ==
    /\ \A k \in DOMAIN blocks : blocks[k].len > 0 => End(blocks[k]) <= index
    /\ \A j, k \in DOMAIN blocks :
         j # k /\ blocks[j].len > 0 /\ blocks[k].len > 0 =>
             \/ End(blocks[j]) <= blocks[k].start
             \/ End(blocks[k]) <= blocks[j].start

\* Blocks start at a multiple of their alignment (relative to arena->mem).
BlocksAligned ==
    \A k \in DOMAIN blocks : blocks[k].start % blocks[k].align = 0

\* The memory handed out is the caller's alone and fit for its type.
BlocksSound == BlocksDisjoint /\ BlocksAligned

\* Where a block of this size and alignment would fit in the free space.
Places(size, align) ==
    {p \in index..Capacity : p % align = 0 /\ p + size <= Capacity}

\* What one request to allocate gets.
FirstFit ==
    last'.op = "alloc" =>
        LET fit == Places(last'.size, last'.align)
        IN  IF fit = {} THEN last'.ret = "NOMEM"
            ELSE /\ last'.ret = "OK"
                 /\ blocks'[Len(blocks')].start \in fit
                 /\ \A p \in fit : blocks'[Len(blocks')].start <= p

\* An allocation is placed at the lowest address where it fits, and refused only
\* if it fits nowhere (arena.h: "NULL if insufficient space"): the 32-bit
\* comparisons of arena.c:40 and 47 neither waste nor refuse room.
AllocIsFirstFit == [][FirstFit]_vars
=============================================================================
