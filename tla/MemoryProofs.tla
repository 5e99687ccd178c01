---------------------------- MODULE MemoryProofs ----------------------------
(* The bump allocator and the vectors, for every capacity, request and list. *)
EXTENDS Arena, Vectors, TLAPS, SequenceTheorems

(* Arena, for every word size, set of alignments and sequence of requests. *)
\* What is stored in 32 bits is what was computed, when it is in range.
LEMMA NoWrap ==
    ASSUME NEW x \in 0..(W - 1)
    PROVE  x % W = x
  BY ArenaAssumption, SMT

\* The room above an index inside the region.
LEMMA LeftValue ==
    ASSUME NEW i \in 0..Capacity
    PROVE  Left(i) = Capacity - i
<1>1. Capacity - i \in 0..(W - 1) BY ArenaAssumption
<1> QED BY <1>1, NoWrap DEF Left

\* Padding is not negative.
LEMMA PadType ==
    ASSUME TypeOK, NEW a \in Aligns
    PROVE  Pad(a) \in Nat
<1>1. a \in Nat /\ a > 0 BY ArenaAssumption
<1>2. index % a \in Int BY <1>1, ArenaAssumption DEF TypeOK
<1> QED BY <1>1, <1>2 DEF Pad

\* Division with remainder, and multiples of a divisor.
LEMMA DivMod ==
    ASSUME NEW a \in Nat \ {0}, NEW i \in Nat
    PROVE  i = a * (i \div a) + (i % a)
  BY Z3

\* A multiple of a has remainder 0.
LEMMA MultipleMod ==
    ASSUME NEW a \in Nat \ {0}, NEW q \in Nat
    PROVE  (a * q) % a = 0
  OBVIOUS

\* Two different multiples of a are at least a apart.
LEMMA NextMultiple ==
    ASSUME NEW a \in Nat \ {0}, NEW q \in Nat, NEW m \in Nat, a * q < a * m
    PROVE  a * q + a <= a * m
<1>1. q < m
  <2> SUFFICES ASSUME m <= q PROVE a * m <= a * q
    OBVIOUS
  <2> QED OBVIOUS
<1> QED BY <1>1

\* The padding leads to the first multiple of the alignment at or above index.
LEMMA PadAligns ==
    ASSUME TypeOK, NEW a \in Aligns
    PROVE  /\ (index + Pad(a)) % a = 0
           /\ \A p \in Nat : p >= index /\ p % a = 0 => p >= index + Pad(a)
<1> DEFINE r == index % a
           q == index \div a
<1>0. a \in Nat \ {0} /\ index \in Nat BY ArenaAssumption DEF TypeOK
<1>1. r \in 0..(a - 1) /\ q \in Nat BY <1>0
<1>2. index = a * q + r BY <1>0, DivMod
<1>3. Pad(a) = (a - r) % a BY DEF Pad
<1>4. CASE r = 0
  <2>1. a % a = 0 BY <1>0
  <2>2. Pad(a) = 0 BY <1>0, <1>3, <1>4, <2>1
  <2> QED BY <1>0, <1>4, <2>2
<1>5. CASE r # 0
  <2> HIDE DEF r, q
  <2>1. a - r \in Nat /\ a - r < a BY <1>0, <1>1, <1>5
  <2>2. Pad(a) = a - r BY <1>0, <1>3, <2>1
  <2>3. index + Pad(a) = a * (q + 1) BY <1>0, <1>1, <1>2, <2>2
  <2>4. (a * (q + 1)) % a = 0 BY <1>0, <1>1, MultipleMod
  <2>5. ASSUME NEW p \in Nat, p >= index, p % a = 0
        PROVE  p >= index + Pad(a)
    <3> DEFINE m == p \div a
    <3>1. m \in Nat BY <1>0
    <3>2. p = a * m BY <1>0, <2>5, DivMod
    <3> HIDE DEF m
    <3>3. a * q < a * m BY <1>0, <1>1, <1>2, <1>5, <2>5, <3>1, <3>2
    <3>4. a * q + a <= a * m BY <1>0, <1>1, <3>1, <3>3, NextMultiple
    <3> QED BY <1>0, <1>1, <1>2, <2>2, <3>2, <3>4
  <2> QED BY <2>3, <2>4, <2>5
<1> QED BY <1>4, <1>5

\* A block is put at s, at or above the old index, and index is its end.
Placed(s, size, a) ==
    /\ s \in index..Capacity
    /\ s % a = 0
    /\ s + size <= Capacity
    /\ index' = s + size
    /\ blocks' = Append(blocks, [start |-> s, len |-> size, align |-> a])

\* The topmost block k gets another size, and index is its new end.
Moved(k, size) ==
    /\ End(blocks[k]) = index
    /\ blocks[k].start + size <= Capacity
    /\ index' = blocks[k].start + size
    /\ blocks' = [blocks EXCEPT ![k].len = size]

\* gg_arena_alloc either refuses and changes nothing, or puts a new block at or
\* above the old index and moves index to its end, within the capacity.
LEMMA AllocEffect ==
    ASSUME TypeOK, NEW size \in Nat, NEW a \in Aligns, gg_arena_alloc(size, a)
    PROVE  /\ last' \in Requests
           /\ \/ UNCHANGED <<index, blocks>>
              \/ \E s \in Nat : Placed(s, size, a)
<1> DEFINE p == Pad(a)
           idx == (index + p) % W
           fits == p <= Left(index) /\ size <= Left(idx)
<1>0. index \in 0..Capacity /\ Capacity \in 0..(W - 1) /\ W \in Nat
  BY ArenaAssumption DEF TypeOK
<1>1. p \in Nat BY PadType
<1>2. last' \in Requests
  BY DEF gg_arena_alloc, Requests, Outcomes
<1>3. CASE ~fits
  BY <1>2, <1>3 DEF gg_arena_alloc
<1>4. CASE fits
  <2>1. p <= Capacity - index BY <1>0, <1>4, LeftValue
  <2>2. index + p \in 0..(W - 1) /\ index + p \in index..Capacity
    BY <1>0, <1>1, <2>1
  <2>3. idx = index + p BY <2>2, NoWrap
  <2>4. idx \in 0..Capacity BY <1>0, <2>2, <2>3
  <2>5. size <= Capacity - idx BY <1>4, <2>4, LeftValue
  <2>6. idx + size \in 0..(W - 1) /\ idx + size <= Capacity BY <1>0, <2>4, <2>5
  <2>7. (idx + size) % W = idx + size BY <2>6, NoWrap
  <2>8. /\ index' = (idx + size) % W
        /\ blocks' = Append(blocks, [start |-> idx, len |-> size, align |-> a])
    BY <1>4 DEF gg_arena_alloc
  <2>9. idx \in index..Capacity /\ idx \in Nat BY <1>0, <2>2, <2>3
  <2>10. idx % a = 0 BY <2>3, PadAligns
  <2> HIDE DEF idx
  <2>11. Placed(idx, size, a) BY <2>6, <2>7, <2>8, <2>9, <2>10 DEF Placed
  <2> QED BY <1>2, <2>9, <2>11
<1> QED BY <1>3, <1>4

\* gg_arena_resize_last refuses and changes nothing, or the block it is given is
\* the topmost one and its new end, within the capacity, becomes index.
LEMMA ResizeEffect ==
    ASSUME TypeOK, NEW k \in DOMAIN blocks, NEW size \in Nat,
           gg_arena_resize_last(k, size)
    PROVE  /\ last' \in Requests
           /\ \/ UNCHANGED <<index, blocks>>
              \/ Moved(k, size)
<1> DEFINE b == blocks[k]
           invalid == \/ ~gg_arena_owns(b.start)
                      \/ b.start > index
                      \/ index - b.start # b.len
           ret == IF invalid THEN "INVALID"
                  ELSE IF size > Left(b.start) THEN "NOMEM" ELSE "OK"
<1>0. index \in 0..Capacity /\ Capacity \in 0..(W - 1) /\ W \in Nat
  BY ArenaAssumption DEF TypeOK
<1>1. b \in Blocks BY DEF TypeOK
<1>2. b.start \in 0..Capacity /\ b.len \in 0..Capacity BY <1>1 DEF Blocks
<1>3. /\ index' = IF ret = "OK" THEN (b.start + size) % W ELSE index
      /\ blocks' = IF ret = "OK" THEN [blocks EXCEPT ![k].len = size] ELSE blocks
      /\ last' = [op |-> "resize", size |-> 0, align |-> 1, ret |-> ret]
  BY DEF gg_arena_resize_last
<1>4. ret \in Outcomes BY DEF Outcomes
<1>5. last' \in Requests BY <1>3, <1>4, ArenaAssumption DEF Requests
<1>6. CASE ret # "OK"
  BY <1>3, <1>5, <1>6
<1>7. CASE ret = "OK"
  <2>1. index - b.start = b.len /\ size <= Left(b.start) BY <1>0, <1>2, <1>7, LeftValue
  <2>2. size <= Capacity - b.start BY <1>2, <2>1, LeftValue
  <2>3. b.start + size \in 0..(W - 1) /\ b.start + size <= Capacity
    BY <1>0, <1>2, <2>2
  <2>4. (b.start + size) % W = b.start + size BY <2>3, NoWrap
  <2>5. End(b) = index BY <1>0, <1>2, <2>1 DEF End
  <2> QED BY <1>3, <1>5, <1>7, <2>3, <2>4, <2>5 DEF Moved
<1> QED BY <1>6, <1>7

\* Every step is one of three: it leaves the arena alone, it adds a block above
\* index, or it moves the end of the topmost block.
LEMMA StepEffect ==
    ASSUME TypeOK, Next
    PROVE  /\ last' \in Requests
           /\ \/ UNCHANGED <<index, blocks>>
              \/ \E s \in Nat, size \in Nat, a \in Aligns : Placed(s, size, a)
              \/ \E k \in DOMAIN blocks, size \in Nat : Moved(k, size)
<1>0. 1 \in Aligns /\ Sizes \subseteq Nat BY ArenaAssumption DEF Sizes
<1>1. CASE Alloc
  <2>1. PICK size \in Sizes, a \in Aligns : gg_arena_alloc(size, a) BY <1>1 DEF Alloc
  <2>2. size \in Nat BY <1>0
  <2> QED BY <2>1, <2>2, AllocEffect
<1>2. CASE gg_arena_alloc_rest
  <2>1. Left(index) \in Nat BY LeftValue, ArenaAssumption DEF TypeOK
  <2>2. gg_arena_alloc(Left(index), 1) BY <1>2 DEF gg_arena_alloc_rest
  <2> QED BY <1>0, <2>1, <2>2, AllocEffect
<1>3. CASE \E k \in DOMAIN blocks, size \in Sizes : gg_arena_resize_last(k, size)
  <2>1. PICK k \in DOMAIN blocks, size \in Sizes : gg_arena_resize_last(k, size) BY <1>3
  <2>2. size \in Nat BY <1>0
  <2> QED BY <2>1, <2>2, ResizeEffect
<1>4. CASE \E len \in Sizes, owned \in BOOLEAN : gg_arena_claim_buf(len, owned)
  <2>1. PICK len \in Sizes, owned \in BOOLEAN : gg_arena_claim_buf(len, owned) BY <1>4
  <2>2. CASE gg_arena_alloc(len, 1)
    <3>1. len \in Nat BY <1>0
    <3> QED BY <1>0, <2>2, <3>1, AllocEffect
  <2>3. CASE /\ last' = [op |-> "none", size |-> 0, align |-> 1, ret |-> "OK"]
             /\ UNCHANGED <<index, blocks>>
    <3>1. last' \in Requests BY <1>0, <2>3 DEF Requests, Outcomes
    <3> QED BY <2>3, <3>1
  <2> QED BY <2>1, <2>2, <2>3 DEF gg_arena_claim_buf
<1> QED BY <1>1, <1>2, <1>3, <1>4 DEF Next

ArenaInv == TypeOK /\ BlocksDisjoint

\* Putting a block above index keeps the blocks apart.
LEMMA PlacedKeeps ==
    ASSUME ArenaInv, last' \in Requests,
           NEW s \in Nat, NEW size \in Nat, NEW a \in Aligns, Placed(s, size, a)
    PROVE  ArenaInv'
<1> DEFINE n == [start |-> s, len |-> size, align |-> a]
<1>0. /\ index \in 0..Capacity /\ Capacity \in Nat
      /\ blocks \in Seq(Blocks)
      /\ index <= s /\ s <= Capacity
      /\ s + size <= Capacity
      /\ index' = s + size
      /\ blocks' = Append(blocks, n)
  BY ArenaAssumption DEF ArenaInv, TypeOK, Placed
<1>1. n \in Blocks BY <1>0 DEF Blocks
<1>2. blocks' \in Seq(Blocks) BY <1>0, <1>1
<1>3. TypeOK' BY <1>0, <1>2 DEF TypeOK
<1>4. /\ DOMAIN blocks = 1..Len(blocks)
      /\ DOMAIN blocks' = 1..(Len(blocks) + 1)
      /\ Len(blocks) \in Nat
      /\ \A k \in DOMAIN blocks : blocks'[k] = blocks[k]
      /\ blocks'[Len(blocks) + 1] = n
  <2> HIDE DEF n
  <2> QED BY <1>0, <1>1
<1>5. \A k \in DOMAIN blocks : /\ blocks[k].start \in Nat
                               /\ blocks[k].len \in Nat
  <2> SUFFICES ASSUME NEW k \in DOMAIN blocks
               PROVE  blocks[k].start \in Nat /\ blocks[k].len \in Nat
    OBVIOUS
  <2>1. blocks[k] \in Blocks BY <1>0
  <2> QED BY <1>0, <2>1 DEF Blocks
<1>6. \A k \in DOMAIN blocks : blocks[k].len > 0 => End(blocks[k]) <= index
  BY DEF ArenaInv, BlocksDisjoint
<1>7. n.start = s /\ n.len = size /\ End(n) = s + size BY DEF End
<1>8. \A k \in DOMAIN blocks' : k \in DOMAIN blocks \/ k = Len(blocks) + 1
  BY <1>4
<1>9. \A k \in DOMAIN blocks : End(blocks[k]) \in Nat BY <1>5 DEF End
<1> HIDE DEF n
<1>10. \A k \in DOMAIN blocks' : blocks'[k].len > 0 => End(blocks'[k]) <= index'
  <2> SUFFICES ASSUME NEW k \in DOMAIN blocks', blocks'[k].len > 0
               PROVE  End(blocks'[k]) <= index'
    OBVIOUS
  <2>1. CASE k \in DOMAIN blocks BY <1>0, <1>4, <1>6, <1>9, <2>1
  <2>2. CASE k = Len(blocks) + 1 BY <1>0, <1>4, <1>7, <2>2
  <2> QED BY <1>8, <2>1, <2>2
<1>11. \A j, k \in DOMAIN blocks' :
         j # k /\ blocks'[j].len > 0 /\ blocks'[k].len > 0 =>
             \/ End(blocks'[j]) <= blocks'[k].start
             \/ End(blocks'[k]) <= blocks'[j].start
  <2> SUFFICES ASSUME NEW j \in DOMAIN blocks', NEW k \in DOMAIN blocks',
                      j # k, blocks'[j].len > 0, blocks'[k].len > 0
               PROVE  \/ End(blocks'[j]) <= blocks'[k].start
                      \/ End(blocks'[k]) <= blocks'[j].start
    OBVIOUS
  <2>1. CASE j \in DOMAIN blocks /\ k \in DOMAIN blocks
    BY <1>4, <2>1 DEF ArenaInv, BlocksDisjoint
  <2>2. CASE j \in DOMAIN blocks /\ k = Len(blocks) + 1
    BY <1>0, <1>4, <1>6, <1>7, <1>9, <2>2
  <2>3. CASE k \in DOMAIN blocks /\ j = Len(blocks) + 1
    BY <1>0, <1>4, <1>6, <1>7, <1>9, <2>3
  <2> QED BY <1>8, <2>1, <2>2, <2>3
<1>12. BlocksDisjoint' BY <1>10, <1>11 DEF BlocksDisjoint, End
<1> QED BY <1>3, <1>12 DEF ArenaInv

\* Moving the end of the topmost block keeps the blocks apart: every other
\* nonempty block ends at or below its start.
LEMMA MovedKeeps ==
    ASSUME ArenaInv, last' \in Requests,
           NEW t \in DOMAIN blocks, NEW size \in Nat, Moved(t, size)
    PROVE  ArenaInv'
<1> DEFINE n == [blocks[t] EXCEPT !.len = size]
<1>0. /\ index \in 0..Capacity /\ Capacity \in Nat
      /\ blocks \in Seq(Blocks)
      /\ End(blocks[t]) = index
      /\ blocks[t].start + size <= Capacity
      /\ index' = blocks[t].start + size
      /\ blocks' = [blocks EXCEPT ![t] = n]
  BY ArenaAssumption DEF ArenaInv, TypeOK, Moved
<1>1. \A k \in DOMAIN blocks : /\ blocks[k] \in Blocks
                               /\ blocks[k].start \in Nat
                               /\ blocks[k].len \in Nat
                               /\ End(blocks[k]) = blocks[k].start + blocks[k].len
  <2> SUFFICES ASSUME NEW k \in DOMAIN blocks
               PROVE  /\ blocks[k] \in Blocks
                      /\ blocks[k].start \in Nat
                      /\ blocks[k].len \in Nat
                      /\ End(blocks[k]) = blocks[k].start + blocks[k].len
    OBVIOUS
  <2>1. blocks[k] \in Blocks BY <1>0
  <2> QED BY <1>0, <2>1 DEF Blocks, End
<1>2. n.start = blocks[t].start /\ n.len = size /\ End(n) = blocks[t].start + size
  BY <1>1 DEF Blocks, End
<1>3. n \in Blocks
  <2>1. size \in 0..Capacity BY <1>0, <1>1
  <2> QED BY <1>1, <2>1 DEF Blocks
<1> HIDE DEF n
<1>4. /\ DOMAIN blocks' = DOMAIN blocks
      /\ blocks'[t] = n
      /\ \A k \in DOMAIN blocks : k # t => blocks'[k] = blocks[k]
  BY <1>0
<1>5. blocks' \in Seq(Blocks) BY <1>0, <1>3
<1>6. TypeOK' BY <1>0, <1>1, <1>5 DEF TypeOK
<1>7. \A k \in DOMAIN blocks :
        k # t /\ blocks[k].len > 0 => End(blocks[k]) <= blocks[t].start
  <2> SUFFICES ASSUME NEW k \in DOMAIN blocks, k # t, blocks[k].len > 0
               PROVE  End(blocks[k]) <= blocks[t].start
    OBVIOUS
  <2>1. End(blocks[k]) <= index BY DEF ArenaInv, BlocksDisjoint
  <2>2. CASE blocks[t].len = 0 BY <1>0, <1>1, <2>1, <2>2
  <2>3. CASE blocks[t].len > 0
    <3>1. \/ End(blocks[k]) <= blocks[t].start
          \/ End(blocks[t]) <= blocks[k].start
      BY <2>3 DEF ArenaInv, BlocksDisjoint
    <3> QED BY <1>0, <1>1, <2>1, <3>1
  <2> QED BY <1>1, <2>2, <2>3
<1>8. \A k \in DOMAIN blocks' : blocks'[k].len > 0 => End(blocks'[k]) <= index'
  <2> SUFFICES ASSUME NEW k \in DOMAIN blocks, blocks'[k].len > 0
               PROVE  End(blocks'[k]) <= index'
    BY <1>4, Zenon
  <2>1. CASE k = t
    <3>1. blocks'[k] = n BY <1>4, <2>1
    <3>2. End(n) = index' /\ index' \in Nat BY <1>0, <1>1, <1>2
    <3> QED BY <3>1, <3>2
  <2>2. CASE k # t
    <3>1. blocks'[k] = blocks[k] /\ End(blocks[k]) <= blocks[t].start
      BY <1>4, <1>7, <2>2
    <3>2. End(blocks[k]) \in Nat /\ blocks[t].start \in Nat BY <1>1
    <3> QED BY <1>0, <3>1, <3>2
  <2> QED BY <2>1, <2>2
<1>9. \A j, k \in DOMAIN blocks' :
         j # k /\ blocks'[j].len > 0 /\ blocks'[k].len > 0 =>
             \/ End(blocks'[j]) <= blocks'[k].start
             \/ End(blocks'[k]) <= blocks'[j].start
  <2> SUFFICES ASSUME NEW j \in DOMAIN blocks, NEW k \in DOMAIN blocks,
                      j # k, blocks'[j].len > 0, blocks'[k].len > 0
               PROVE  \/ End(blocks'[j]) <= blocks'[k].start
                      \/ End(blocks'[k]) <= blocks'[j].start
    BY <1>4
  <2>1. CASE j # t /\ k # t BY <1>4, <2>1 DEF ArenaInv, BlocksDisjoint
  <2>2. CASE j = t BY <1>2, <1>4, <1>7, <2>2
  <2>3. CASE k = t BY <1>2, <1>4, <1>7, <2>3
  <2> QED BY <2>1, <2>2, <2>3
<1>10. BlocksDisjoint' BY <1>8, <1>9 DEF BlocksDisjoint, End
<1> QED BY <1>6, <1>10 DEF ArenaInv

\* For every capacity, word size, set of alignments and sequence of requests:
\* index stays within the capacity, and the blocks gg_arena_alloc and
\* gg_arena_resize_last hand out lie below it and never overlap (TypeOK and
\* BlocksDisjoint; arena.c:21-102).
THEOREM ArenaBlocksDisjoint == Spec => [](TypeOK /\ BlocksDisjoint)
<1>1. Init => ArenaInv
  BY ArenaAssumption DEF Init, ArenaInv, TypeOK, BlocksDisjoint, Requests, Outcomes
<1>2. ArenaInv /\ [Next]_vars => ArenaInv'
  <2> SUFFICES ASSUME ArenaInv, [Next]_vars PROVE ArenaInv'
    OBVIOUS
  <2>1. CASE UNCHANGED vars
    BY <2>1 DEF vars, ArenaInv, TypeOK, BlocksDisjoint, End
  <2>2. CASE Next
    <3>1. last' \in Requests BY <2>2, StepEffect DEF ArenaInv
    <3>2. CASE UNCHANGED <<index, blocks>>
      BY <3>1, <3>2 DEF ArenaInv, TypeOK, BlocksDisjoint, End
    <3>3. CASE \E s \in Nat, size \in Nat, a \in Aligns : Placed(s, size, a)
      BY <3>1, <3>3, PlacedKeeps
    <3>4. CASE \E k \in DOMAIN blocks, size \in Nat : Moved(k, size)
      BY <3>1, <3>4, MovedKeeps
    <3> QED BY <2>2, <3>2, <3>3, <3>4, StepEffect DEF ArenaInv
  <2> QED BY <2>1, <2>2
<1> QED BY <1>1, <1>2, PTL DEF Spec, ArenaInv

\* For every set of alignments, every block starts at a multiple of the alignment
\* it was requested with, and a resize does not move it (arena.c:33-34).
THEOREM ArenaBlocksAligned == Spec => []BlocksAligned
<1>1. Init => BlocksAligned BY DEF Init, BlocksAligned
<1>2. TypeOK /\ BlocksAligned /\ [Next]_vars => BlocksAligned'
  <2> SUFFICES ASSUME TypeOK, BlocksAligned, [Next]_vars PROVE BlocksAligned'
    OBVIOUS
  <2>1. CASE UNCHANGED vars BY <2>1 DEF vars, BlocksAligned
  <2>2. CASE UNCHANGED <<index, blocks>> BY <2>2 DEF BlocksAligned
  <2>3. ASSUME NEW s \in Nat, NEW size \in Nat, NEW a \in Aligns, Placed(s, size, a)
        PROVE  BlocksAligned'
    <3> DEFINE n == [start |-> s, len |-> size, align |-> a]
    <3>1. blocks' = Append(blocks, n) /\ blocks \in Seq(Blocks)
      BY <2>3 DEF Placed, TypeOK
    <3>2. n.start % n.align = 0 BY <2>3 DEF Placed
    <3> HIDE DEF n
    <3>3. /\ DOMAIN blocks' = DOMAIN blocks \cup {Len(blocks) + 1}
          /\ \A k \in DOMAIN blocks : blocks'[k] = blocks[k]
          /\ blocks'[Len(blocks) + 1] = n
      BY <3>1
    <3> QED BY <3>2, <3>3 DEF BlocksAligned
  <2>4. ASSUME NEW t \in DOMAIN blocks, NEW size \in Nat, Moved(t, size)
        PROVE  BlocksAligned'
    <3> DEFINE n == [blocks[t] EXCEPT !.len = size]
    <3>1. blocks' = [blocks EXCEPT ![t] = n] /\ blocks \in Seq(Blocks)
      BY <2>4 DEF Moved, TypeOK
    <3>2. blocks[t] \in Blocks BY <3>1
    <3>3. n.start = blocks[t].start /\ n.align = blocks[t].align BY <3>2 DEF Blocks
    <3> HIDE DEF n
    <3>4. /\ DOMAIN blocks' = DOMAIN blocks
          /\ blocks'[t] = n
          /\ \A k \in DOMAIN blocks : k # t => blocks'[k] = blocks[k]
      BY <3>1
    <3> QED BY <3>3, <3>4 DEF BlocksAligned
  <2> QED BY <2>1, <2>2, <2>3, <2>4, StepEffect
<1> QED BY <1>1, <1>2, ArenaBlocksDisjoint, PTL DEF Spec

\* Both together: every block is inside the region, aligned, and its caller's alone.
THEOREM ArenaBlocksSound == Spec => []BlocksSound
BY ArenaBlocksDisjoint, ArenaBlocksAligned, PTL DEF BlocksSound

\* One call of gg_arena_alloc takes the first place where the request fits.
LEMMA AllocTakesFirst ==
    ASSUME TypeOK, NEW size \in Nat, NEW a \in Aligns, gg_arena_alloc(size, a)
    PROVE  FirstFit
<1> DEFINE p == Pad(a)
           idx == (index + p) % W
           fits == p <= Left(index) /\ size <= Left(idx)
           fit == Places(size, a)
<1>0. /\ index \in 0..Capacity /\ Capacity \in 0..(W - 1) /\ W \in Nat
      /\ a \in Nat \ {0}
      /\ blocks \in Seq(Blocks)
  BY ArenaAssumption DEF TypeOK
<1>1. p \in Nat BY PadType
<1>2. /\ blocks' = IF fits
                   THEN Append(blocks, [start |-> idx, len |-> size, align |-> a])
                   ELSE blocks
      /\ last' = [op |-> "alloc", size |-> size, align |-> a,
                  ret |-> IF fits THEN "OK" ELSE "NOMEM"]
  BY DEF gg_arena_alloc
<1>3. last'.size = size /\ last'.align = a
  BY <1>2
<1>4. (index + p) % a = 0 /\ \A x \in Nat : x >= index /\ x % a = 0 => x >= index + p
  BY PadAligns
<1>5. \A x \in fit : x \in Nat /\ x >= index + p /\ x + size <= Capacity
  BY <1>0, <1>4 DEF Places
<1>6. fits <=> index + p + size <= Capacity
  <2>1. Left(index) = Capacity - index BY <1>0, LeftValue
  <2>2. CASE p <= Capacity - index
    <3>1. index + p \in 0..(W - 1) /\ index + p \in 0..Capacity BY <1>0, <1>1, <2>2
    <3>2. idx = index + p BY <3>1, NoWrap
    <3>3. Left(idx) = Capacity - idx BY <3>1, <3>2, LeftValue
    <3> QED BY <1>0, <1>1, <2>1, <2>2, <3>2, <3>3
  <2>3. CASE ~(p <= Capacity - index)
    <3>1. ~fits BY <2>1, <2>3
    <3>2. ~(index + p + size <= Capacity) BY <1>0, <1>1, <2>3
    <3> QED BY <3>1, <3>2
  <2> QED BY <2>2, <2>3
<1>7. CASE fits
  <2>1. index + p + size <= Capacity BY <1>6, <1>7
  <2>2. index + p \in 0..(W - 1) /\ index + p \in index..Capacity BY <1>0, <1>1, <2>1
  <2>3. idx = index + p BY <2>2, NoWrap
  <2>4. idx \in fit BY <1>4, <2>1, <2>2, <2>3 DEF Places
  <2>5. \A x \in fit : idx <= x BY <1>5, <2>3
  <2>6. last'.ret = "OK" BY <1>2, <1>7
  <2> HIDE DEF idx, fits
  <2>7. blocks'[Len(blocks')].start = idx BY <1>0, <1>2, <1>7
  <2> QED BY <1>3, <2>4, <2>5, <2>6, <2>7 DEF FirstFit
<1>8. CASE ~fits
  <2>1. fit = {} BY <1>0, <1>1, <1>5, <1>6, <1>8
  <2>2. last'.ret = "NOMEM" BY <1>2, <1>8
  <2> QED BY <1>3, <2>1, <2>2 DEF FirstFit
<1> QED BY <1>7, <1>8

\* For every capacity, word size and set of alignments, an allocation takes the
\* lowest address where it fits and is refused only when there is none
\* (arena.c:33-56): its comparisons in 32 bits decide exactly this.
THEOREM ArenaFirstFit == Spec => AllocIsFirstFit
<1>1. TypeOK /\ [Next]_vars => [FirstFit]_vars
  <2> SUFFICES ASSUME TypeOK, Next PROVE FirstFit
    OBVIOUS
  <2>0. 1 \in Aligns /\ Sizes \subseteq Nat /\ Left(index) \in Nat
    BY ArenaAssumption, LeftValue DEF Sizes, TypeOK
  <2>1. CASE Alloc
    <3>1. PICK size \in Sizes, a \in Aligns : gg_arena_alloc(size, a) BY <2>1 DEF Alloc
    <3> QED BY <2>0, <3>1, AllocTakesFirst
  <2>2. CASE gg_arena_alloc_rest
    BY <2>0, <2>2, AllocTakesFirst DEF gg_arena_alloc_rest
  <2>3. ASSUME NEW k \in DOMAIN blocks, NEW size \in Sizes, gg_arena_resize_last(k, size)
        PROVE  FirstFit
    <3>1. last'.op = "resize" BY <2>3 DEF gg_arena_resize_last
    <3> QED BY <3>1 DEF FirstFit
  <2>4. ASSUME NEW len \in Sizes, NEW owned \in BOOLEAN, gg_arena_claim_buf(len, owned)
        PROVE  FirstFit
    <3>1. CASE gg_arena_alloc(len, 1) BY <2>0, <3>1, AllocTakesFirst
    <3>2. CASE last' = [op |-> "none", size |-> 0, align |-> 1, ret |-> "OK"]
      BY <3>2 DEF FirstFit
    <3> QED BY <2>4, <3>1, <3>2 DEF gg_arena_claim_buf
  <2> QED BY <2>1, <2>2, <2>3, <2>4 DEF Next
<1> QED BY <1>1, ArenaBlocksDisjoint, PTL DEF Spec, AllocIsFirstFit

------------------------------------------------------------------------------
(* Chains of vector operations, for every item and length of list. *)
\* What every operation promises: it stays within the capacity, stores the whole
\* list when it succeeds and otherwise a first part of it, and refuses for lack of
\* memory only what does not fit.
Promise(r, v, cap, list) ==
    /\ r.vec \in Seq(Items)
    /\ r.ret \in {"OK", "NOMEM", "INVALID"}
    /\ Len(v) <= cap => Len(r.vec) <= cap
    /\ r.ret = "OK" => r.vec = v \o list
    /\ Len(r.vec) <= Len(v) + Len(list)
    /\ \A i \in 1..Len(r.vec) : r.vec[i] = (v \o list)[i]
    /\ r.ret = "NOMEM" => Len(v) + Len(list) > cap

\* The four push functions keep the promise.
LEMMA PushPromise ==
    ASSUME NEW v \in Seq(Items), NEW cap \in Nat, NEW x \in Items
    PROVE  Promise(Push(v, cap, x), v, cap, <<x>>)
    BY DEF Push, Promise

\* The append functions keep it: the unsigned difference does not wrap.
LEMMA ExtendPromise ==
    ASSUME NEW v \in Seq(Items), NEW cap \in 0..(SIZE - 1), NEW list \in Seq(Items), Len(v) <= cap
    PROVE  Promise(Extend(v, cap, list), v, cap, list)
<1>1. SIZE \in Nat /\ Len(v) \in Nat /\ Len(list) \in Nat
    BY VectorSizes
<1>2. (cap - Len(v)) % SIZE = cap - Len(v)
    BY <1>1
<1>3. v \o list \in Seq(Items) /\ Len(v \o list) = Len(v) + Len(list)
    OBVIOUS
<1>4. \A i \in 1..Len(v) : v[i] = (v \o list)[i]
    OBVIOUS
<1> QED
    BY <1>1, <1>2, <1>3, <1>4 DEF Extend, Promise

\* gg_buf_vec_append_list keeps it, wherever it stops.
LEMMA AppendListPromise ==
    ASSUME NEW v \in Seq(Items), NEW list \in Seq(Items),
           NEW n \in 0..Len(list), StopsAfter(v, list, n)
    PROVE  Promise(gg_buf_vec_append_list(v, list, n), v, VecCapacity["buf"], list)
<1>1. Len(v) \in Nat /\ Len(list) \in Nat /\ VecCapacity["buf"] \in Nat
    BY VectorSizes
<1>2. /\ SubSeq(list, 1, n) \in Seq(Items)
      /\ Len(SubSeq(list, 1, n)) = n
      /\ n = Len(list) => SubSeq(list, 1, n) = list
    BY <1>1
<1>3. Len(v) <= VecCapacity["buf"] => Len(v) + n <= VecCapacity["buf"]
    BY <1>1 DEF StopsAfter
<1>4. /\ v \o SubSeq(list, 1, n) \in Seq(Items)
      /\ Len(v \o SubSeq(list, 1, n)) = Len(v) + n
    BY <1>2
<1>5. \A i \in 1..(Len(v) + n) : (v \o SubSeq(list, 1, n))[i] = (v \o list)[i]
    BY <1>1, <1>2
<1>6. n # Len(list) /\ list[n + 1] \in Bufs => Len(v) + Len(list) > VecCapacity["buf"]
    BY <1>1 DEF StopsAfter
<1> DEFINE s == v \o SubSeq(list, 1, n)
           r == gg_buf_vec_append_list(v, list, n)
<1>7. /\ r.vec = s /\ r.ret \in {"OK", "NOMEM", "INVALID"}
      /\ r.ret = "OK" => n = Len(list)
      /\ r.ret = "NOMEM" => n # Len(list) /\ list[n + 1] \in Bufs
    BY DEF gg_buf_vec_append_list
<1>8. r.ret = "OK" => s = v \o list
    BY <1>2, <1>7
<1> HIDE DEF s, r
<1>9. /\ s \in Seq(Items) /\ Len(s) = Len(v) + n
      /\ \A i \in 1..(Len(v) + n) : s[i] = (v \o list)[i]
    BY <1>4, <1>5 DEF s
<1>10. Promise(r, v, VecCapacity["buf"], list)
    BY <1>1, <1>3, <1>6, <1>7, <1>8, <1>9, SMTT(30) DEF Promise
<1> QED
    BY <1>10 DEF r

VectorsInv == VecTypeOK /\ WithinCapacity /\ OkMeansComplete /\ FailureKeepsPrefix

\* A chain of operations that keep the promise keeps the invariant.
LEMMA ChainKeeps ==
    ASSUME VectorsInv, NEW k \in Kinds, NEW r, NEW list \in Seq(Items),
           Promise(r, vec[k], VecCapacity[k], list), Chain(k, r, list)
    PROVE  VectorsInv'
<1>0. vec[k] \in Seq(Items) /\ asked[k] \in Seq(Items)
    BY DEF VectorsInv, VecTypeOK
<1>1. asked[k] \o list \in Seq(Items)
    BY <1>0
<1>2. VecTypeOK'
    <2>1. asked' \in [Kinds -> Seq(Items)]
        BY <1>1 DEF VectorsInv, VecTypeOK, Chain
    <2>2. vec' \in [Kinds -> Seq(Items)] /\ err' \in [Kinds -> {"OK", "NOMEM", "INVALID"}]
        BY DEF VectorsInv, VecTypeOK, Chain, Promise
    <2>3. ops' \in 0..MaxVecOps
        BY VectorSizes DEF VectorsInv, VecTypeOK, Chain
    <2> QED
        BY <2>1, <2>2, <2>3 DEF VecTypeOK
<1>3. WithinCapacity'
    BY DEF VectorsInv, VecTypeOK, WithinCapacity, Chain, Promise
<1>4. OkMeansComplete'
    <2> SUFFICES ASSUME NEW j \in Kinds, err'[j] = "OK"
                 PROVE  vec'[j] = asked'[j]
        BY Zenon DEF OkMeansComplete
    <2>1. /\ DOMAIN vec = Kinds /\ DOMAIN err = Kinds /\ DOMAIN asked = Kinds
          /\ err[j] = "OK" => vec[j] = asked[j]
        BY DEF VectorsInv, VecTypeOK, OkMeansComplete
    <2>2. CASE j # k
        BY <2>1, <2>2 DEF Chain
    <2>3. CASE j = k
        <3>1. err[k] = "OK"
            BY <2>3 DEF Chain
        <3>2. r.ret = "OK" /\ vec'[k] = r.vec /\ asked'[k] = asked[k] \o list
            BY <2>1, <2>3, <3>1 DEF Chain
        <3> QED
            BY <2>1, <2>3, <3>1, <3>2 DEF Promise
    <2> QED
        BY <2>2, <2>3
<1>5. FailureKeepsPrefix'
    <2> DEFINE ask == asked[k] \o list
    <2>0. /\ Len(asked[k]) \in Nat /\ Len(list) \in Nat /\ Len(vec[k]) \in Nat /\ VecCapacity[k] \in Nat
          /\ Len(ask) = Len(asked[k]) + Len(list)
          /\ \A i \in 1..Len(asked[k]) : ask[i] = asked[k][i]
        <3>1. VecCapacity[k] \in Nat
            BY VectorSizes
        <3>2. Len(asked[k]) \in Nat /\ Len(list) \in Nat /\ Len(vec[k]) \in Nat
            BY <1>0
        <3>3. Len(ask) = Len(asked[k]) + Len(list)
            BY <1>0
        <3>4. \A i \in 1..Len(asked[k]) : ask[i] = asked[k][i]
            BY <1>0
        <3> QED
            BY <3>1, <3>2, <3>3, <3>4
    <2>1. asked' = [asked EXCEPT ![k] = ask]
        BY DEF Chain
    <2> HIDE DEF ask
    <2>2. CASE err[k] = "OK"
        <3>1. asked[k] = vec[k]
            BY <2>2 DEF VectorsInv, OkMeansComplete
        <3>2. vec' = [vec EXCEPT ![k] = r.vec] /\ err' = [err EXCEPT ![k] = r.ret]
            BY <2>2 DEF Chain
        <3>3. /\ Len(r.vec) <= Len(ask)
              /\ \A i \in 1..Len(r.vec) : r.vec[i] = ask[i]
              /\ r.ret = "NOMEM" => Len(ask) > VecCapacity[k]
            BY <2>0, <3>1 DEF Promise, ask
        <3> QED
            BY <2>1, <3>2, <3>3 DEF VectorsInv, VecTypeOK, FailureKeepsPrefix
    <2>3. CASE err[k] # "OK"
        <3>1. vec' = vec /\ err' = err
            BY <2>3 DEF Chain
        <3>2. /\ Len(vec[k]) <= Len(ask)
              /\ \A i \in 1..Len(vec[k]) : vec[k][i] = ask[i]
              /\ err[k] = "NOMEM" => Len(ask) > VecCapacity[k]
            BY <2>0 DEF VectorsInv, FailureKeepsPrefix
        <3> QED
            BY <2>1, <3>1, <3>2 DEF VectorsInv, VecTypeOK, FailureKeepsPrefix
    <2> QED
        BY <2>2, <2>3
<1> QED
    BY <1>2, <1>3, <1>4, <1>5 DEF VectorsInv

\* The invariant holds of empty vectors.
LEMMA InitVectors == VecInit => VectorsInv
<1> SUFFICES ASSUME VecInit PROVE VectorsInv
    OBVIOUS
<1>1. <<>> \in Seq(Items) /\ Len(<<>>) = 0
    OBVIOUS
<1> QED
    BY <1>1, VectorSizes DEF VecInit, VectorsInv, VecTypeOK, WithinCapacity, OkMeansComplete, FailureKeepsPrefix

\* Every operation keeps the invariant.
LEMMA StepVectors == VectorsInv /\ [VecNext]_vecVars => VectorsInv'
<1> SUFFICES ASSUME VectorsInv, [VecNext]_vecVars PROVE VectorsInv'
    OBVIOUS
<1>0. /\ \A k \in Kinds : vec[k] \in Seq(Items) /\ asked[k] \in Seq(Items)
      /\ \A k \in Kinds : VecCapacity[k] \in 0..(SIZE - 1) /\ Len(vec[k]) <= VecCapacity[k]
      /\ {"obj", "kv", "byte", "buf"} \subseteq Kinds
    BY VectorSizes DEF VectorsInv, VecTypeOK, WithinCapacity
<1>1. ASSUME NEW list \in VecLists PROVE list \in Seq(Items)
    BY <1>1, VectorSizes, SeqDef DEF VecLists
<1>2. ASSUME NEW x \in Items,
             gg_obj_vec_chain_push(x) \/ gg_byte_vec_chain_push(x) \/ gg_buf_vec_chain_push(x) \/ PushKV(x)
      PROVE  VectorsInv'
    <2>1. <<x>> \in Seq(Items)
        OBVIOUS
    <2>2. \A k \in Kinds : Promise(Push(vec[k], VecCapacity[k], x), vec[k], VecCapacity[k], <<x>>)
        BY <1>0, PushPromise, VectorSizes
    <2> QED
        BY <1>0, <1>2, <2>1, <2>2, ChainKeeps
           DEF gg_obj_vec_chain_push, gg_byte_vec_chain_push, gg_buf_vec_chain_push, PushKV,
               gg_obj_vec_push, gg_byte_vec_push, gg_buf_vec_push, gg_kv_vec_push
<1>3. ASSUME NEW list \in VecLists,
             gg_obj_vec_chain_append(list) \/ gg_byte_vec_chain_append(list) \/ WriteVec(list)
      PROVE  VectorsInv'
    <2>1. \A k \in Kinds : Promise(Extend(vec[k], VecCapacity[k], list), vec[k], VecCapacity[k], list)
        BY <1>0, <1>1, ExtendPromise
    <2> QED
        BY <1>0, <1>1, <1>3, <2>1, ChainKeeps
           DEF gg_obj_vec_chain_append, gg_byte_vec_chain_append, WriteVec, byte_vec_write,
               gg_obj_vec_append, gg_byte_vec_append
<1>4. ASSUME NEW list \in VecLists, gg_buf_vec_chain_append_list(list) PROVE VectorsInv'
    BY <1>0, <1>1, <1>4, AppendListPromise, ChainKeeps DEF gg_buf_vec_chain_append_list
<1>5. CASE PopObj
    <2>1. CASE Len(vec["obj"]) = 0
        <3>1. /\ vec' = [vec EXCEPT !["obj"] = vec["obj"]] /\ asked' = [asked EXCEPT !["obj"] = asked["obj"]]
              /\ err' = err /\ ops' = ops + 1 /\ ops < MaxVecOps
            BY <1>5, <2>1 DEF PopObj, gg_obj_vec_pop
        <3>2. vec' = vec /\ asked' = asked
            BY <1>0, <3>1 DEF VectorsInv, VecTypeOK
        <3>3. ops' \in 0..MaxVecOps
            BY <3>1, VectorSizes DEF VectorsInv, VecTypeOK
        <3>4. VecTypeOK'
            BY <3>1, <3>2, <3>3 DEF VectorsInv, VecTypeOK
        <3>5. WithinCapacity' /\ OkMeansComplete'
            BY <3>1, <3>2 DEF VectorsInv, WithinCapacity, OkMeansComplete
        <3>6. FailureKeepsPrefix'
            BY <3>1, <3>2 DEF VectorsInv, FailureKeepsPrefix
        <3> QED
            BY <3>4, <3>5, <3>6 DEF VectorsInv
    <2>2. CASE Len(vec["obj"]) # 0
        <3> DEFINE rest == SubSeq(vec["obj"], 1, Len(vec["obj"]) - 1)
        <3>1. Len(vec["obj"]) \in Nat /\ vec["obj"] \in Seq(Items) /\ asked["obj"] = vec["obj"]
            BY <1>0, <1>5 DEF PopObj, VectorsInv, OkMeansComplete
        <3>2. rest \in Seq(Items) /\ Len(rest) = Len(vec["obj"]) - 1
            BY <2>2, <3>1
        <3>3. /\ vec' = [vec EXCEPT !["obj"] = rest] /\ asked' = [asked EXCEPT !["obj"] = rest]
              /\ err' = err /\ ops' = ops + 1 /\ ops < MaxVecOps
            BY <1>5, <2>2, <3>1 DEF PopObj, gg_obj_vec_pop
        <3> HIDE DEF rest
        <3>4. ops' \in 0..MaxVecOps
            BY <3>3, VectorSizes DEF VectorsInv, VecTypeOK
        <3>5. vec' \in [Kinds -> Seq(Items)] /\ asked' \in [Kinds -> Seq(Items)]
            BY <3>2, <3>3 DEF VectorsInv, VecTypeOK
        <3>6. WithinCapacity'
            BY <1>0, <3>1, <3>2, <3>3, SMTT(30) DEF VectorsInv, VecTypeOK, WithinCapacity
        <3>7. OkMeansComplete'
            BY <3>3 DEF VectorsInv, VecTypeOK, OkMeansComplete
        <3>8. FailureKeepsPrefix'
            BY <1>5, <3>2, <3>3, SMTT(30) DEF PopObj, VectorsInv, VecTypeOK, FailureKeepsPrefix
        <3> QED
            BY <3>3, <3>4, <3>5, <3>6, <3>7, <3>8 DEF VectorsInv, VecTypeOK
    <2> QED
        BY <2>1, <2>2
<1>6. CASE UNCHANGED vecVars
    BY <1>6 DEF vecVars, VectorsInv, VecTypeOK, WithinCapacity, OkMeansComplete, FailureKeepsPrefix
<1> QED
    BY <1>2, <1>3, <1>4, <1>5, <1>6, VectorSizes DEF VecNext

\* Whatever the capacities, lists and lengths of chains: no vector grows past its
\* memory, a chain that ends with GG_ERR_OK stored all it was asked to, and one
\* that fails stored a first part of what does not fit.
THEOREM ChainsAreExact == VecSpec => []ChainsExact
<1>1. VectorsInv => ChainsExact
    BY DEF VectorsInv, ChainsExact
<1> QED
    BY InitVectors, StepVectors, <1>1, PTL DEF VecSpec

==============================================================================
