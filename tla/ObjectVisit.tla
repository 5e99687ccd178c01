----------------------------- MODULE ObjectVisit -----------------------------
(***************************************************************************)
(* gg_obj_visit (src/src/object_visit.c) and the operations built on it:      *)
(* gg_obj_mem_usage, gg_arena_claim_obj, gg_arena_claim_obj_bufs,             *)
(* gg_obj_canonicalize, gg_obj_is_canonical and gg_json_encode.  One action   *)
(* is one turn of the visitor's loop.  A handler may rewrite the object that  *)
(* is being visited; the loop reads it again on the next turn.                *)
(***************************************************************************)
EXTENDS Json, SequencesExt, FiniteSetsExt, Functions

CONSTANTS
    GG_MAX_OBJECT_DEPTH,
    GG_MAX_OBJECT_SUBOBJECTS,
    Inputs          \* [op, value, left, room, mixed]: operations, objects and arena sizes;
                    \* mixed: parts of the object may be in the arena already

VARIABLES
    op,             \* the operation: which handlers are set
    mem,            \* the memory they act on
    start,          \* history: the memory before the call
    levels,         \* IterLevels, the current level last
    subobjects,     \* elements counted so far
    ret             \* result of the call, "running" before it returns

vars == <<op, mem, start, levels, subobjects, ret>>

Level(ref) == [obj |-> ref, state |-> "LEVEL_DEFAULT", elem |-> 0]

Init ==
    /\ \E in \in Inputs :
           LET m == Memory(in.value, in.left, in.room)
           IN  /\ op = in.op
               /\ \E blocks \in SUBSET (IF in.mixed THEN DOMAIN m.heap ELSE {}) :
                      mem = [m EXCEPT !.owned = blocks]
    /\ start = mem
    /\ levels = <<Level(Root)>>
    /\ subobjects = 0
    /\ ret = "running"

-----------------------------------------------------------------------------
(* Handlers: each returns its result and the memory after it.                *)

gg_obj_mem_usage(name, m, ref) ==
    LET obj == Deref(m, ref)
        size == CASE name = "on_buf" -> obj.len
                  [] name = "on_list" -> obj.len * SizeOfObject
                  [] name = "on_map" -> obj.len * SizeOfKV
                  [] name = "on_map_key" -> m.heap[ref[1]].cells[ref[2]].key.len
                  [] OTHER -> 0
    IN  [ret |-> "OK", mem |-> [m EXCEPT !.measured = @ + size]]

\* Mutant: the pointer is cleared before the allocation is known to succeed.
ClaimBlock_NullOnFailure(m, ptr, len, size) ==
    IF size > m.left THEN [ret |-> "NOMEM", mem |-> m, ptr |-> 0]
    ELSE LET copy == [kind |-> m.heap[ptr].kind, cells |-> Cells(m, ptr, len)]
             new == Len(m.heap) + 1
         IN  [ret |-> "OK", ptr |-> new,
              mem |-> [m EXCEPT !.heap = Append(@, copy), !.owned = @ \cup {new}, !.left = @ - size]]

\* A copy of a block in the arena; without room the pointer stays as it is.
ClaimBlock(m, ptr, len, size) ==
    IF size > m.left THEN [ret |-> "NOMEM", mem |-> m, ptr |-> ptr]
    ELSE LET copy == [kind |-> m.heap[ptr].kind, cells |-> Cells(m, ptr, len)]
             new == Len(m.heap) + 1
         IN  [ret |-> "OK", ptr |-> new,
              mem |-> [m EXCEPT !.heap = Append(@, copy), !.owned = @ \cup {new}, !.left = @ - size]]

\* What gg_arena_claim_buf, claim_list and claim_map do with a pointer: nothing
\* if the arena owns it, NULL if the block is empty, a copy otherwise.
Claim(m, ptr, len, size) ==
    IF ptr \in m.owned THEN [ret |-> "OK", mem |-> m, ptr |-> ptr]
    ELSE IF len = 0 THEN [ret |-> "OK", mem |-> m, ptr |-> 0]
    ELSE ClaimBlock(m, ptr, len, size)

Unit(name) ==
    CASE name = "on_list" -> SizeOfObject [] name = "on_map" -> SizeOfKV [] OTHER -> 1

\* claim_buf, claim_list, claim_map: the object is stored back with the new
\* pointer.
ClaimObject(name, m, ref) ==
    LET obj == Deref(m, ref)
        stored(c) == [ret |-> c.ret, mem |-> Store(c.mem, ref, [obj EXCEPT !.val = c.ptr])]
    IN  stored(Claim(m, obj.val, obj.len, obj.len * Unit(name)))

claim_map_key(m, ref) ==
    LET key == m.heap[ref[1]].cells[ref[2]].key
        stored(c) == [ret |-> c.ret, mem |-> [c.mem EXCEPT !.heap[ref[1]].cells[ref[2]].key.val = c.ptr]]
    IN  stored(Claim(m, key.val, key.len, key.len))

Done(m) == [ret |-> "OK", mem |-> m]

gg_arena_claim_obj_bufs(name, m, ref) ==
    CASE name = "on_buf" -> ClaimObject(name, m, ref)
      [] name = "on_map_key" -> claim_map_key(m, ref)
      [] OTHER -> Done(m)

gg_arena_claim_obj(name, m, ref) ==
    IF name \in {"on_list", "on_map"} THEN ClaimObject(name, m, ref)
    ELSE gg_arena_claim_obj_bufs(name, m, ref)

gg_obj_canonicalize(name, m, ref) ==
    IF name # "on_map" THEN Done(m)
    ELSE LET stored(c) == Done(Store(c.mem, ref, c.map))
         IN  stored(gg_map_canonicalize_shallow(m, Deref(m, ref)))

gg_obj_is_canonical(name, m, ref) ==
    [ret |-> IF name = "on_map" /\ ~gg_map_is_canonical(m, Deref(m, ref)) THEN "FAILURE" ELSE "OK",
     mem |-> m]

Handle(name, m, ref) ==
    CASE op = "mem_usage" -> gg_obj_mem_usage(name, m, ref)
      [] op = "claim_obj" -> gg_arena_claim_obj(name, m, ref)
      [] op = "claim_obj_bufs" -> gg_arena_claim_obj_bufs(name, m, ref)
      [] op = "canonicalize" -> gg_obj_canonicalize(name, m, ref)
      [] op = "is_canonical" -> gg_obj_is_canonical(name, m, ref)
      [] op = "json_encode" -> gg_json_encode(name, m, ref)

\* TRY_HANDLER after an earlier one.
AndThen(h, name, ref) == IF h.ret = "OK" THEN Handle(name, h.mem, ref) ELSE h

-----------------------------------------------------------------------------
(* The loop.                                                                 *)

Top == Len(levels)
Cur == levels[Top]
CurObj == Deref(mem, Cur.obj)
running == ret = "running"

\* The current object is finished: return, or go on with its parent.
Pop ==
    IF Top = 1
    THEN ret' = "OK" /\ UNCHANGED levels
    ELSE levels' = SubSeq(levels, 1, Top - 1) /\ UNCHANGED ret

Fail(e) == ret' = e /\ UNCHANGED levels

VisitScalar ==
    /\ running /\ Cur.state = "LEVEL_DEFAULT"
    /\ CurObj.type \notin {"list", "map"}
    /\ \E h \in {Handle("on_" \o CurObj.type, mem, Cur.obj)} :
           /\ mem' = h.mem
           /\ IF h.ret = "OK" THEN Pop ELSE Fail(h.ret)
    /\ UNCHANGED <<op, start, subobjects>>

\* Mutant: the count starts again at every container.
Enter_NoSum(type, state, weight) ==
    /\ running /\ Cur.state = "LEVEL_DEFAULT"
    /\ CurObj.type = type
    /\ IF CurObj.len > GG_MAX_OBJECT_SUBOBJECTS \div weight
       THEN Fail("RANGE") /\ UNCHANGED mem
       ELSE \E h \in {Handle("on_" \o type, mem, Cur.obj)} :
                /\ mem' = h.mem
                /\ IF h.ret = "OK"
                   THEN levels' = [levels EXCEPT ![Top].state = state] /\ UNCHANGED ret
                   ELSE Fail(h.ret)
    /\ UNCHANGED <<op, start, subobjects>>

\* A list counts its elements, a map its keys and values.
Enter(type, state, weight) ==
    /\ running /\ Cur.state = "LEVEL_DEFAULT"
    /\ CurObj.type = type
    /\ IF CurObj.len > (GG_MAX_OBJECT_SUBOBJECTS - subobjects) \div weight
       THEN Fail("RANGE") /\ UNCHANGED <<mem, subobjects>>
       ELSE \E h \in {Handle("on_" \o type, mem, Cur.obj)} :
                /\ mem' = h.mem
                /\ subobjects' = subobjects + weight * CurObj.len
                /\ IF h.ret = "OK"
                   THEN levels' = [levels EXCEPT ![Top].state = state] /\ UNCHANGED ret
                   ELSE Fail(h.ret)
    /\ UNCHANGED <<op, start>>

EnterList == Enter("list", "LEVEL_LIST", 1)
EnterMap == Enter("map", "LEVEL_MAP", 2)

\* The next element: separator and key, then one level down.
Element ==
    /\ running /\ Cur.state # "LEVEL_DEFAULT" /\ Cur.elem < CurObj.len
    /\ LET ref == <<CurObj.val, Cur.elem + 1>>
           sep == IF Cur.elem = 0 THEN Done(mem) ELSE Handle("cont_" \o CurObj.type, mem, ref)
       IN  \E h \in {IF CurObj.type = "map" THEN AndThen(sep, "on_map_key", ref) ELSE sep} :
               /\ mem' = h.mem
               /\ IF h.ret # "OK" THEN Fail(h.ret)
                  ELSE IF Top = GG_MAX_OBJECT_DEPTH THEN Fail("RANGE")
                  ELSE /\ levels' = Append([levels EXCEPT ![Top].elem = @ + 1], Level(ref))
                       /\ UNCHANGED ret
    /\ UNCHANGED <<op, start, subobjects>>

End ==
    /\ running /\ Cur.state # "LEVEL_DEFAULT" /\ Cur.elem = CurObj.len
    /\ \E h \in {Handle("end_" \o CurObj.type, mem, Cur.obj)} :
           /\ mem' = h.mem
           /\ IF h.ret = "OK" THEN Pop ELSE Fail(h.ret)
    /\ UNCHANGED <<op, start, subobjects>>

Next == VisitScalar \/ EnterList \/ EnterMap \/ Element \/ End

Spec == Init /\ [][Next]_vars

-----------------------------------------------------------------------------
(* Reference definitions on values: include/gg/object.h, lines 18 to 27.      *)

RECURSIVE Usage(_), Canonical(_)
Usage(v) ==
    CASE v[1] = "buf" -> Len(v[2])
      [] v[1] = "list" -> Total([i \in DOMAIN v[2] |-> SizeOfObject + Usage(v[2][i])])
      [] v[1] = "map" -> Total([i \in DOMAIN v[2] |->
                                SizeOfKV + Len(v[2][i][1]) + Usage(v[2][i][2])])
      [] OTHER -> 0

\* Every map sorted by key, the first of equal keys kept.
Canonical(v) ==
    LET keys == {v[2][i][1] : i \in DOMAIN v[2]}
        first(k) == v[2][Min({i \in DOMAIN v[2] : v[2][i][1] = k})][2]
        sorted == SetToSortSeq(keys, BytesLess)
    IN  CASE v[1] = "list" -> <<"list", [i \in DOMAIN v[2] |-> Canonical(v[2][i])]>>
          [] v[1] = "map" -> <<"map", [i \in DOMAIN sorted |-> <<sorted[i], Canonical(first(sorted[i]))>>]>>
          [] OTHER -> v

Before == Value(start, start.root)
After == Value(mem, mem.root)
TooLarge == Depth(Before) > GG_MAX_OBJECT_DEPTH \/ Subobjects(Before) > GG_MAX_OBJECT_SUBOBJECTS

\* The blocks an object points at.
RECURSIVE Reachable(_, _)
Reachable(m, obj) ==
    LET cells == Cells(m, obj.val, obj.len)
        own == {obj.val} \ {0}
    IN  CASE obj.type = "buf" -> own
          [] obj.type = "list" -> own \cup UNION {Reachable(m, cells[i]) : i \in DOMAIN cells}
          [] obj.type = "map" -> own \cup UNION {Reachable(m, cells[i].key)
                                                 \cup Reachable(m, cells[i].val) : i \in DOMAIN cells}
          [] OTHER -> {}

-----------------------------------------------------------------------------
(* Properties.                                                               *)

\* The arrays of IterLevels are never overrun and the 8-bit count of subobjects
\* never passes its maximum.
TypeOK ==
    /\ Len(levels) \in 1..GG_MAX_OBJECT_DEPTH
    /\ subobjects \in 0..GG_MAX_OBJECT_SUBOBJECTS
    /\ ret \in {"running", "OK", "RANGE", "NOMEM", "FAILURE"}

\* gg_obj_visit returns GG_ERR_RANGE for exactly the objects that object.h calls
\* too deep or too large, whichever handlers run and whatever they rewrite.
RangeMeansTooLarge ==
    /\ ret = "RANGE" => TooLarge
    /\ ret = "OK" /\ op # "canonicalize" => ~TooLarge

\* gg_obj_mem_usage announces what gg_arena_claim_obj takes: a claim needs no more,
\* needs exactly that much if no part is in the arena yet, and fails for want of
\* memory only in an arena that has less.
UsageCoversClaim ==
    /\ op = "mem_usage" /\ ret = "OK" => mem.measured = Usage(Before)
    /\ op = "claim_obj" /\ ret = "OK" =>
           /\ start.left - mem.left <= Usage(Before)
           /\ start.owned = {} => start.left - mem.left = Usage(Before)
    /\ op = "claim_obj" /\ ret = "NOMEM" => start.left < Usage(Before)

\* After a successful claim every block reachable from the object is in the arena.
ClaimedIsOwned ==
    op = "claim_obj" /\ ret = "OK" => Reachable(mem, mem.root) \subseteq mem.owned

\* At no point of a claim, a failed one included, does the object stand for another
\* value, and gg_arena_claim_obj leaves memory outside the arena as it was.
ClaimKeepsValue ==
    /\ op \in {"claim_obj", "claim_obj_bufs"} => After = Before
    /\ op = "claim_obj" =>
           \A b \in DOMAIN start.heap \ start.owned : mem.heap[b] = start.heap[b]

\* gg_obj_canonicalize sorts every map and keeps the first of equal keys, and
\* gg_obj_is_canonical accepts exactly the results.
CanonicalForm ==
    /\ op = "canonicalize" /\ ret = "OK" => After = Canonical(Before)
    /\ op = "is_canonical" /\ ~running => (ret = "OK") = (Before = Canonical(Before) /\ ~TooLarge)

=============================================================================
