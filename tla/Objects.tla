------------------------------- MODULE Objects -------------------------------
(***************************************************************************)
(* GgObject values in memory (src/src/object.c, map.c, map_canonical.c).      *)
(* An object is packed as a tag, a pointer or scalar, and a 16-bit length;    *)
(* lists, maps and buffers point at blocks of a heap.  m is a memory:         *)
(*   m.heap      blocks [kind, cells]; a pointer is a block number, 0 is NULL *)
(*   m.root      the object a caller holds                                    *)
(*   m.owned     the blocks inside the arena                                  *)
(*   m.left      what is left in the arena                                    *)
(*   m.measured  the counter of gg_obj_mem_usage                              *)
(*   m.out       what gg_json_encode has written, m.room what it may write    *)
(*   m.text      the buffer a JSON document is decoded from; pointer -i is its *)
(*               i-th byte                                                    *)
(***************************************************************************)
EXTENDS Integers, Sequences, FiniteSets, FiniteSetsExt, Functions

CONSTANTS
    SizeOfObject,   \* sizeof(GgObject), in units of a buffer byte
    SizeOfKV,       \* sizeof(GgKV)
    UINT16_MAX      \* largest length an object can hold

\* map.c relies on the size of a pair.
ASSUME ObjectSizes ==
    /\ SizeOfObject \in Nat \ {0}
    /\ SizeOfKV \in SizeOfObject..(2 * SizeOfObject)

-----------------------------------------------------------------------------
(* Packing.                                                                  *)

Packed(type, val, len) ==
    [type |-> type, val |-> val, len |-> IF len > UINT16_MAX THEN UINT16_MAX ELSE len]

GG_OBJ_NULL == Packed("null", 0, 0)
gg_obj_bool(b) == Packed("bool", b, 0)
gg_obj_i64(n) == Packed("i64", n, 0)
gg_obj_f64(x) == Packed("f64", x, 0)
gg_obj_buf(ptr, len) == Packed("buf", ptr, len)
gg_obj_list(ptr, len) == Packed("list", ptr, len)
gg_obj_map(ptr, len) == Packed("map", ptr, len)

\* Pairs: the key is a packed buffer, the value follows it in place.
gg_kv(key, val) == [key |-> key, val |-> val]

-----------------------------------------------------------------------------
(* Memory.                                                                   *)

Root == <<0, 0>>    \* the caller's GgObject; <<b, i>> is an element of block b

Cells(m, ptr, len) ==
    IF ptr = 0 THEN <<>>
    ELSE IF ptr < 0 THEN SubSeq(m.text, -ptr, -ptr + len - 1)
    ELSE SubSeq(m.heap[ptr].cells, 1, len)

Deref(m, ref) ==
    IF ref = Root THEN m.root
    ELSE IF m.heap[ref[1]].kind = "kvs" THEN m.heap[ref[1]].cells[ref[2]].val
    ELSE m.heap[ref[1]].cells[ref[2]]

Store(m, ref, obj) ==
    IF ref = Root THEN [m EXCEPT !.root = obj]
    ELSE IF m.heap[ref[1]].kind = "kvs" THEN [m EXCEPT !.heap[ref[1]].cells[ref[2]].val = obj]
    ELSE [m EXCEPT !.heap[ref[1]].cells[ref[2]] = obj]

Bytes(m, buf) == Cells(m, buf.val, buf.len)

\* The value an object stands for, whatever blocks hold it.
RECURSIVE Value(_, _)
Value(m, obj) ==
    LET cells == IF obj.type \in {"buf", "list", "map"} THEN Cells(m, obj.val, obj.len) ELSE <<>>
    IN  CASE obj.type = "buf" -> <<"buf", cells>>
          [] obj.type = "list" -> <<"list", [i \in DOMAIN cells |-> Value(m, cells[i])]>>
          [] obj.type = "map" -> <<"map", [i \in DOMAIN cells |->
                                    <<Bytes(m, cells[i].key), Value(m, cells[i].val)>>]>>
          [] OTHER -> <<obj.type, obj.val>>

\* A value laid out in fresh blocks, as a program builds it: [mem, obj].
RECURSIVE Stored(_, _), StoredAll(_, _, _)
Stored(m, v) ==
    LET kind == CASE v[1] = "buf" -> "bytes" [] v[1] = "list" -> "objs" [] v[1] = "map" -> "kvs"
        block(mem, cells) ==
            [mem |-> [mem EXCEPT !.heap = Append(@, [kind |-> kind, cells |-> cells])],
             obj |-> Packed(v[1], Len(mem.heap) + 1, Len(cells))]
        container(all) == block(all.mem, all.cells)
    IN  IF v[1] \notin {"buf", "list", "map"} THEN [mem |-> m, obj |-> Packed(v[1], v[2], 0)]
        ELSE IF v[2] = <<>> THEN [mem |-> m, obj |-> Packed(v[1], 0, 0)]
        ELSE IF v[1] = "buf" THEN block(m, v[2])
        ELSE container(StoredAll(m, v, <<>>))

\* The elements of list or map v after the first Len(cells).
StoredAll(m, v, cells) ==
    LET elem == v[2][Len(cells) + 1]
        item(val) == StoredAll(val.mem, v, Append(cells, val.obj))
        pair(key, val) == StoredAll(val.mem, v, Append(cells, gg_kv(key.obj, val.obj)))
        after(key) == pair(key, Stored(key.mem, elem[2]))
    IN  IF Len(cells) = Len(v[2]) THEN [mem |-> m, cells |-> cells]
        ELSE IF v[1] = "map" THEN after(Stored(m, <<"buf", elem[1]>>))
        ELSE item(Stored(m, elem))

\* A memory that holds value v as the root object, with an arena of the given size.
Memory(v, left, room) ==
    LET empty == [heap |-> <<>>, root |-> GG_OBJ_NULL, owned |-> {}, left |-> left,
                  measured |-> 0, out |-> <<>>, room |-> room, text |-> <<>>]
        rooted(s) == [s.mem EXCEPT !.root = s.obj]
    IN  rooted(Stored(empty, v))

-----------------------------------------------------------------------------
(* Maps as pairs in memory order.                                            *)

RECURSIVE BytesLess(_, _)
BytesLess(a, b) ==
    IF a = <<>> \/ b = <<>> THEN Len(a) < Len(b)
    ELSE IF Head(a) # Head(b) THEN Head(a) < Head(b)
    ELSE BytesLess(Tail(a), Tail(b))

is_key_less(m, lhs, rhs) == BytesLess(Bytes(m, lhs.key), Bytes(m, rhs.key))

\* gg_map_get: the first pair with the key, 0 if there is none.
gg_map_get(m, map, key) ==
    LET first(at) == IF at = {} THEN 0 ELSE CHOOSE i \in at : \A j \in at : i <= j
        match(pairs) == {i \in DOMAIN pairs : Bytes(m, pairs[i].key) = key}
    IN  first(match(Cells(m, map.val, map.len)))

\* gg_map_validate: each entry [key, required, type]; the values found, or NULL.
gg_map_validate(m, map, schema) ==
    LET fault(e, at) == IF at = 0
                        THEN IF e.required = "REQUIRED" THEN "NOENTRY" ELSE "OK"
                        ELSE IF e.required = "MISSING" THEN "PARSE"
                        ELSE IF e.type # "null" /\ e.type # Deref(m, <<map.val, at>>).type THEN "PARSE"
                        ELSE "OK"
        first(faults) == {f \in faults : f[2] # "OK" /\ \A g \in faults : g[1] < f[1] => g[2] = "OK"}
        result(found, failed) ==
            IF failed # {} THEN [ret |-> (CHOOSE f \in failed : TRUE)[2]]
            ELSE [ret |-> "OK", values |-> [i \in DOMAIN schema |->
                    IF found[i] = 0 THEN Root ELSE <<map.val, found[i]>>]]
        check(found) == result(found, first({<<i, fault(schema[i], found[i])>> : i \in DOMAIN schema}))
    IN  check([i \in DOMAIN schema |-> gg_map_get(m, map, schema[i].key)])

gg_list_type_check(m, list, type) ==
    IF \A i \in 1..list.len : m.heap[list.val].cells[i].type = type THEN "OK" ELSE "PARSE"

\* prune_duplicates: from the last pair to the first, a pair whose key occurs
\* earlier is overwritten by the last pair and the map is shortened.
RECURSIVE PruneFrom(_, _, _)
PruneFrom(m, map, i) ==
    IF i = 0 THEN [mem |-> m, map |-> map]
    ELSE LET pairs == m.heap[map.val].cells
             pruned == gg_kv(gg_obj_buf(0, 0), GG_OBJ_NULL)
             kept == [pairs EXCEPT ![i] = pairs[map.len], ![map.len] = pruned]
         IN  IF gg_map_get(m, map, Bytes(m, pairs[i].key)) = i THEN PruneFrom(m, map, i - 1)
             ELSE PruneFrom([m EXCEPT !.heap[map.val].cells = kept],
                            [map EXCEPT !.len = @ - 1], i - 1)

prune_duplicates(m, map) == PruneFrom(m, map, map.len)

Swap(s, i, j) == [s EXCEPT ![i] = s[j], ![j] = s[i]]

\* sort_keys: insertion sort; the pair at j sinks to its place.
RECURSIVE Sink(_, _, _)
Sink(m, pairs, j) ==
    IF j > 1 /\ is_key_less(m, pairs[j], pairs[j - 1])
    THEN Sink(m, Swap(pairs, j, j - 1), j - 1)
    ELSE pairs

RECURSIVE SortFrom(_, _, _, _)
SortFrom(m, pairs, i, len) ==
    IF i > len THEN pairs ELSE SortFrom(m, Sink(m, pairs, i), i + 1, len)

sort_keys(m, map) ==
    IF map.len = 0 THEN m
    ELSE [m EXCEPT !.heap[map.val].cells = SortFrom(m, @, 1, map.len)]

\* Mutant: the keys are sorted but a duplicate key is kept.
gg_map_canonicalize_shallow_NoPrune(m, map) == [mem |-> sort_keys(m, map), map |-> map]

gg_map_canonicalize_shallow(m, map) ==
    LET sorted(pruned) == [mem |-> sort_keys(pruned.mem, pruned.map), map |-> pruned.map]
    IN  sorted(prune_duplicates(m, map))

gg_map_is_canonical(m, map) ==
    LET pairs == Cells(m, map.val, map.len)
    IN  \A i \in 2..map.len : is_key_less(m, pairs[i - 1], pairs[i])

-----------------------------------------------------------------------------
(* Reference definitions on values: include/gg/object.h, lines 18 to 27.      *)

IsContainer(v) == v[1] \in {"list", "map"}
Children(v) ==
    IF ~IsContainer(v) THEN <<>>
    ELSE [i \in DOMAIN v[2] |-> IF v[1] = "map" THEN v[2][i][2] ELSE v[2][i]]

Total(f) == FoldFunction(+, 0, f)

RECURSIVE Depth(_), Subobjects(_)
Depth(v) == 1 + Max({0} \cup {Depth(Children(v)[i]) : i \in DOMAIN Children(v)})

Subobjects(v) ==
    IF ~IsContainer(v) THEN 0
    ELSE (IF v[1] = "map" THEN 2 ELSE 1) * Len(v[2])
         + Total([i \in DOMAIN v[2] |-> Subobjects(Children(v)[i])])

=============================================================================
