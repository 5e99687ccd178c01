------------------------------ MODULE Messages ------------------------------
(***************************************************************************)
(* What the operations and the subscriptions have in common: values, key      *)
(* paths, and the check of a received map against a schema.                   *)
(*                                                                         *)
(* Objects are values <<type, data>>; a map is a sequence of <<key, value>>,   *)
(* a key or a buffer a sequence whose elements are opaque.                    *)
(***************************************************************************)
EXTENDS Objects, Base64

CONSTANT GG_MAX_OBJECT_DEPTH

Nothing == <<"nothing">>     \* a NULL pointer

Key(name) == <<name>>
Buf(b) == <<"buf", b>>
Map(pairs) == <<"map", pairs>>
Pair(name, v) == <<Key(name), v>>

\* GG_KV_VEC and the (void) gg_kv_vec_push after it: a pair that does not fit is
\* dropped without a word.
Args(capacity, pairs) == SubSeq(pairs, 1, IF Len(pairs) < capacity THEN Len(pairs) ELSE capacity)

Optional(present, pair) == IF present THEN <<pair>> ELSE <<>>

\* The keyPath list, or the error of a path that is too long.
PathTooLong(path) == Len(path) > GG_MAX_OBJECT_DEPTH - 1
KeyPath(path) == <<"list", [i \in DOMAIN path |-> Buf(path[i])]>>

Required(name, type) == [key |-> Key(name), required |-> "REQUIRED", type |-> type]
OptionalKey(name, type) == [key |-> Key(name), required |-> "OPTIONAL", type |-> type]

\* gg_map_validate on the decoded result: the values of the schema's keys.
Validated(result, schema) ==
    LET read(m, v) ==
            IF v.ret # "OK" THEN [ret |-> v.ret, values |-> <<>>]
            ELSE [ret |-> "OK", values |-> [i \in DOMAIN schema |->
                    IF v.values[i] = Root THEN Nothing ELSE Value(m, Deref(m, v.values[i]))]]
        check(m) == read(m, gg_map_validate(m, m.root, schema))
    IN  check(Memory(result, 0, 0))
=============================================================================
