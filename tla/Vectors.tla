------------------------------- MODULE Vectors -------------------------------
(***************************************************************************)
(* The bounded vectors of src/src/vector.c: objects, key-value pairs, bytes   *)
(* and buffers, each in memory of a fixed capacity.  A builder runs a chain   *)
(* of operations that share an error: once one fails the others do nothing.   *)
(***************************************************************************)
EXTENDS Integers, Sequences

CONSTANTS
    Kinds,          \* the vectors: "obj", "kv", "byte", "buf"
    Items,          \* what is stored; Bufs of them are objects of type buffer
    Bufs,
    VecCapacity,    \* capacity of each vector
    SIZE,           \* 2^64: size_t arithmetic is modulo SIZE
    MaxList,        \* longest list appended (bound)
    MaxVecOps       \* operations per chain (bound)

ASSUME VectorSizes ==
    /\ SIZE \in Nat
    /\ VecCapacity \in [Kinds -> 0..(SIZE - 1)]
    /\ Bufs \subseteq Items
    /\ MaxList \in Nat /\ MaxVecOps \in Nat
    /\ {"obj", "kv", "byte", "buf"} \subseteq Kinds

VARIABLES
    vec,            \* contents of each vector
    err,            \* the error of its chain
    asked,          \* history: what the operations of the chain asked for
    ops

vecVars == <<vec, err, asked, ops>>

VecInit ==
    /\ vec = [k \in Kinds |-> <<>>]
    /\ err = [k \in Kinds |-> "OK"]
    /\ asked = [k \in Kinds |-> <<>>]
    /\ ops = 0

VecLists == UNION {[1..n -> Items] : n \in 0..MaxList}

-----------------------------------------------------------------------------
(* Operations on one vector v of capacity cap: [ret, vec].                    *)

Push(v, cap, x) ==
    IF Len(v) >= cap THEN [ret |-> "NOMEM", vec |-> v]
    ELSE [ret |-> "OK", vec |-> Append(v, x)]

gg_obj_vec_push(v, x) == Push(v, VecCapacity["obj"], x)
gg_kv_vec_push(v, x) == Push(v, VecCapacity["kv"], x)
gg_byte_vec_push(v, x) == Push(v, VecCapacity["byte"], x)
gg_buf_vec_push(v, x) == Push(v, VecCapacity["buf"], x)

gg_obj_vec_pop(v) ==
    IF Len(v) = 0 THEN [ret |-> "RANGE", vec |-> v]
    ELSE [ret |-> "OK", vec |-> SubSeq(v, 1, Len(v) - 1)]

Extend(v, cap, list) ==
    IF (cap - Len(v)) % SIZE < Len(list) THEN [ret |-> "NOMEM", vec |-> v]
    ELSE [ret |-> "OK", vec |-> v \o list]

gg_obj_vec_append(v, list) == Extend(v, VecCapacity["obj"], list)
gg_byte_vec_append(v, list) == Extend(v, VecCapacity["byte"], list)

\* byte_vec_write: the writer of gg_byte_vec_writer.
byte_vec_write(v, list) == gg_byte_vec_append(v, list)

\* gg_buf_vec_append_list pushes element by element, up to the n-th: the next one,
\* if any, is not a buffer or has no room.
StopsAfter(v, list, n) ==
    LET stop(i) == IF i > Len(list) THEN TRUE ELSE list[i] \notin Bufs \/ Len(v) + i > VecCapacity["buf"]
    IN  stop(n + 1) /\ \A i \in 1..n : ~stop(i)

gg_buf_vec_append_list(v, list, n) ==
    [ret |-> IF n = Len(list) THEN "OK" ELSE IF list[n + 1] \notin Bufs THEN "INVALID" ELSE "NOMEM",
     vec |-> v \o SubSeq(list, 1, n)]

-----------------------------------------------------------------------------
(* Chains: an operation runs only while no earlier one failed.                *)

\* Mutant: the error is overwritten by later operations.
Chain_ForgetsError(k, r, list) ==
    /\ ops < MaxVecOps /\ ops' = ops + 1
    /\ vec' = [vec EXCEPT ![k] = r.vec] /\ err' = [err EXCEPT ![k] = r.ret]
    /\ asked' = [asked EXCEPT ![k] = @ \o list]

Chain(k, r, list) ==
    /\ ops < MaxVecOps /\ ops' = ops + 1
    /\ IF err[k] = "OK"
       THEN vec' = [vec EXCEPT ![k] = r.vec] /\ err' = [err EXCEPT ![k] = r.ret]
       ELSE UNCHANGED <<vec, err>>
    /\ asked' = [asked EXCEPT ![k] = @ \o list]

gg_obj_vec_chain_push(x) == Chain("obj", gg_obj_vec_push(vec["obj"], x), <<x>>)
gg_byte_vec_chain_push(x) == Chain("byte", gg_byte_vec_push(vec["byte"], x), <<x>>)
gg_buf_vec_chain_push(x) == Chain("buf", gg_buf_vec_push(vec["buf"], x), <<x>>)
PushKV(x) == Chain("kv", gg_kv_vec_push(vec["kv"], x), <<x>>)

gg_obj_vec_chain_append(list) == Chain("obj", gg_obj_vec_append(vec["obj"], list), list)
gg_byte_vec_chain_append(list) == Chain("byte", gg_byte_vec_append(vec["byte"], list), list)
gg_buf_vec_chain_append_list(list) ==
    \E n \in 0..Len(list) :
        /\ StopsAfter(vec["buf"], list, n)
        /\ Chain("buf", gg_buf_vec_append_list(vec["buf"], list, n), list)

\* A serializer writing through the vector's GgWriter.
WriteVec(list) == Chain("byte", byte_vec_write(vec["byte"], list), list)

\* A caller takes the last object back, and takes it out of what was asked for.
PopObj ==
    /\ ops < MaxVecOps /\ ops' = ops + 1
    /\ err["obj"] = "OK"
    /\ LET r == gg_obj_vec_pop(vec["obj"])
       IN  /\ vec' = [vec EXCEPT !["obj"] = r.vec]
           /\ asked' = [asked EXCEPT !["obj"] = IF r.ret = "OK" THEN SubSeq(@, 1, Len(@) - 1) ELSE @]
    /\ UNCHANGED err

VecNext ==
    \/ \E x \in Items : \/ gg_obj_vec_chain_push(x)
                        \/ gg_byte_vec_chain_push(x)
                        \/ PushKV(x)
    \/ \E x \in Bufs : gg_buf_vec_chain_push(x)
    \/ \E list \in VecLists : \/ gg_obj_vec_chain_append(list)
                           \/ gg_byte_vec_chain_append(list)
                           \/ gg_buf_vec_chain_append_list(list)
                           \/ WriteVec(list)
    \/ PopObj

VecSpec == VecInit /\ [][VecNext]_vecVars

-----------------------------------------------------------------------------
\* Type invariant.
VecTypeOK ==
    /\ vec \in [Kinds -> Seq(Items)]
    /\ err \in [Kinds -> {"OK", "NOMEM", "INVALID"}]
    /\ asked \in [Kinds -> Seq(Items)]
    /\ ops \in 0..MaxVecOps

\* No vector grows past its memory; the subtraction in the append functions
\* depends on it, as it would wrap otherwise.
WithinCapacity == \A k \in Kinds : Len(vec[k]) <= VecCapacity[k]

\* A chain that ends with GG_ERR_OK stored everything it was asked to, in order.
OkMeansComplete == \A k \in Kinds : err[k] = "OK" => vec[k] = asked[k]

\* A chain that fails stored the first part of it: nothing after the operation
\* that failed, even if it would fit.
FailureKeepsPrefix ==
    \A k \in Kinds : /\ Len(vec[k]) <= Len(asked[k])
                     /\ \A i \in 1..Len(vec[k]) : vec[k][i] = asked[k][i]
                     /\ err[k] = "NOMEM" => Len(asked[k]) > VecCapacity[k]

\* What a chain of operations leaves in a vector is determined by its error: all
\* that was asked for, or a first part of what does not fit.
ChainsExact == WithinCapacity /\ OkMeansComplete /\ FailureKeepsPrefix

=============================================================================
