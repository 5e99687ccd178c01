------------------------------- MODULE MCData -------------------------------
(***************************************************************************)
(* Values in memory: the arena, the vectors, the visitor of objects with     *)
(* the operations built on it (JSON encoding included), the comparison of    *)
(* objects, and JSON decoding.  They share no state, so a behaviour of all   *)
(* of them is one of each, and each is run by itself: part says which.       *)
(***************************************************************************)
EXTENDS Arena, Vectors, Json

CONSTANTS
    GG_MAX_OBJECT_DEPTH, GG_MAX_OBJECT_SUBOBJECTS,
    MaxArray, MaxObject, MaxNumber, MaxString, Codes    \* texts to decode

VARIABLES
    part,
    op, mem, start, levels, subobjects, ret,                        \* ObjectVisit
    lhs, rhs, eq_levels, eq_subobjects, eq_ret,                     \* ObjectCompare
    input, result                                                   \* JsonDecode

\* Capacities of one to three, against lists of up to three items.
MCCapacity == [k \in Kinds |-> CASE k = "kv" -> 1 [] k = "byte" -> 3 [] OTHER -> 2]

-----------------------------------------------------------------------------
(* Objects: all small ones of two levels, selected ones of four, and maps with
   repeated keys. *)

I64(k) == <<"i64", k>>
Buf(s) == <<"buf", s>>
ListsOf(S, k) == UNION {{<<"list", s>> : s \in [1..i -> S]} : i \in 0..k}
MapsOf(Keys, S, k) == UNION {{<<"map", s>> : s \in [1..i -> Keys \X S]} : i \in 0..k}

AB == {<<97>>, <<98>>}
One == {I64(7), Buf(<<97>>)} \cup ListsOf({I64(7), Buf(<<97>>)}, 2) \cup MapsOf(AB, {I64(7), Buf(<<97>>)}, 2)
Few == {I64(7), <<"list", << Buf(<<97>>) >>>>, <<"map", << << <<98>>, Buf(<<>>) >> >>>>}
Up(S) == ListsOf(S, 1) \cup MapsOf(AB, S, 1)
Deep == Up(Up(Up(Few)))
Two == ListsOf(Few, 2) \cup MapsOf(AB, Few, 2)
Small == One \cup Two \cup Deep
Repeated == {<<"map", s>> : s \in [1..4 -> {<<97>>, <<98>>, <<97, 98>>} \X {I64(1), I64(2)}]}
            \cup MapsOf(AB, {<<"map", << <<k, I64(1)>>, << <<97>>, I64(2)>> >>>> : k \in AB}, 2)

\* Objects to encode: every type, and characters that are escaped.
Scalars ==
    {GG_OBJ_NULL.type} \X {0} \cup {<<"bool", x>> : x \in BOOLEAN}
    \cup {I64(k) : k \in {-9, 0, 42}} \cup {<<"f64", <<49, 46, 53>>>>}
    \cup {Buf(s) : s \in {<<>>, <<31>>, <<Quote, Backslash>>, <<195, 169, 97>>}}
Some == {I64(5), Buf(<<Backslash>>)}
AQ == {<<97>>, <<Quote>>}
Encoded ==
    ListsOf(Scalars \cup ListsOf(Some, 2) \cup MapsOf(AQ, Some, 2), 2)
    \cup MapsOf(AQ, Scalars, 2) \cup MapsOf(AQ, ListsOf(Some, 2) \cup MapsOf(AQ, Some, 1), 1)

Input(o, v, left, room, mixed) == [op |-> o, value |-> v, left |-> left, room |-> room, mixed |-> mixed]
VisitInputs ==
    {Input("mem_usage", v, 0, 0, FALSE) : v \in Small}
    \cup {Input("claim_obj", v, k, 0, FALSE) : v \in Small, k \in {0, 2, 3, 5, 6, 7, 9, 14}}
    \cup {Input(o, v, k, 0, TRUE) : o \in {"claim_obj", "claim_obj_bufs"}, v \in Small, k \in {2, 6, 14}}
    \cup {Input(o, v, 0, 0, FALSE) : o \in {"canonicalize", "is_canonical"}, v \in Small \cup Repeated}
    \cup {Input("json_encode", v, 0, k, FALSE) : v \in Encoded, k \in {4, 9, 60}}

\* Pairs to compare, around the limits of depth and size.
EqOne == {I64(7), <<"f64", 7>>, Buf(<<97>>), Buf(<<>>)}
         \cup ListsOf({I64(7), Buf(<<>>)}, 2) \cup MapsOf(AB, {I64(7), <<"bool", 1>>}, 2)
EqFew == {I64(7), I64(8), <<"list", << I64(7) >>>>, <<"map", << << <<98>>, I64(7) >> >>>>}
EqTwo == ListsOf(EqFew, 2) \cup MapsOf(AB, EqFew, 2)
EqDeep == Up(Up(Up(EqFew)))
EqPairs == (EqOne \X EqOne) \cup (EqTwo \X EqTwo) \cup (EqDeep \X EqDeep)

-----------------------------------------------------------------------------
visitVars == <<op, mem, start, levels, subobjects, ret>>
eqVars == <<lhs, rhs, eq_levels, eq_subobjects, eq_ret>>
decVars == <<input, result>>

Visit == INSTANCE JsonText WITH Inputs <- VisitInputs
Eq == INSTANCE ObjectCompare WITH Pairs <- EqPairs, levels <- eq_levels,
                                  subobjects <- eq_subobjects, ret <- eq_ret
Dec == INSTANCE JsonDecode

NoVisit ==
    /\ op = "none" /\ mem = Memory(<<"null", 0>>, 0, 0) /\ start = mem
    /\ levels = <<Visit!Level(Root)>> /\ subobjects = 0 /\ ret = "running"
NoEq ==
    /\ lhs = I64(0) /\ rhs = I64(0) /\ eq_levels = <<Eq!Level(lhs, rhs)>> /\ eq_subobjects = 0
    /\ eq_ret = "running"
NoDec == input = [kind |-> "none"] /\ result = Dec!NotRun

MCInit ==
    /\ Init /\ VecInit
    /\ \/ part \in {"arena", "vectors"} /\ NoVisit /\ NoEq /\ NoDec
       \/ part = "visit" /\ Visit!Init /\ NoEq /\ NoDec
       \/ part = "eq" /\ NoVisit /\ Eq!Init /\ NoDec
       \/ part = "decode" /\ NoVisit /\ NoEq /\ Dec!Init

MCNext ==
    /\ \/ part = "arena" /\ Next /\ UNCHANGED <<vecVars, visitVars, eqVars, decVars>>
       \/ part = "vectors" /\ VecNext /\ UNCHANGED <<vars, visitVars, eqVars, decVars>>
       \/ part = "visit" /\ Visit!Next /\ UNCHANGED <<vars, vecVars, eqVars, decVars>>
       \/ part = "eq" /\ Eq!Next /\ UNCHANGED <<vars, vecVars, visitVars, decVars>>
       \/ part = "decode" /\ Dec!Next /\ UNCHANGED <<vars, vecVars, visitVars, eqVars>>
    /\ UNCHANGED part

allVars == <<part, vars, vecVars, visitVars, eqVars, decVars>>
MCSpec == MCInit /\ [][MCNext]_allVars

-----------------------------------------------------------------------------
(* The properties of the parts that are instances, stated where they are       *)
(* defined.                                                                    *)

\* gg_obj_visit stays within the limits of object.h on depth and count, and
\* returns GG_ERR_RANGE exactly for objects beyond them.
VisitWithinLimits == Visit!TypeOK /\ Visit!RangeMeansTooLarge

\* A claim is a deep copy: gg_obj_mem_usage announces exactly what it takes, every
\* block of the object is in the arena after it, and the value of the object
\* stays the same, also when it fails half-way.
ClaimIsDeepCopy == Visit!UsageCoversClaim /\ Visit!ClaimedIsOwned /\ Visit!ClaimKeepsValue

\* gg_obj_canonicalize sorts and prunes every map; gg_obj_is_canonical agrees.
CanonicalForm == Visit!CanonicalForm

\* gg_json_encode writes the whole text or fails because it has no room for it,
\* and decoding the text gives the object back, in canonical form.
JsonRoundTrip == Visit!EncodesWholeText /\ Visit!JsonRoundTrip

\* gg_obj_eq is equality of values, within the limits of object.h.
EqIsValueEquality == Eq!EqIsValueEquality

\* gg_json_decode_destructive accepts exactly the documents of the grammar, decodes
\* integers and strings to their values or refuses what int64_t or UTF-8 cannot
\* hold, and takes no memory when it fails.
DecodesExactlyJson ==
    /\ Dec!AcceptsExactlyJson
    /\ Dec!IntegersDecodeExactly
    /\ Dec!StringsDecodeExactly
    /\ Dec!DecodeMemory

=============================================================================
